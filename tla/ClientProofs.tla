----------------------------- MODULE ClientProofs -----------------------------
(***************************************************************************)
(* That the client shows the messages of the executor in order, and returns *)
(* the status of a job only if the executor sent it, for messages of any    *)
(* length that are cut into any pieces.                                     *)
(***************************************************************************)
EXTENDS Client, SequenceTheorems, TLAPS

PCs == {"post", "hung", "accept", "select", "recv", "desync", "mirror", "done"}
Buffers == [1 .. HeaderLen -> Nat] \cup [1 .. BodyLen -> Nat]

ClientTypes ==
  /\ pc \in PCs /\ version \in {0, 1} /\ interrupted \in BOOLEAN
  /\ sent \in Seq(Messages) /\ out \in Seq(Messages \cup {Garbled})
  /\ pos \in Nat /\ pos <= Len(sent) * FrameLen
  /\ rcv \in [name : {"header", "body"}, length : Nat, first : Nat, cur : Nat, view : Nat,
              buf : Buffers]

\* The part that is being received: the view is not behind the bytes received, and
\* those are in their place.
PartIsFilled ==
  pc = "recv" =>
    /\ rcv.length = (IF rcv.name = "header" THEN HeaderLen ELSE BodyLen)
    /\ rcv.buf \in [1 .. rcv.length -> Nat]
    /\ rcv.cur <= rcv.view /\ rcv.view <= rcv.length
    /\ \A i \in 1 .. rcv.cur : rcv.buf[i] = rcv.first + i
    /\ pos = rcv.first + rcv.cur
    /\ rcv.name = "body" => \E k \in Nat : rcv.first = k * FrameLen + HeaderLen

\* What was handled, and how far the stream was read for it.
ShownInOrder ==
  Len(out) <= Len(sent) /\ \A i \in 1 .. Len(out) : out[i] = sent[i]
ReadSoFar ==
  IF version = 0 THEN Len(out) = pos \div FrameLen
  ELSE /\ pc # "desync"
       /\ pc \in {"post", "hung", "accept", "select", "mirror"} => pos = Len(out) * FrameLen
       /\ pc = "recv" => rcv.first = Len(out) * FrameLen
                                       + (IF rcv.name = "header" THEN 0 ELSE HeaderLen)
InOrder == ~ interrupted => ShownInOrder /\ ReadSoFar

\* Messages of version 0 are not framed; before the executor connects there are none.
BeforeV1 ==
  /\ pc \in {"post", "hung", "accept"} => sent = <<>> /\ out = <<>> /\ pos = 0 /\ ~ interrupted
  /\ version = 0 => ~ interrupted /\ pc \notin {"recv", "desync", "mirror"}

ClientInv == ClientTypes /\ PartIsFilled /\ InOrder /\ BeforeV1

\* The session ends with the last message, and the client ends with its status.
EndIsLast == \A i \in 1 .. Len(sent) : sent[i] \in JobStatuses => i = Len(sent) /\ closed
OutputHasIt == version = 0 /\ \E i \in DOMAIN sent : sent[i] = "job_io"
EndIsEarned ==
  /\ pc # "done" => status = "none"
  /\ pc = "mirror" => out # <<>> /\ sent # <<>> /\ Last(out) \in JobStatuses /\ Last(out) = Last(sent)
  /\ status \in JobStatuses => /\ Last(sent) = status \/ OutputHasIt
                               /\ (version = 1 /\ options.share_directory => mirrored)
StatusInv == EndIsLast /\ EndIsEarned

-----------------------------------------------------------------------------
(* The stream: frame k takes the bytes from k * FrameLen on.                *)

\* Of two multiples of the length of a frame, the larger is of the larger number.
LEMMA FramesAreOrdered ==
  ASSUME NEW a \in Nat, NEW b \in Nat, NEW F \in Nat \ {0}, a * F <= b * F
  PROVE  a <= b
<1> SUFFICES ASSUME b + 1 <= a PROVE FALSE
  OBVIOUS
<1>1. (b + 1) * F = b * F + F
  OBVIOUS
<1>2. PICK c \in Nat : a = b + 1 + c
  OBVIOUS
<1>3. a * F = (b + 1) * F + c * F /\ c * F \in Nat
  BY <1>2
<1> QED BY <1>1, <1>3

\* Where the next frame begins.
LEMMA NextFrame ==
  ASSUME NEW n \in Nat, NEW F \in Nat \ {0}
  PROVE  (n + 1) * F = n * F + F /\ n * F \in Nat
OBVIOUS

\* The frame that a byte is in.
LEMMA FrameOfByte ==
  ASSUME NEW k \in Nat, NEW F \in Nat \ {0}, NEW h \in Nat, h < F
  PROVE  (k * F + h) \div F = k /\ (k * F + h) % F = h
<1> DEFINE x == k * F + h
           q == x \div F
           m == x % F
<1>1. x \in Nat /\ q \in Nat /\ m \in Nat /\ m < F /\ x = q * F + m
  OBVIOUS
<1> HIDE DEF q, m
<1>2. q * F + m = k * F + h
  BY <1>1
<1>3. q <= k
  <2>1. SUFFICES ASSUME k + 1 <= q PROVE FALSE
    BY <1>1
  <2>2. PICK c \in Nat : q = k + 1 + c
    BY <1>1, <2>1
  <2>3. q * F = k * F + F + c * F /\ c * F \in Nat
    BY <2>2
  <2> QED BY <1>1, <1>2, <2>3
<1>4. k <= q
  <2>1. SUFFICES ASSUME q + 1 <= k PROVE FALSE
    BY <1>1
  <2>2. PICK c \in Nat : k = q + 1 + c
    BY <1>1, <2>1
  <2>3. k * F = q * F + F + c * F /\ c * F \in Nat
    BY <1>1, <2>2
  <2> QED BY <1>1, <1>2, <2>3
<1>5. q = k
  BY <1>1, <1>3, <1>4
<1>6. m = h
  BY <1>1, <1>2, <1>5
<1> QED BY <1>5, <1>6 DEF q, m

\* Reading on does not lead back to an earlier frame, nor past the last one.
LEMMA FramesRead ==
  ASSUME NEW x \in Nat, NEW y \in Nat, NEW n \in Nat, NEW F \in Nat \ {0}, x <= y, y <= n * F
  PROVE  x \div F \in Nat /\ y \div F \in Nat /\ x \div F <= y \div F /\ y \div F <= n
<1> DEFINE q == x \div F
           r == y \div F
<1>1. q \in Nat /\ r \in Nat /\ q * F <= x /\ r * F <= y /\ y < r * F + F
  OBVIOUS
<1> HIDE DEF q, r
<1>2. r <= n
  <2>1. r * F <= n * F /\ r * F \in Nat /\ n * F \in Nat
    BY <1>1
  <2> QED BY <1>1, <2>1, FramesAreOrdered
<1>3. q <= r
  <2>1. SUFFICES ASSUME r + 1 <= q PROVE FALSE
    BY <1>1
  <2>2. PICK c \in Nat : q = r + 1 + c
    BY <1>1, <2>1
  <2>3. q * F = r * F + F + c * F /\ c * F \in Nat /\ r * F \in Nat
    BY <1>1, <2>2
  <2> QED BY <1>1, <2>3
<1> QED BY <1>1, <1>2, <1>3 DEF q, r

\* A frame is a header and a body, of at least a byte each.
LEMMA FrameLength ==
  FrameLen \in Nat \ {0} /\ HeaderLen < FrameLen /\ FrameLen = HeaderLen + BodyLen
BY LengthsAssumption DEF FrameLen

-----------------------------------------------------------------------------
(* The steps of the client and of the executor.                             *)

\* Neither reads nor writes the stream.
Quiet ==
  /\ UNCHANGED <<version, sent, pos, rcv, out, interrupted>>
  /\ pc' = pc \/ pc' = "done" \/ (pc = "accept" /\ pc' = "select")

\* Such a step keeps the invariant.
LEMMA QuietSteps ==
  ASSUME ClientInv, Quiet
  PROVE  ClientInv'
<1> USE DEF ClientInv
<1>1. ClientTypes'
  BY DEF ClientTypes, Quiet, PCs
<1>2. PartIsFilled'
  BY DEF PartIsFilled, Quiet
<1>3. InOrder'
  BY DEF InOrder, ShownInOrder, ReadSoFar, Quiet
<1>4. BeforeV1'
  BY DEF BeforeV1, Quiet
<1> QED BY <1>1, <1>2, <1>3, <1>4

\* The steps that are quiet.
LEMMA AreQuiet ==
  ASSUME \/ UNCHANGED vars
         \/ PostAgain \/ Accept \/ AcceptTimeout \/ CloseConsole \/ RemoveBucket
         \/ RecvRaises \/ Desynchronized \/ HandleEndMessage \/ EndV0
         \/ Press("CTRL+A") \/ Press("other")
  PROVE  Quiet
<1>1. CASE UNCHANGED vars \/ Press("CTRL+A") \/ Press("other")
  BY <1>1 DEF vars, server, user, Press, SendFails, Exit, Quiet
<1>2. CASE Accept
  BY <1>2 DEF Accept, Exit, user, Quiet
<1>3. CASE AcceptTimeout \/ PostAgain
  BY <1>3 DEF AcceptTimeout, PostAgain, Exit, user, server, Quiet
<1>4. CASE CloseConsole \/ RemoveBucket
  BY <1>4 DEF CloseConsole, RemoveBucket, user, Quiet
<1>5. CASE RecvRaises \/ Desynchronized
  BY <1>5 DEF RecvRaises, Desynchronized, Exit, user, server, Quiet
<1>6. CASE HandleEndMessage
  BY <1>6 DEF HandleEndMessage, Exit, user, server, Quiet
<1>7. CASE EndV0
  BY <1>7 DEF EndV0, Exit, user, server, Quiet
<1> QED BY <1>1, <1>2, <1>3, <1>4, <1>5, <1>6, <1>7

\* The job is posted.
LEMMA QueueJobStep ==
  ASSUME ClientInv, QueueJob
  PROVE  ClientInv'
<1> USE DEF ClientInv
<1>1. /\ pc = "post" /\ UNCHANGED <<sent, pos, rcv, out, interrupted>>
      /\ pc' \in {"hung", "accept", "done"} /\ version' \in {0, 1}
  <2>1. PICK code \in {"200", "409", "other", "unreachable", "unsupported version"} :
          CASE code = "200" -> pc' = "accept" /\ version' \in {0, 1} /\ status' = status
            [] code = "409" /\ options.wait_if_busy -> pc' = "hung" /\ UNCHANGED <<version, status>>
            [] code = "unsupported version" -> Exit("UNKNOWN") /\ version' = version
            [] OTHER -> Exit("SETUP_FAIL") /\ version' = version
    BY DEF QueueJob
  <2>2. pc = "post" /\ UNCHANGED <<sent, pos, rcv, out, interrupted>>
    BY DEF QueueJob, user
  <2>3. version \in {0, 1}
    BY DEF ClientTypes
  <2>4. CASE code = "200"
    BY <2>1, <2>2, <2>4
  <2>5. CASE code = "409" /\ options.wait_if_busy
    BY <2>1, <2>2, <2>3, <2>5
  <2>6. CASE code # "200" /\ ~ (code = "409" /\ options.wait_if_busy)
    BY <2>1, <2>2, <2>3, <2>6 DEF Exit
  <2> QED BY <2>4, <2>5, <2>6
<1>2. sent = <<>> /\ out = <<>> /\ pos = 0 /\ ~ interrupted
  BY <1>1 DEF BeforeV1
<1>3. ClientTypes'
  BY <1>1 DEF ClientTypes, PCs
<1>4. PartIsFilled' /\ BeforeV1'
  BY <1>1, <1>2 DEF PartIsFilled, BeforeV1
<1>5. InOrder'
  <2>1. 0 \div FrameLen = 0 /\ 0 * FrameLen = 0
    BY FrameLength
  <2> QED BY <1>1, <1>2, <2>1 DEF InOrder, ShownInOrder, ReadSoFar
<1> QED BY <1>3, <1>4, <1>5

\* Message.send() of the executor.
LEMMA SendStep ==
  ASSUME ClientInv, NEW m \in Messages, Connected, sent' = Append(sent, m),
         UNCHANGED <<pc, version, pos, rcv, out, interrupted>>
  PROVE  ClientInv'
<1> USE DEF ClientInv
<1>1. /\ sent' \in Seq(Messages) /\ Len(sent') = Len(sent) + 1
      /\ \A i \in 1 .. Len(sent) : sent'[i] = sent[i]
  BY AppendProperties DEF ClientTypes
<1>2. ClientTypes'
  <2>1. Len(sent) \in Nat /\ pos \in Nat /\ pos <= Len(sent) * FrameLen
    BY DEF ClientTypes
  <2>2. (Len(sent) + 1) * FrameLen = Len(sent) * FrameLen + FrameLen /\ Len(sent) * FrameLen \in Nat
    BY <2>1, FrameLength, NextFrame
  <2>3. pos <= Len(sent') * FrameLen
    BY <1>1, <2>1, <2>2, FrameLength
  <2> QED BY <1>1, <2>3 DEF ClientTypes
<1>3. PartIsFilled'
  BY DEF PartIsFilled
<1>4. InOrder'
  <2>1. Len(out) \in Nat /\ Len(sent) \in Nat
    BY DEF ClientTypes
  <2>2. ShownInOrder => ShownInOrder'
    BY <1>1, <2>1 DEF ShownInOrder
  <2>3. ReadSoFar => ReadSoFar'
    BY DEF ReadSoFar
  <2> QED BY <2>2, <2>3 DEF InOrder
<1>5. BeforeV1'
  BY DEF BeforeV1, Connected
<1> QED BY <1>2, <1>3, <1>4, <1>5

-----------------------------------------------------------------------------
(* Message.recv() and Message.next_message().                               *)

\* A part that is received from here on.
LEMMA PartIsNew ==
  ASSUME NEW name \in {"header", "body"}, pos \in Nat
  PROVE  LET length == IF name = "header" THEN HeaderLen ELSE BodyLen
             part == Part(name, length, pos)
         IN  /\ part \in [name : {"header", "body"}, length : Nat, first : Nat, cur : Nat,
                         view : Nat, buf : Buffers]
             /\ part.name = name /\ part.length = length /\ part.first = pos
             /\ part.cur = 0 /\ part.view = 0 /\ part.buf \in [1 .. length -> Nat]
<1>1. CASE name = "header"
  BY <1>1, LengthsAssumption DEF Part, Buffers
<1>2. CASE name = "body"
  BY <1>2, LengthsAssumption DEF Part, Buffers
<1> QED BY <1>1, <1>2

\* select() found the socket readable: a header is received.
LEMMA NextMessageStep ==
  ASSUME ClientInv, NextMessage
  PROVE  ClientInv'
<1> USE DEF ClientInv
<1>1. /\ pc = "select" /\ version = 1 /\ pc' = "recv" /\ rcv' = Header
      /\ UNCHANGED <<version, sent, pos, out, interrupted>>
  BY DEF NextMessage, server, user
<1>2. /\ rcv' \in [name : {"header", "body"}, length : Nat, first : Nat, cur : Nat,
                    view : Nat, buf : Buffers]
      /\ rcv'.name = "header" /\ rcv'.length = HeaderLen /\ rcv'.first = pos
      /\ rcv'.cur = 0 /\ rcv'.view = 0 /\ rcv'.buf \in [1 .. HeaderLen -> Nat]
  BY <1>1, PartIsNew DEF Header, ClientTypes
<1>3. ClientTypes'
  BY <1>1, <1>2 DEF ClientTypes, PCs
<1>4. PartIsFilled'
  BY <1>1, <1>2, LengthsAssumption DEF PartIsFilled, ClientTypes
<1>5. InOrder'
  BY <1>1, <1>2 DEF InOrder, ShownInOrder, ReadSoFar, ClientTypes
<1>6. BeforeV1'
  BY <1>1 DEF BeforeV1
<1> QED BY <1>3, <1>4, <1>5, <1>6

\* A piece is received.  recv_into() refuses a view that is ahead of the bytes that were
\* received: where it writes, the bytes belong.
LEMMA RecvStep ==
  ASSUME ClientInv, Recv
  PROVE  ClientInv'
<1> USE DEF ClientInv
<1>1. pc = "recv" /\ UNCHANGED <<pc, version, sent, out, interrupted>>
  BY DEF Recv, server, user
<1>2. PICK n \in 1 .. rcv.length :
        /\ ~ TooShort /\ n <= rcv.length - rcv.cur /\ n <= Available
        /\ rcv' = Advance(Fill(rcv, n)) /\ pos' = pos + n
  BY DEF Recv
<1>3. /\ rcv.length \in Nat /\ rcv.cur \in Nat /\ rcv.view \in Nat /\ rcv.first \in Nat
      /\ pos \in Nat /\ Len(sent) * FrameLen \in Nat
  BY FrameLength, NextFrame DEF ClientTypes
<1>4. rcv.view = rcv.cur
  BY <1>1, <1>2, <1>3 DEF PartIsFilled, TooShort
<1> DEFINE buf == [i \in 1 .. rcv.length |->
                     IF i \in rcv.cur + 1 .. rcv.cur + n THEN pos + i - rcv.cur ELSE rcv.buf[i]]
           view == IF rcv.cur + (rcv.cur + n) > rcv.length THEN rcv.length
                   ELSE rcv.cur + (rcv.cur + n)
<1>5. rcv' = [rcv EXCEPT !.cur = rcv.cur + n, !.buf = buf, !.view = view]
  BY <1>2, <1>4 DEF Advance, Fill, ClientTypes
<1>6. view \in Nat /\ rcv.cur + n <= view /\ view <= rcv.length
  BY <1>2, <1>3
<1>7. buf \in [1 .. rcv.length -> Nat] /\ buf \in Buffers
  <2>1. rcv.buf \in [1 .. rcv.length -> Nat] /\ rcv.length \in {HeaderLen, BodyLen}
    BY <1>1 DEF PartIsFilled
  <2>2. ASSUME NEW i \in 1 .. rcv.length
        PROVE  (IF i \in rcv.cur + 1 .. rcv.cur + n THEN pos + i - rcv.cur ELSE rcv.buf[i]) \in Nat
    <3>1. CASE i \in rcv.cur + 1 .. rcv.cur + n
      BY <1>3, <3>1
    <3>2. CASE i \notin rcv.cur + 1 .. rcv.cur + n
      BY <2>1, <3>2
    <3> QED BY <3>1, <3>2
  <2>3. buf \in [1 .. rcv.length -> Nat]
    BY <2>2
  <2> HIDE DEF buf
  <2> QED BY <2>1, <2>3 DEF Buffers
<1>8. ASSUME NEW i \in 1 .. rcv.cur + n
      PROVE  buf[i] = rcv.first + i
  <2>1. i \in 1 .. rcv.length /\ pos = rcv.first + rcv.cur
    BY <1>1, <1>2, <1>3 DEF PartIsFilled
  <2>2. CASE i \in rcv.cur + 1 .. rcv.cur + n
    BY <1>3, <2>1, <2>2
  <2>3. CASE i \notin rcv.cur + 1 .. rcv.cur + n
    <3>1. i \in 1 .. rcv.cur
      BY <1>2, <1>3, <2>3
    <3>2. rcv.buf[i] = rcv.first + i
      BY <1>1, <3>1 DEF PartIsFilled
    <3> QED BY <2>1, <2>3, <3>2
  <2> QED BY <2>2, <2>3
<1> DEFINE cur == rcv.cur + n
<1>a. cur \in Nat
  BY <1>2, <1>3
<1> HIDE DEF buf, view, cur
<1>9. /\ rcv'.name = rcv.name /\ rcv'.length = rcv.length /\ rcv'.first = rcv.first
      /\ rcv'.cur = cur /\ rcv'.view = view /\ rcv'.buf = buf
      /\ rcv' \in [name : {"header", "body"}, length : Nat, first : Nat, cur : Nat,
                    view : Nat, buf : Buffers]
  <2>1. rcv' = [rcv EXCEPT !.cur = cur, !.buf = buf, !.view = view]
    BY <1>5 DEF cur
  <2> QED BY <1>6, <1>7, <1>a, <2>1 DEF ClientTypes
<1>10. pos' \in Nat /\ pos' <= Len(sent) * FrameLen
  BY <1>2, <1>3 DEF Available
<1>11. ClientTypes'
  BY <1>1, <1>9, <1>10 DEF ClientTypes
<1>12. PartIsFilled'
  <2>1. /\ rcv.length = (IF rcv.name = "header" THEN HeaderLen ELSE BodyLen)
        /\ pos = rcv.first + rcv.cur
        /\ rcv.name = "body" => \E k \in Nat : rcv.first = k * FrameLen + HeaderLen
    BY <1>1 DEF PartIsFilled
  <2>2. cur <= view /\ view <= rcv.length /\ (\A i \in 1 .. cur : buf[i] = rcv.first + i)
    BY <1>6, <1>8 DEF cur
  <2>3. pos' = rcv.first + cur
    BY <1>2, <1>3, <2>1 DEF cur
  <2> QED BY <1>7, <1>9, <2>1, <2>2, <2>3 DEF PartIsFilled
<1>13. InOrder'
  BY <1>1, <1>9 DEF InOrder, ShownInOrder, ReadSoFar, BeforeV1
<1>14. BeforeV1'
  BY <1>1 DEF BeforeV1
<1> QED BY <1>11, <1>12, <1>13, <1>14

\* A header is complete: it is one, unless CTRL+C made the client lose its place.
LEMMA HeaderReceivedStep ==
  ASSUME ClientInv, HeaderReceived
  PROVE  ClientInv'
<1> USE DEF ClientInv
<1>1. /\ pc = "recv" /\ rcv.name = "header" /\ rcv.cur = rcv.length
      /\ UNCHANGED <<version, sent, pos, out, interrupted>>
  BY DEF HeaderReceived, server, user
<1>2. /\ Intact(rcv) /\ pos = rcv.first + HeaderLen /\ rcv.first \in Nat /\ pos \in Nat
      /\ Len(out) \in Nat
  BY <1>1 DEF PartIsFilled, Intact, ClientTypes
<1>3. version = 1
  BY <1>1 DEF BeforeV1, ClientTypes
<1>4. BeforeV1'
  BY <1>1, <1>3, FrameLength DEF BeforeV1, HeaderReceived
<1>5. CASE rcv.first % FrameLen = 0
  <2>1. pc' = "recv" /\ rcv' = Part("body", BodyLen, pos)
    BY <1>1, <1>2, <1>5 DEF HeaderReceived
  <2>2. /\ rcv' \in [name : {"header", "body"}, length : Nat, first : Nat, cur : Nat,
                      view : Nat, buf : Buffers]
        /\ rcv'.name = "body" /\ rcv'.length = BodyLen /\ rcv'.first = pos
        /\ rcv'.cur = 0 /\ rcv'.view = 0 /\ rcv'.buf \in [1 .. BodyLen -> Nat]
    BY <1>2, <2>1, PartIsNew
  <2>3. \E k \in Nat : rcv.first = k * FrameLen
    <3>1. rcv.first \div FrameLen \in Nat /\ rcv.first = (rcv.first \div FrameLen) * FrameLen
      BY <1>2, <1>5, FrameLength
    <3> QED BY <3>1
  <2>4. \E k \in Nat : rcv'.first = k * FrameLen + HeaderLen
    BY <1>2, <2>2, <2>3
  <2>5. ClientTypes'
    BY <1>1, <2>1, <2>2 DEF ClientTypes, PCs
  <2>6. PartIsFilled'
    BY <1>1, <1>2, <2>1, <2>2, <2>4, LengthsAssumption DEF PartIsFilled
  <2>7. InOrder'
    <3> SUFFICES ASSUME ~ interrupted PROVE ShownInOrder' /\ ReadSoFar'
      BY <1>1 DEF InOrder
    <3>1. ShownInOrder /\ rcv.first = Len(out) * FrameLen + 0
      BY <1>1, <1>3 DEF InOrder, ReadSoFar
    <3>2. Len(out) * FrameLen \in Nat
      BY <1>2, FrameLength, NextFrame
    <3>3. rcv'.first = Len(out) * FrameLen + HeaderLen
      BY <1>2, <2>2, <3>1, <3>2
    <3> QED BY <1>1, <1>3, <2>1, <2>2, <3>1, <3>3 DEF ShownInOrder, ReadSoFar
  <2> QED BY <1>4, <2>5, <2>6, <2>7
<1>6. CASE rcv.first % FrameLen # 0
  <2>1. pc' = "desync" /\ rcv' = rcv
    BY <1>6 DEF HeaderReceived
  <2>2. interrupted
    <3> SUFFICES ASSUME ~ interrupted PROVE FALSE
      OBVIOUS
    <3>1. rcv.first = Len(out) * FrameLen + 0
      BY <1>1, <1>2, <1>3 DEF InOrder, ReadSoFar
    <3>2. (Len(out) * FrameLen + 0) % FrameLen = 0
      BY <1>2, FrameLength, FrameOfByte
    <3> QED BY <1>6, <3>1, <3>2
  <2>3. ClientTypes' /\ PartIsFilled' /\ InOrder'
    BY <1>1, <2>1, <2>2 DEF ClientTypes, PCs, PartIsFilled, InOrder
  <2> QED BY <1>4, <2>3
<1> QED BY <1>5, <1>6

\* A body that is complete is that of a message of the executor, and of the next one
\* to be handled unless CTRL+C made the client drop one.
LEMMA BodyIsDecoded ==
  ASSUME ClientInv, pc = "recv", rcv.name = "body", rcv.cur = rcv.length
  PROVE  \E k \in Nat : /\ pos = (k + 1) * FrameLen /\ k + 1 \in 1 .. Len(sent)
                        /\ Decoded = sent[k + 1] /\ Decoded \in Messages
                        /\ ~ interrupted => k = Len(out)
<1> USE DEF ClientInv
<1>1. /\ Intact(rcv) /\ pos = rcv.first + BodyLen /\ rcv.first \in Nat /\ pos \in Nat
      /\ Len(out) \in Nat /\ Len(sent) \in Nat
  BY DEF PartIsFilled, Intact, ClientTypes
<1>2. PICK k \in Nat : rcv.first = k * FrameLen + HeaderLen
  BY DEF PartIsFilled
<1>3. rcv.first \div FrameLen = k
  BY <1>2, FrameLength, FrameOfByte, LengthsAssumption
<1>4. pos = (k + 1) * FrameLen
  <2>1. (k + 1) * FrameLen = k * FrameLen + FrameLen /\ k * FrameLen \in Nat
    BY FrameLength, NextFrame
  <2> QED BY <1>1, <1>2, <2>1, FrameLength, LengthsAssumption
<1>5. k + 1 \in 1 .. Len(sent)
  <2>1. (k + 1) * FrameLen <= Len(sent) * FrameLen
    BY <1>4 DEF ClientTypes
  <2>2. k + 1 <= Len(sent)
    BY <1>1, <2>1, FrameLength, FramesAreOrdered
  <2> QED BY <1>1, <2>2
<1>6. Decoded = sent[k + 1]
  BY <1>1, <1>3 DEF Decoded
<1>7. sent[k + 1] \in Messages
  BY <1>1, <1>5, ElementOfSeq DEF ClientTypes
<1>8. ASSUME ~ interrupted
      PROVE  k = Len(out)
  <2>1. version = 1
    BY DEF BeforeV1, ClientTypes
  <2>2. rcv.first = Len(out) * FrameLen + HeaderLen
    BY <1>8, <2>1 DEF InOrder, ReadSoFar
  <2>3. (Len(out) * FrameLen + HeaderLen) \div FrameLen = Len(out)
    BY <1>1, FrameLength, FrameOfByte, LengthsAssumption
  <2> QED BY <1>3, <2>2, <2>3
<1>9. Decoded \in Messages
  BY <1>6, <1>7
<1> QED BY <1>4, <1>5, <1>6, <1>8, <1>9, Zenon

\* A message is handled.
LEMMA BodyReceivedStep ==
  ASSUME ClientInv, BodyReceived
  PROVE  ClientInv'
<1> USE DEF ClientInv
<1>1. /\ pc = "recv" /\ rcv.name = "body" /\ rcv.cur = rcv.length /\ out' = Append(out, Decoded)
      /\ UNCHANGED <<version, sent, pos, rcv, interrupted>>
  BY DEF BodyReceived, server, user
<1>2. PICK k \in Nat : /\ pos = (k + 1) * FrameLen /\ k + 1 \in 1 .. Len(sent)
                       /\ Decoded = sent[k + 1] /\ Decoded \in Messages
                       /\ ~ interrupted => k = Len(out)
  BY <1>1, BodyIsDecoded
<1>3. Decoded # Garbled /\ pc' \in {"mirror", "select"}
  BY <1>2 DEF Messages, JobStatuses, Garbled, BodyReceived
<1>4. /\ out' \in Seq(Messages \cup {Garbled}) /\ Len(out') = Len(out) + 1
      /\ out'[Len(out) + 1] = Decoded /\ \A i \in 1 .. Len(out) : out'[i] = out[i]
      /\ Len(out) \in Nat /\ Len(sent) \in Nat
  BY <1>1, <1>2, AppendProperties DEF ClientTypes
<1>5. version = 1
  BY <1>1 DEF BeforeV1, ClientTypes
<1>6. ClientTypes' /\ PartIsFilled' /\ BeforeV1'
  BY <1>1, <1>3, <1>4, <1>5 DEF ClientTypes, PCs, PartIsFilled, BeforeV1
<1>7. InOrder'
  <2> SUFFICES ASSUME ~ interrupted PROVE ShownInOrder' /\ ReadSoFar'
    BY <1>1 DEF InOrder
  <2>1. ShownInOrder'
    <3>1. k = Len(out)
      BY <1>2
    <3>2. ShownInOrder
      BY DEF InOrder
    <3> QED BY <1>1, <1>2, <1>4, <3>1, <3>2 DEF ShownInOrder
  <2>2. ReadSoFar'
    BY <1>1, <1>2, <1>3, <1>4, <1>5 DEF ReadSoFar
  <2> QED BY <2>1, <2>2
<1> QED BY <1>6, <1>7

\* The text of version 0 is shown as it comes.
LEMMA ReadV0Step ==
  ASSUME ClientInv, ReadV0
  PROVE  ClientInv'
<1> USE DEF ClientInv
<1>1. /\ pc = "select" /\ version = 0 /\ ~ interrupted
      /\ UNCHANGED <<pc, version, sent, rcv, interrupted>>
  BY DEF ReadV0, BeforeV1, server, user
<1>2. PICK n \in 1 .. Available :
        pos' = pos + n /\ out' = out \o SubSeq(sent, Len(out) + 1, pos' \div FrameLen)
  BY DEF ReadV0
<1>3. /\ pos \in Nat /\ Len(sent) \in Nat /\ Len(out) \in Nat /\ Len(sent) * FrameLen \in Nat
      /\ out \in Seq(Messages \cup {Garbled}) /\ sent \in Seq(Messages)
  BY FrameLength, NextFrame DEF ClientTypes
<1>4. pos' \in Nat /\ pos <= pos' /\ pos' <= Len(sent) * FrameLen
  BY <1>2, <1>3 DEF Available
<1>5. ShownInOrder /\ Len(out) = pos \div FrameLen
  BY <1>1 DEF InOrder, ReadSoFar
<1> DEFINE m == pos' \div FrameLen
           more == SubSeq(sent, Len(out) + 1, m)
<1>6. m \in Nat /\ Len(out) <= m /\ m <= Len(sent)
  BY <1>3, <1>4, <1>5, FrameLength, FramesRead
<1> HIDE DEF m
<1>7. /\ more \in Seq(Messages) /\ Len(more) = m - Len(out)
      /\ \A i \in 1 .. m - Len(out) : more[i] = sent[Len(out) + i]
  BY <1>3, <1>6
<1> HIDE DEF more
<1>8. /\ out' \in Seq(Messages \cup {Garbled}) /\ Len(out') = m
      /\ \A i \in 1 .. m : out'[i] = IF i <= Len(out) THEN out[i] ELSE more[i - Len(out)]
  <2>1. out' = out \o more
    BY <1>2 DEF m, more
  <2>2. more \in Seq(Messages \cup {Garbled})
    BY <1>7, SeqMonotonic
  <2>3. /\ out' \in Seq(Messages \cup {Garbled}) /\ Len(out') = Len(out) + Len(more)
        /\ \A i \in 1 .. Len(out) + Len(more) :
             out'[i] = IF i <= Len(out) THEN out[i] ELSE more[i - Len(out)]
    BY <1>3, <2>1, <2>2, ConcatProperties
  <2>4. Len(out) + Len(more) = m
    BY <1>3, <1>6, <1>7
  <2> QED BY <2>3, <2>4
<1>9. ShownInOrder'
  <2>1. ASSUME NEW i \in 1 .. m
        PROVE  out'[i] = sent[i]
    <3>1. CASE i <= Len(out)
      BY <1>3, <1>5, <1>8, <3>1 DEF ShownInOrder
    <3>2. CASE ~ (i <= Len(out))
      <4>1. i - Len(out) \in 1 .. m - Len(out)
        BY <1>3, <1>6, <3>2
      <4>2. more[i - Len(out)] = sent[Len(out) + (i - Len(out))]
        BY <1>7, <4>1
      <4>3. Len(out) + (i - Len(out)) = i
        BY <1>3
      <4> QED BY <1>8, <3>2, <4>2, <4>3
    <3> QED BY <3>1, <3>2
  <2> QED BY <1>1, <1>6, <1>8, <2>1 DEF ShownInOrder
<1>10. ReadSoFar'
  BY <1>1, <1>8 DEF ReadSoFar, m
<1>11. ClientTypes' /\ PartIsFilled' /\ BeforeV1'
  BY <1>1, <1>4, <1>8 DEF ClientTypes, PartIsFilled, BeforeV1
<1> QED BY <1>9, <1>10, <1>11 DEF InOrder

\* CTRL+C drops what was received of a message.
LEMMA CtrlCStep ==
  ASSUME ClientInv, CtrlC
  PROVE  ClientInv'
<1> USE DEF ClientInv
<1>1. /\ pc \in {"select", "recv", "desync", "mirror"} /\ pc' \in {"select", "done"}
      /\ UNCHANGED <<version, sent, pos, rcv, out>>
      /\ interrupted' = (interrupted \/ pc # "select")
  BY DEF CtrlC, SendFails, Exit, server
<1>2. CASE pc = "select"
  <2>1. Quiet
    BY <1>1, <1>2 DEF Quiet, ClientTypes
  <2> QED BY <2>1, QuietSteps
<1>3. CASE pc # "select"
  <2>1. interrupted' = TRUE
    BY <1>1, <1>3
  <2>2. version = 1
    BY <1>1, <1>3 DEF BeforeV1, ClientTypes
  <2> QED BY <1>1, <2>1, <2>2 DEF ClientTypes, PCs, PartIsFilled, InOrder, BeforeV1
<1> QED BY <1>2, <1>3

-----------------------------------------------------------------------------
(* Messages in order.                                                       *)

\* Nothing was sent or received.
LEMMA ClientInit ==
  ASSUME Init
  PROVE  ClientInv
<1>1. /\ pc = "post" /\ version = 0 /\ sent = <<>> /\ out = <<>> /\ pos = 0
      /\ ~ interrupted /\ interrupted \in BOOLEAN /\ rcv = Header
  BY DEF Init
<1>2. rcv \in [name : {"header", "body"}, length : Nat, first : Nat, cur : Nat,
               view : Nat, buf : Buffers]
  BY <1>1, PartIsNew DEF Header
<1>3. 0 \div FrameLen = 0 /\ 0 * FrameLen = 0
  BY FrameLength
<1>4. ClientTypes
  BY <1>1, <1>2, <1>3 DEF ClientTypes, PCs
<1>5. PartIsFilled /\ BeforeV1
  BY <1>1 DEF PartIsFilled, BeforeV1
<1>6. InOrder
  BY <1>1, <1>3 DEF InOrder, ShownInOrder, ReadSoFar
<1> QED BY <1>4, <1>5, <1>6 DEF ClientInv

\* Every step keeps the invariant.
LEMMA ClientNext ==
  ASSUME ClientInv, [Next]_vars
  PROVE  ClientInv'
<1>1. CASE \/ UNCHANGED vars
           \/ PostAgain \/ Accept \/ AcceptTimeout \/ CloseConsole \/ RemoveBucket
           \/ RecvRaises \/ Desynchronized \/ HandleEndMessage \/ EndV0
           \/ Press("CTRL+A") \/ Press("other")
  BY <1>1, AreQuiet, QuietSteps
<1>2. CASE Send
  <2>1. PICK m \in {"ctrl", "job_io"} : sent' = Append(sent, m)
    BY <1>2 DEF Send
  <2>2. Connected /\ UNCHANGED <<pc, version, pos, rcv, out, interrupted>> /\ m \in Messages
    BY <1>2 DEF Send, user, Messages
  <2> QED BY <2>1, <2>2, SendStep
<1>3. CASE SessionEnd
  <2>1. PICK s \in JobStatuses : sent' = Append(sent, s)
    BY <1>3 DEF SessionEnd
  <2>2. Connected /\ UNCHANGED <<pc, version, pos, rcv, out, interrupted>> /\ s \in Messages
    BY <1>3 DEF SessionEnd, user, Messages
  <2> QED BY <2>1, <2>2, SendStep
<1> QED BY <1>1, <1>2, <1>3, QueueJobStep, NextMessageStep, RecvStep, HeaderReceivedStep,
           BodyReceivedStep, ReadV0Step, CtrlCStep DEF Next, Read, Executor

\* However the messages are cut into pieces, and although recv() slices its view by too
\* much, what the client handles is what the executor sent, in order, for headers and
\* bodies of any length; unless CTRL+C hits it while it receives.
THEOREM MessagesInOrder == Spec => []FramesInOrder
<1>1. Init => ClientInv
  BY ClientInit
<1>2. ClientInv /\ [Next]_vars => ClientInv'
  BY ClientNext
<1>3. ClientInv => FramesInOrder
  <2> SUFFICES ASSUME ClientInv, ~ interrupted PROVE IsPrefix(out, sent)
    BY DEF FramesInOrder
  <2> DEFINE T == Messages \cup {Garbled}
  <2>0. Seq(Messages) \subseteq Seq(T)
    BY SeqMonotonic
  <2>1. /\ out \in Seq(T) /\ sent \in Seq(T) /\ Len(out) \in Nat /\ Len(sent) \in Nat
        /\ Len(out) <= Len(sent) /\ \A i \in 1 .. Len(out) : out[i] = sent[i]
    BY <2>0 DEF ClientInv, ClientTypes, InOrder, ShownInOrder
  <2> HIDE DEF T
  <2>2. /\ SubSeq(out, 1, Len(out)) \in Seq(T) /\ SubSeq(sent, 1, Len(out)) \in Seq(T)
        /\ Len(SubSeq(out, 1, Len(out))) = Len(out) /\ Len(SubSeq(sent, 1, Len(out))) = Len(out)
        /\ \A i \in 1 .. Len(out) : /\ SubSeq(out, 1, Len(out))[i] = out[i]
                                    /\ SubSeq(sent, 1, Len(out))[i] = sent[i]
    BY <2>1
  <2>3. SubSeq(out, 1, Len(out)) = SubSeq(sent, 1, Len(out))
    BY <2>1, <2>2, SeqEqual
  <2> QED BY <2>1, <2>3 DEF IsPrefix
<1> QED BY <1>1, <1>2, <1>3, PTL DEF Spec

-----------------------------------------------------------------------------
(* The status that is returned.                                             *)

\* Neither the messages nor the result change, or the client gives up.
NoResult ==
  /\ UNCHANGED <<sent, out, mirrored>> /\ options' = options
  /\ \/ UNCHANGED <<pc, status, version>>
     \/ UNCHANGED version /\ pc' = "done" /\ pc # "done" /\ status' \in OtherStatuses
     \/ pc # "done" /\ pc' \in {"hung", "accept", "select", "recv", "desync"} /\ status' = status
  /\ closed => closed'

\* Such a step keeps the invariant.
LEMMA NoResultStep ==
  ASSUME StatusInv, NoResult
  PROVE  StatusInv'
<1>1. EndIsLast'
  BY DEF StatusInv, EndIsLast, NoResult
<1>2. EndIsEarned'
  <2>1. CASE UNCHANGED <<pc, status, version>>
    BY <2>1 DEF StatusInv, EndIsEarned, OutputHasIt, NoResult
  <2>2. CASE pc' = "done" /\ status' \in OtherStatuses
    BY <2>2 DEF EndIsEarned, JobStatuses, OtherStatuses
  <2>3. CASE /\ pc # "done" /\ pc' \in {"hung", "accept", "select", "recv", "desync"}
             /\ status' = status
    BY <2>3 DEF StatusInv, EndIsEarned, JobStatuses
  <2> QED BY <2>1, <2>2, <2>3 DEF NoResult
<1> QED BY <1>1, <1>2 DEF StatusInv

\* The steps of which this is true.
LEMMA HaveNoResult ==
  ASSUME ClientInv,
         \/ UNCHANGED vars \/ QueueJob \/ PostAgain \/ Accept \/ AcceptTimeout \/ CloseConsole \/ RemoveBucket
         \/ NextMessage \/ Recv \/ RecvRaises \/ HeaderReceived \/ Desynchronized
         \/ Press("CTRL+A") \/ Press("other") \/ CtrlC
  PROVE  NoResult
<1> USE DEF NoResult, Exit, OtherStatuses, server, user
<1>1. CASE UNCHANGED vars \/ Press("CTRL+A") \/ Press("other")
  BY <1>1 DEF vars, Press, SendFails
<1>2. CASE QueueJob
  <2>1. pc = "post" /\ UNCHANGED <<sent, out, mirrored, options, closed>>
    BY <1>2 DEF QueueJob
  <2>2. PICK code \in {"200", "409", "other", "unreachable", "unsupported version"} :
          CASE code = "200" -> pc' = "accept" /\ version' \in {0, 1} /\ status' = status
            [] code = "409" /\ options.wait_if_busy -> pc' = "hung" /\ UNCHANGED <<version, status>>
            [] code = "unsupported version" -> Exit("UNKNOWN") /\ version' = version
            [] OTHER -> Exit("SETUP_FAIL") /\ version' = version
    BY <1>2 DEF QueueJob
  <2>3. CASE code = "200"
    BY <2>1, <2>2, <2>3
  <2>4. CASE code = "409" /\ options.wait_if_busy
    BY <2>1, <2>2, <2>4
  <2>5. CASE code # "200" /\ ~ (code = "409" /\ options.wait_if_busy)
    <3>1. (Exit("UNKNOWN") \/ Exit("SETUP_FAIL")) /\ version' = version
      BY <2>2, <2>5
    <3> QED BY <2>1, <3>1
  <2> QED BY <2>3, <2>4, <2>5
<1>3. CASE Accept
  BY <1>3 DEF Accept
<1>4. CASE AcceptTimeout \/ PostAgain
  BY <1>4 DEF AcceptTimeout, PostAgain
<1>5. CASE CloseConsole \/ RemoveBucket
  BY <1>5 DEF CloseConsole, RemoveBucket
<1>6. CASE NextMessage
  BY <1>6 DEF NextMessage
<1>7. CASE Recv
  BY <1>7 DEF Recv
<1>8. CASE RecvRaises
  BY <1>8 DEF RecvRaises
<1>9. CASE HeaderReceived
  BY <1>9 DEF HeaderReceived
<1>10. CASE Desynchronized
  BY <1>10 DEF Desynchronized
<1>11. CASE CtrlC
  BY <1>11 DEF CtrlC, SendFails
<1> QED BY <1>1, <1>2, <1>3, <1>4, <1>5, <1>6, <1>7, <1>8, <1>9, <1>10, <1>11

\* The executor sends on only while it did not send the end of the session.
LEMMA SendKeepsStatus ==
  ASSUME ClientInv, StatusInv, Send \/ SessionEnd
  PROVE  StatusInv'
<1> USE DEF StatusInv
<1>1. /\ Connected /\ ~ closed /\ UNCHANGED <<pc, version, options, out, mirrored, status>>
  BY DEF Send, SessionEnd
<1>2. PICK m \in Messages : sent' = Append(sent, m) /\ (m \in JobStatuses => closed')
  BY DEF Send, SessionEnd, Messages, JobStatuses
<1>3. /\ Len(sent') = Len(sent) + 1 /\ Len(sent) \in Nat
      /\ \A i \in 1 .. Len(sent) : sent'[i] = sent[i] /\ sent[i] \notin JobStatuses
      /\ sent'[Len(sent) + 1] = m
  BY <1>1, <1>2, AppendProperties DEF ClientInv, ClientTypes, EndIsLast
<1>4. EndIsLast'
  BY <1>2, <1>3 DEF EndIsLast
<1>5. pc # "mirror"
  <2> SUFFICES ASSUME pc = "mirror" PROVE FALSE
    OBVIOUS
  <2>1. sent # <<>> /\ Last(sent) \in JobStatuses
    BY DEF EndIsEarned
  <2>2. Len(sent) \in 1 .. Len(sent)
    BY <1>3, <2>1, EmptySeq DEF ClientInv, ClientTypes
  <2> QED BY <1>3, <2>1, <2>2 DEF Last
<1>6. pc # "done"
  BY <1>1 DEF Connected
<1>7. EndIsEarned'
  BY <1>1, <1>5, <1>6 DEF EndIsEarned, JobStatuses
<1> QED BY <1>4, <1>7

\* A message that ends the session is the last one.
LEMMA BodyKeepsStatus ==
  ASSUME ClientInv, StatusInv, BodyReceived
  PROVE  StatusInv'
<1> USE DEF StatusInv
<1>1. /\ pc = "recv" /\ rcv.name = "body" /\ rcv.cur = rcv.length /\ out' = Append(out, Decoded)
      /\ UNCHANGED <<version, options, sent, closed, mirrored>>
  BY DEF BodyReceived, server
<1>2. PICK k \in Nat : /\ pos = (k + 1) * FrameLen /\ k + 1 \in 1 .. Len(sent)
                       /\ Decoded = sent[k + 1] /\ Decoded \in Messages
                       /\ ~ interrupted => k = Len(out)
  BY <1>1, BodyIsDecoded
<1>3. /\ pc' = (IF Decoded \in JobStatuses THEN "mirror" ELSE "select") /\ status' = status
      /\ status = "none"
  BY <1>1, <1>2 DEF Messages, JobStatuses, Garbled, BodyReceived, EndIsEarned
<1>4. EndIsLast'
  BY <1>1 DEF EndIsLast
<1>5. CASE Decoded \in JobStatuses
  <2>1. k + 1 = Len(sent)
    BY <1>2, <1>5 DEF EndIsLast
  <2>2. /\ out' # <<>> /\ Last(out') = Decoded /\ sent # <<>>
    BY <1>1, <1>2, AppendProperties, EmptySeq DEF ClientInv, ClientTypes, Last
  <2> QED BY <1>1, <1>2, <1>3, <1>4, <1>5, <2>1, <2>2 DEF EndIsEarned, JobStatuses, Last
<1>6. CASE Decoded \notin JobStatuses
  BY <1>3, <1>4, <1>6 DEF EndIsEarned, JobStatuses
<1> QED BY <1>5, <1>6

\* The client returns what it was told.
LEMMA EndKeepsStatus ==
  ASSUME ClientInv, StatusInv, HandleEndMessage \/ ReadV0 \/ EndV0
  PROVE  StatusInv'
<1> USE DEF StatusInv
<1>1. CASE HandleEndMessage
  <2>1. pc = "mirror" /\ pc' = "done" /\ UNCHANGED <<version, options, sent, closed, out>>
    BY <1>1 DEF HandleEndMessage, Exit, server
  <2>2. /\ status' = Last(out) \/ status' = "INCOMPLETE"
        /\ status' = Last(out) => mirrored' \/ ~ options.share_directory \/ Last(out) = "INCOMPLETE"
    BY <1>1 DEF HandleEndMessage, Exit
  <2>3. Last(out) = Last(sent) /\ Last(out) \in JobStatuses
    BY <2>1 DEF EndIsEarned
  <2> QED BY <2>1, <2>2, <2>3 DEF EndIsLast, EndIsEarned, JobStatuses
<1>2. CASE ReadV0
  <2>1. pc = "select" /\ UNCHANGED <<pc, version, options, sent, closed, mirrored, status>>
    BY <1>2 DEF ReadV0, server
  <2> QED BY <2>1 DEF EndIsLast, EndIsEarned, OutputHasIt
<1>3. CASE EndV0
  <2>1. /\ pc = "select" /\ version = 0 /\ status = "none"
        /\ UNCHANGED <<version, options, sent, closed, mirrored, out>>
    BY <1>3 DEF EndV0, server, EndIsEarned
  <2>2. CASE UNCHANGED <<pc, status>>
    BY <2>1, <2>2 DEF EndIsLast, EndIsEarned, JobStatuses
  <2>3. CASE out # <<>> /\ Last(out) \in JobStatuses /\ Exit(Last(out))
    <3>1. ShownInOrder /\ Len(out) \in 1 .. Len(out)
      BY <2>1, <2>3, EmptySeq DEF ClientInv, ClientTypes, InOrder, BeforeV1
    <3>2. Len(out) = Len(sent)
      BY <2>3, <3>1 DEF ShownInOrder, EndIsLast, Last, ClientInv, ClientTypes
    <3>3. Last(out) = Last(sent)
      BY <3>1, <3>2 DEF ShownInOrder, Last
    <3> QED BY <2>1, <2>3, <3>3 DEF EndIsLast, EndIsEarned, Exit
  <2>4. CASE \E i \in DOMAIN out, s \in JobStatuses \cup OtherStatuses : out[i] = "job_io" /\ Exit(s)
    <3>1. PICK i \in DOMAIN out : out[i] = "job_io"
      BY <2>4
    <3>2. ShownInOrder
      BY <2>1 DEF ClientInv, InOrder, BeforeV1
    <3>3. i \in DOMAIN sent /\ sent[i] = "job_io"
      BY <3>1, <3>2 DEF ShownInOrder, ClientInv, ClientTypes
    <3>4. OutputHasIt'
      BY <2>1, <3>3 DEF OutputHasIt
    <3>5. pc' = "done"
      BY <2>4 DEF Exit
    <3> QED BY <2>1, <3>4, <3>5 DEF EndIsLast, EndIsEarned
  <2> QED BY <1>3, <2>2, <2>3, <2>4 DEF EndV0, HasStatus
<1> QED BY <1>1, <1>2, <1>3

\* run() returns the status of the job only if it is the last message of the executor,
\* and the bucket that was asked for was mirrored: not after a message that was cut, a
\* CTRL+C or a mirror that failed.  Text of version 0 is the exception, in which the output
\* of the machine may be taken for the end of the session.
THEOREM StatusComesFromTheExecutor == Spec => []StatusIsEarned
<1>1. Init => ClientInv /\ StatusInv
  <2> SUFFICES ASSUME Init PROVE ClientInv /\ StatusInv
    OBVIOUS
  <2>1. EndIsLast /\ EndIsEarned
    BY DEF Init, EndIsLast, EndIsEarned, JobStatuses
  <2> QED BY <2>1, ClientInit DEF StatusInv
<1>2. ClientInv /\ StatusInv /\ [Next]_vars => ClientInv' /\ StatusInv'
  BY ClientNext, HaveNoResult, NoResultStep, SendKeepsStatus, BodyKeepsStatus, EndKeepsStatus
     DEF Next, Read, Executor
<1>3. StatusInv => StatusIsEarned
  BY DEF StatusInv, EndIsEarned, OutputHasIt, StatusIsEarned
<1> QED BY <1>1, <1>2, <1>3, PTL DEF Spec
=============================================================================
