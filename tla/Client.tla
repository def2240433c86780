------------------------------- MODULE Client -------------------------------
(***************************************************************************)
(* The client of the executor (client.py) and the framing of the messages  *)
(* it exchanges with it (message.py): the client posts its job, waits for  *)
(* the executor to connect back, shows the messages it receives until the  *)
(* end of the session, downloads the job bucket and exits with a status.   *)
(*                                                                         *)
(* TCP delivers a message in pieces of any size.  A byte is named by its   *)
(* position in the stream: every message is a header of HeaderLen bytes,   *)
(* followed by BodyLen bytes.                                              *)
(***************************************************************************)
EXTENDS Naturals, SequencesExt

CONSTANTS
  HeaderLen, BodyLen,
  MaxMessages,   \* bound: messages sent before the end of the session
  MaxKeys        \* bound: keys pressed by the user

ASSUME LengthsAssumption == HeaderLen \in Nat \ {0} /\ BodyLen \in Nat \ {0}

VARIABLES
  pc,            \* the client
  options,       \* its command line, and whether mcli is installed
  version,       \* protocol version of the server's response
  sent,          \* messages the executor sent
  closed,        \* did the executor close its end?
  bucket,        \* does the job bucket exist, for the client?
  pos,           \* bytes received
  rcv,           \* Message.recv(): the part being received
  out,           \* messages the client handled
  mirrored,      \* was the bucket downloaded?
  status,        \* what run() returns
  control_char_pressed, keys,
  interrupted    \* did CTRL+C hit the client while it was receiving?

server == <<version, sent, closed, bucket>>
user == <<control_char_pressed, keys, interrupted>>
vars == <<pc, options, server, pos, rcv, out, mirrored, status, user>>

JobStatuses == {"PASS", "FAIL"}          \* what a session may end with
OtherStatuses == {"INCOMPLETE", "UNKNOWN", "SETUP_FAIL"}
Garbled == "garbled"
Messages == {"ctrl", "job_io"} \cup JobStatuses

FrameLen == HeaderLen + BodyLen
Available == Len(sent) * FrameLen - pos

\* bytearray(length), and the view of it that recv_into() writes to.
Part(name, length, first) ==
  [name |-> name, length |-> length, first |-> first, cur |-> 0, view |-> 0,
   buf |-> [i \in 1 .. length |-> 0]]
Header == Part("header", HeaderLen, pos)
Intact(part) == \A i \in 1 .. part.length : part.buf[i] = part.first + i

TypeOK ==
  /\ pc \in {"post", "hung", "accept", "select", "recv", "desync", "mirror", "done"}
  /\ options \in [wait_if_busy : BOOLEAN, share_directory : BOOLEAN, mcli : BOOLEAN]
  /\ version \in {0, 1}
  /\ sent \in Seq(Messages) /\ closed \in BOOLEAN /\ bucket \in BOOLEAN
  /\ pos \in 0 .. Len(sent) * FrameLen
  /\ rcv.cur \in 0 .. rcv.length /\ rcv.view \in 0 .. rcv.length
  /\ out \in Seq(Messages \cup {Garbled})
  /\ mirrored \in BOOLEAN /\ status \in JobStatuses \cup OtherStatuses \cup {"none"}
  /\ control_char_pressed \in BOOLEAN /\ keys \in 0 .. MaxKeys /\ interrupted \in BOOLEAN

Init ==
  /\ pc = "post"
  /\ options \in [wait_if_busy : BOOLEAN, share_directory : BOOLEAN, mcli : BOOLEAN]
  /\ version = 0 /\ sent = <<>> /\ closed = FALSE /\ bucket = FALSE
  /\ pos = 0 /\ rcv = Header /\ out = <<>>
  /\ mirrored = FALSE /\ status = "none"
  /\ control_char_pressed = FALSE /\ keys = 0 /\ interrupted = FALSE

-----------------------------------------------------------------------------
(* Job._setup_connection() and the start of run().                          *)

Exit(s) == pc' = "done" /\ status' = s

\* The server answers 409 if every machine is busy, 200, or another code; its
\* answer may be unreadable, or it may be out of reach.
QueueJob == \E code \in {"200", "409", "other", "unreachable", "unsupported version"} :
  /\ pc = "post"
  /\ CASE code = "200" -> pc' = "accept" /\ version' \in {0, 1} /\ status' = status
       [] code = "409" /\ options.wait_if_busy -> pc' = "hung" /\ UNCHANGED <<version, status>>
       [] code = "unsupported version" -> Exit("UNKNOWN") /\ version' = version
       [] OTHER -> Exit("SETUP_FAIL") /\ version' = version
  /\ UNCHANGED <<options, sent, closed, bucket, pos, rcv, out, mirrored, user>>

\* The job is posted again with the same MultipartEncoder, of which nothing is left: the
\* server waits for the body, until the connection breaks.
PostAgain ==
  /\ pc = "hung"
  /\ Exit("SETUP_FAIL")
  /\ UNCHANGED <<options, server, pos, rcv, out, mirrored, user>>

\* The executor connects within 5 seconds; messages of version 1 need mcli.
Accept ==
  /\ pc = "accept"
  /\ IF version # 0 /\ ~ options.mcli
     THEN Exit("SETUP_FAIL") /\ bucket' = bucket
     ELSE pc' = "select" /\ bucket' = (version = 1) /\ status' = status
  /\ UNCHANGED <<options, version, sent, closed, pos, rcv, out, mirrored, user>>

AcceptTimeout ==
  /\ pc = "accept"
  /\ Exit("UNKNOWN")
  /\ UNCHANGED <<options, server, pos, rcv, out, mirrored, user>>

-----------------------------------------------------------------------------
(* The executor: Message.send() of whole messages, then the end of the      *)
(* session, after which it waits for the client until infra_teardown is     *)
(* over and removes the bucket; or it closes the console before that.       *)

Connected == pc \in {"select", "recv", "desync", "mirror"}
Ended == \E i \in DOMAIN sent : sent[i] \in JobStatuses

Send == \E m \in {"ctrl", "job_io"} :
  /\ Connected /\ ~ closed /\ Len(sent) < MaxMessages
  /\ sent' = Append(sent, m)
  /\ UNCHANGED <<pc, options, version, closed, bucket, pos, rcv, out, mirrored, status, user>>

SessionEnd == \E s \in JobStatuses :
  /\ Connected /\ ~ closed
  /\ sent' = Append(sent, s) /\ closed' = TRUE
  /\ UNCHANGED <<pc, options, version, bucket, pos, rcv, out, mirrored, status, user>>

CloseConsole ==
  /\ Connected /\ ~ closed
  /\ closed' = TRUE
  /\ UNCHANGED <<pc, options, version, sent, bucket, pos, rcv, out, mirrored, status, user>>

RemoveBucket ==
  /\ closed /\ bucket
  /\ bucket' = FALSE
  /\ UNCHANGED <<pc, options, version, sent, closed, pos, rcv, out, mirrored, status, user>>

-----------------------------------------------------------------------------
(* Message.recv() and Message.next_message().                               *)

Readable == Available > 0 \/ closed

\* select() found the socket readable.
NextMessage ==
  /\ pc = "select" /\ version = 1 /\ Readable
  /\ pc' = "recv" /\ rcv' = Header
  /\ UNCHANGED <<options, server, pos, out, mirrored, status, user>>

\* recv_into(view, length - cur) refuses a view that is shorter than that.
TooShort == rcv.length - rcv.cur > rcv.length - rcv.view

Fill(part, n) ==
  [part EXCEPT !.cur = @ + n,
               !.buf = [i \in 1 .. part.length |->
                          IF i \in part.view + 1 .. part.view + n THEN pos + i - part.view ELSE @[i]]]

\* Mutant: the view is not sliced at all.
AdvanceNever(part) == part

\* The view is sliced by all that was received so far, not by the last piece.
Advance(part) ==
  [part EXCEPT !.view = IF @ + part.cur > part.length THEN part.length ELSE @ + part.cur]

Recv == \E n \in 1 .. rcv.length :
  /\ pc = "recv" /\ rcv.cur < rcv.length /\ ~ TooShort
  /\ n <= rcv.length - rcv.cur /\ n <= Available
  /\ rcv' = Advance(Fill(rcv, n))
  /\ pos' = pos + n
  /\ UNCHANGED <<pc, options, server, out, mirrored, status, user>>

\* Mutant: the end of the stream is not noticed.
RecvRaisesTooShort ==
  /\ pc = "recv" /\ rcv.cur < rcv.length /\ TooShort
  /\ Exit("INCOMPLETE")
  /\ UNCHANGED <<options, server, pos, rcv, out, mirrored, user>>

\* ValueError, or EOFError: _read_executor_message_v1() gives up.
RecvRaises ==
  /\ pc = "recv" /\ rcv.cur < rcv.length
  /\ TooShort \/ (Available = 0 /\ closed)
  /\ Exit("INCOMPLETE")
  /\ UNCHANGED <<options, server, pos, rcv, out, mirrored, user>>

\* A header that is not one asks for a message of some other length.
HeaderReceived ==
  /\ pc = "recv" /\ rcv.name = "header" /\ rcv.cur = rcv.length
  /\ IF Intact(rcv) /\ rcv.first % FrameLen = 0
     THEN pc' = pc /\ rcv' = Part("body", BodyLen, pos)
     ELSE pc' = "desync" /\ rcv' = rcv
  /\ UNCHANGED <<options, server, pos, out, mirrored, status, user>>

\* It is not filled before the end of the stream, or is not JSON.
Desynchronized ==
  /\ pc = "desync"
  /\ Exit("INCOMPLETE")
  /\ UNCHANGED <<options, server, pos, rcv, out, mirrored, user>>

Decoded == IF Intact(rcv) THEN sent[rcv.first \div FrameLen + 1] ELSE Garbled

\* _read_executor_message_v1()
BodyReceived ==
  /\ pc = "recv" /\ rcv.name = "body" /\ rcv.cur = rcv.length
  /\ out' = Append(out, Decoded)
  /\ IF Decoded = Garbled THEN Exit("INCOMPLETE")
     ELSE pc' = (IF Decoded \in JobStatuses THEN "mirror" ELSE "select") /\ status' = status
  /\ UNCHANGED <<options, server, pos, rcv, mirrored, user>>

\* Mutant: the exit status of mcli is ignored.
HandleEndMessageUnchecked ==
  /\ pc = "mirror"
  /\ Exit(Last(out)) /\ mirrored' = (options.share_directory /\ bucket)
  /\ UNCHANGED <<options, server, pos, rcv, out, user>>

\* _handle_end_message(): mcli mirrors the bucket, or fails.
HandleEndMessage ==
  /\ pc = "mirror"
  /\ \/ ~ options.share_directory /\ Exit(Last(out)) /\ UNCHANGED mirrored
     \/ options.share_directory /\ bucket /\ Exit(Last(out)) /\ mirrored' = TRUE
     \/ options.share_directory /\ Exit("INCOMPLETE") /\ UNCHANGED mirrored
  /\ UNCHANGED <<options, server, pos, rcv, out, user>>

\* _read_executor_message_v0(): the text is shown as it comes.
ReadV0 ==
  /\ pc = "select" /\ version = 0 /\ Available > 0
  /\ \E n \in 1 .. Available :
       /\ pos' = pos + n
       /\ out' = out \o SubSeq(sent, Len(out) + 1, pos' \div FrameLen)
  /\ UNCHANGED <<pc, options, server, rcv, mirrored, status, user>>

\* At its end the first line that ends a session is looked for in all of the text, so
\* that the machine's output may have it; select() goes on if there is none.
HasStatus == out # <<>> /\ Last(out) \in JobStatuses
EndV0 ==
  /\ pc = "select" /\ version = 0 /\ Available = 0 /\ closed
  /\ \/ \E i \in DOMAIN out, s \in JobStatuses \cup OtherStatuses : out[i] = "job_io" /\ Exit(s)
     \/ HasStatus /\ Exit(Last(out))
     \/ ~ HasStatus /\ UNCHANGED <<pc, status>>
  /\ UNCHANGED <<options, server, pos, rcv, out, mirrored, user>>

-----------------------------------------------------------------------------
(* The user: CTRL+A is kept back, and CTRL+C after it ends the client.      *)

\* msg.send(): OSError if the executor is gone, which run() catches.
SendFails == closed /\ Exit("UNKNOWN")

Press(key) ==
  /\ pc = "select" /\ keys < MaxKeys /\ keys' = keys + 1
  /\ control_char_pressed' = (key = "CTRL+A")
  /\ \/ UNCHANGED <<pc, status>>
     \/ (key # "CTRL+A" \/ control_char_pressed) /\ SendFails
  /\ UNCHANGED <<options, server, pos, rcv, out, mirrored, interrupted>>

\* KeyboardInterrupt is no Exception: what was received of a message is dropped.
CtrlC ==
  /\ pc \in {"select", "recv", "desync", "mirror"} /\ keys < MaxKeys /\ keys' = keys + 1
  /\ \/ control_char_pressed /\ Exit("INCOMPLETE")
     \/ ~ control_char_pressed /\ (SendFails \/ (pc' = "select" /\ status' = status))
  /\ interrupted' = (interrupted \/ pc # "select")
  /\ UNCHANGED <<options, server, pos, rcv, out, mirrored, control_char_pressed>>

-----------------------------------------------------------------------------
Read ==
  \/ NextMessage \/ Recv \/ RecvRaises \/ HeaderReceived \/ Desynchronized
  \/ BodyReceived \/ HandleEndMessage \/ ReadV0 \/ EndV0
Executor == SessionEnd \/ CloseConsole

Next ==
  \/ QueueJob \/ PostAgain \/ Accept \/ AcceptTimeout \/ Read
  \/ Executor \/ Send \/ RemoveBucket
  \/ Press("CTRL+A") \/ Press("other") \/ CtrlC

\* The client reads what there is to read, and every job ends (Executor).
Spec == Init /\ [][Next]_vars /\ WF_vars(Read) /\ WF_vars(Executor)

-----------------------------------------------------------------------------
(* Properties.                                                              *)

\* However the messages are cut into pieces, what the client shows is what the
\* executor sent, in order: recv() puts no byte in the wrong place.  CTRL+C in
\* the middle of a message is the exception: the rest is taken for a header.
FramesInOrder == ~ interrupted => IsPrefix(out, sent)

\* The status of the job is returned only if the executor sent it and the
\* client has the bucket; every other end is INCOMPLETE, UNKNOWN or SETUP_FAIL.  In the
\* text of version 0 the machine's output may have been taken for the status.
StatusIsEarned ==
  status \in JobStatuses =>
    /\ Last(sent) = status \/ (version = 0 /\ \E i \in DOMAIN sent : sent[i] = "job_io")
    /\ version = 1 /\ options.share_directory => mirrored

\* With a server of version 1 the client returns once the session is over,
\* whether or not it was told so, and whatever the user typed.
ClientReturns == (Connected /\ version = 1) ~> pc = "done"
=============================================================================
