---------------------------- MODULE ConsoleProofs ----------------------------
(*****************************************************************************)
(* The two ends of a console: that SALAD gives up no connection that an      *)
(* executor still wants, serves the clients of the machine they asked for and*)
(* waits for newcomers only; and what remains true of a JobConsole although  *)
(* its two threads overwrite one another's state (set_state() compares and   *)
(* writes without a lock).  Salad is extended, JobConsole an instance.       *)
(*****************************************************************************)
EXTENDS Salad, JobConsoleState, FiniteSetTheorems, TLAPS

Job == INSTANCE JobConsole

-----------------------------------------------------------------------------
(* SALAD: the inductive invariant.                                          *)

\* Relays are numbered as they are made; a port that an executor was told, and the
\* relay that a machine has, are of that machine; a client is an executor that
\* connected to the port of its relay.
RelayTypes ==
  /\ machine \in [Executors -> Machines]
  /\ rest \in [Executors -> {"out", "creating", "told", "queued", "connected", "refused", "lost", "over"}]
  /\ port \in [Executors -> 0 .. MaxRelays]
  /\ of \in [Relays -> Machines \cup {None}]
  /\ machines \in [Machines -> 0 .. MaxRelays]
  /\ client \in [Relays -> Executors \cup {None}]
RelaysAreNumbered == \E n \in 0 .. MaxRelays : {k \in Relays : of[k] # None} = 1 .. n
PortsAreOfTheMachine ==
  /\ \A e \in Executors : port[e] # 0 => of[port[e]] = machine[e]
  /\ \A m \in Machines : machines[m] # 0 => of[machines[m]] = m
ClientsAreConnected ==
  \A k \in Relays : client[k] # None => rest[client[k]] = "connected" /\ port[client[k]] = k
RelayInv == RelayTypes /\ RelaysAreNumbered /\ PortsAreOfTheMachine /\ ClientsAreConnected

SocketTypes == ended \subseteq Executors /\ deaf \subseteq Executors /\ typed \subseteq Executors
StreamTypes ==
  /\ stream \in [Consoles -> {"out", "connecting", "open", "closed"}]
  /\ id \in [Consoles -> Machines \cup {None}]
  /\ input \in [Consoles -> Chunks \cup {None}]
  /\ events \in [chunks : 0 .. MaxChunks, inputs : 0 .. MaxInputs]

\* A chunk that is relayed goes to a relay that was made.
RoundTypes ==
  /\ spc \in {"select", "serve", "create", "send", "recv", "write", "dead", "no ports"}
  /\ fds \subseteq Fds /\ relaying \in Machines \cup {None} /\ fresh \subseteq Executors
  /\ spc \in {"create", "send"} => relaying \in Machines
  /\ spc = "send" => machines[relaying] # 0

\* The file descriptor of a client stays in the round for what it was selected for: unless
\* the client is gone or has something to read, it was accepted in this round.
ReadyClients ==
  spc \in {"serve", "create", "send", "recv", "write"} =>
    \A k \in Relays : <<"client", k>> \in fds =>
      client[k] = None \/ Readable(client[k]) \/ client[k] \in fresh

SaladInv ==
  RelayInv /\ SocketTypes /\ StreamTypes /\ RoundTypes /\ ReadyClients /\ WaitsOnlyForANewcomer

-----------------------------------------------------------------------------
(* The relays and their clients.                                            *)

\* A relay has one client, and a client one relay.
LEMMA ClientsAreDistinct ==
  ASSUME RelayInv, NEW j \in Relays, NEW k \in Relays, client[j] = client[k], client[j] # None
  PROVE  j = k
BY DEF RelayInv, ClientsAreConnected

\* The next relay is not made yet.
LEMMA NextRelayIsNew ==
  ASSUME RelayInv, NEW n \in 0 .. MaxRelays, {k \in Relays : of[k] # None} = 1 .. n
  PROVE  NextRelay = n + 1
<1>1. n \in Nat /\ 0 <= n
  BY BoundsAssumption
<1>2. Cardinality(1 .. n) = n
  BY <1>1, FS_Interval
<1> QED
  BY <1>2 DEF NextRelay

\* A new relay takes the next number and the place of an older one of its machine.
LEMMA CreateStep ==
  ASSUME RelayInv, NEW m \in Machines, Create(m), UNCHANGED machine
  PROVE  /\ RelaysAreNumbered'
         /\ of' \in [Relays -> Machines \cup {None}] /\ machines' \in [Machines -> 0 .. MaxRelays]
         /\ \A e \in Executors : port[e] # 0 => of'[port[e]] = machine[e]
         /\ \A c \in Machines : machines'[c] # 0 => of'[machines'[c]] = c
         /\ NextRelay \in Relays /\ of'[NextRelay] = m
         /\ machines'[m] # 0 /\ \A c \in Machines : machines[c] # 0 => machines'[c] # 0
<1> USE BoundsAssumption, NoneAssumption
<1> DEFINE made == {k \in Relays : of[k] # None}
<1>1. PICK n \in 0 .. MaxRelays : made = 1 .. n
  BY DEF RelayInv, RelaysAreNumbered
<1>2. NextRelay = n + 1 /\ NextRelay \in Relays
  BY <1>1, NextRelayIsNew DEF Create
<1>3. of' = [of EXCEPT ![n + 1] = m] /\ machines' = [machines EXCEPT ![m] = n + 1]
  BY <1>2 DEF Create
<1>4. n + 1 \in Relays /\ of[n + 1] = None /\ n + 1 \in 0 .. MaxRelays /\ n + 1 # 0
  BY <1>1, <1>2 DEF Relays
<1>5. of' \in [Relays -> Machines \cup {None}] /\ machines' \in [Machines -> 0 .. MaxRelays]
  BY <1>3, <1>4 DEF RelayInv, RelayTypes
<1>6. {k \in Relays : of'[k] # None} = made \cup {n + 1}
  BY <1>3, <1>4 DEF RelayInv, RelayTypes
<1>7. made \cup {n + 1} = 1 .. n + 1
  BY <1>1
<1>8. RelaysAreNumbered'
  BY <1>4, <1>6, <1>7 DEF RelaysAreNumbered
<1>9. \A k \in Relays : of[k] # None => of'[k] = of[k]
  BY <1>3, <1>4 DEF RelayInv, RelayTypes
<1>10. \A e \in Executors : port[e] # 0 => of'[port[e]] = machine[e]
  <2> SUFFICES ASSUME NEW e \in Executors, port[e] # 0 PROVE of'[port[e]] = machine[e]
    OBVIOUS
  <2>1. port[e] \in Relays /\ machine[e] \in Machines /\ of[port[e]] = machine[e]
    BY DEF RelayInv, RelayTypes, PortsAreOfTheMachine, Relays
  <2> QED
    BY <1>9, <2>1
<1>11. ASSUME NEW c \in Machines, machines'[c] # 0 PROVE of'[machines'[c]] = c
  <2>1. CASE c = m
    BY <1>3, <1>4, <2>1 DEF RelayInv, RelayTypes
  <2>2. CASE c # m
    <3>1. machines'[c] = machines[c]
      BY <1>3, <2>2 DEF RelayInv, RelayTypes
    <3>2. machines[c] \in Relays /\ of[machines[c]] = c
      BY <1>11, <3>1 DEF RelayInv, RelayTypes, PortsAreOfTheMachine, Relays
    <3> QED
      BY <1>9, <3>1, <3>2
  <2> QED
    BY <2>1, <2>2
<1>12. of'[NextRelay] = m /\ machines'[m] # 0 /\ \A c \in Machines : machines[c] # 0 => machines'[c] # 0
  BY <1>2, <1>3, <1>4 DEF RelayInv, RelayTypes
<1> QED
  BY <1>2, <1>5, <1>8, <1>10, <1>11, <1>12

\* A connection that is over is nobody's client, and forgotten.
LEMMA CloseClientStep ==
  ASSUME RelayInv, NEW k \in Relays, client[k] # None, CloseClient(k), UNCHANGED <<machine, of, machines>>
  PROVE  RelayInv'
<1> USE BoundsAssumption, NoneAssumption
<1> DEFINE e == client[k]
<1>1. e \in Executors
  BY DEF RelayInv, RelayTypes
<1>2. /\ client' = [client EXCEPT ![k] = None] /\ rest' = [rest EXCEPT ![e] = "over"]
      /\ port' = [x \in Executors |-> IF x \in {e} THEN 0 ELSE port[x]]
  BY DEF CloseClient, Forget
<1>3. RelayTypes'
  BY <1>1, <1>2 DEF RelayInv, RelayTypes
<1>4. RelaysAreNumbered' /\ PortsAreOfTheMachine'
  BY <1>2 DEF RelayInv, RelaysAreNumbered, PortsAreOfTheMachine
<1>5. ClientsAreConnected'
  <2> SUFFICES ASSUME NEW j \in Relays, client'[j] # None
               PROVE  rest'[client'[j]] = "connected" /\ port'[client'[j]] = j
    BY DEF ClientsAreConnected
  <2>1. client'[j] = client[j] /\ j # k
    BY <1>2 DEF RelayInv, RelayTypes
  <2>2. client[j] # e /\ client[j] \in Executors
    BY <2>1, ClientsAreDistinct DEF RelayInv, RelayTypes
  <2> QED
    BY <1>2, <2>1, <2>2 DEF RelayInv, RelayTypes, ClientsAreConnected
<1> QED
  BY <1>3, <1>4, <1>5 DEF RelayInv

\* A step of the request or connection of an executor that is no client.
LEMMA RequestStep ==
  ASSUME RelayInv, NEW e \in Executors, rest[e] # "connected",
         NEW r \in {"out", "creating", "told", "queued", "refused", "lost", "over"},
         NEW p \in 0 .. MaxRelays, p # 0 => of[p] = machine[e],
         rest' = [rest EXCEPT ![e] = r], port' = [port EXCEPT ![e] = p],
         UNCHANGED <<machine, of, machines, client>>
  PROVE  RelayInv'
<1>1. RelayTypes'
  BY DEF RelayInv, RelayTypes
<1>2. RelaysAreNumbered' /\ PortsAreOfTheMachine'
  BY DEF RelayInv, RelayTypes, RelaysAreNumbered, PortsAreOfTheMachine
<1>3. ClientsAreConnected'
  BY DEF RelayInv, RelayTypes, ClientsAreConnected
<1> QED
  BY <1>1, <1>2, <1>3 DEF RelayInv

\* The end of relays that were replaced, with the connections to them.
LEMMA SelectRelays ==
  ASSUME RelayInv, Select
  PROVE  RelayInv'
<1> USE BoundsAssumption, NoneAssumption
<1> DEFINE lost == {e \in Executors : rest[e] \in {"queued", "connected"} /\ port[e] \in Replaced}
<1>1. /\ rest' = [e \in Executors |-> IF e \in lost THEN "lost" ELSE rest[e]]
      /\ port' = [e \in Executors |-> IF e \in lost THEN 0 ELSE port[e]]
      /\ client' = [k \in Relays |-> IF k \in Replaced THEN None ELSE client[k]]
      /\ UNCHANGED <<machine, of, machines>>
  BY DEF Select, Forget
<1>2. RelayTypes'
  BY <1>1 DEF RelayInv, RelayTypes
<1>3. RelaysAreNumbered' /\ PortsAreOfTheMachine'
  BY <1>1 DEF RelayInv, RelaysAreNumbered, PortsAreOfTheMachine
<1>4. ClientsAreConnected'
  <2> SUFFICES ASSUME NEW k \in Relays, client'[k] # None
               PROVE  rest'[client'[k]] = "connected" /\ port'[client'[k]] = k
    BY DEF ClientsAreConnected
  <2>1. client'[k] = client[k] /\ k \notin Replaced /\ client[k] \in Executors
    BY <1>1 DEF RelayInv, RelayTypes
  <2>2. rest[client[k]] = "connected" /\ port[client[k]] = k
    BY <2>1 DEF RelayInv, ClientsAreConnected
  <2> QED
    BY <1>1, <2>1, <2>2
<1> QED
  BY <1>2, <1>3, <1>4 DEF RelayInv

\* An executor becomes the client of a relay that has none, or is sent away.
LEMMA AcceptRelays ==
  ASSUME RelayInv, NEW k \in Relays, Accept(k)
  PROVE  RelayInv'
<1> USE BoundsAssumption, NoneAssumption
<1>1. PICK e \in Queued(k) :
        IF client[k] = None
        THEN /\ rest' = [rest EXCEPT ![e] = "connected"] /\ client' = [client EXCEPT ![k] = e]
             /\ UNCHANGED port
        ELSE /\ rest' = [rest EXCEPT ![e] = "refused"] /\ Forget({e}) /\ client' = client
  BY DEF Accept
<1>2. e \in Executors /\ rest[e] = "queued" /\ port[e] = k /\ UNCHANGED <<machine, of, machines>>
  BY DEF Queued, Accept
<1>3. CASE client[k] = None
  <2>1. RelayTypes' /\ RelaysAreNumbered' /\ PortsAreOfTheMachine'
    BY <1>1, <1>2, <1>3 DEF RelayInv, RelayTypes, RelaysAreNumbered, PortsAreOfTheMachine
  <2>2. ClientsAreConnected'
    <3> SUFFICES ASSUME NEW j \in Relays, client'[j] # None
                 PROVE  rest'[client'[j]] = "connected" /\ port'[client'[j]] = j
      BY DEF ClientsAreConnected
    <3>1. CASE j = k
      BY <1>1, <1>2, <1>3, <3>1 DEF RelayInv, RelayTypes
    <3>2. CASE j # k
      <4>1. client'[j] = client[j] /\ client[j] \in Executors
        BY <1>1, <1>3, <3>2 DEF RelayInv, RelayTypes
      <4> QED
        BY <1>1, <1>2, <1>3, <4>1 DEF RelayInv, RelayTypes, ClientsAreConnected
    <3> QED
      BY <3>1, <3>2
  <2> QED
    BY <2>1, <2>2 DEF RelayInv
<1>4. CASE client[k] # None
  <2>1. port' = [port EXCEPT ![e] = 0]
    <3>1. port' = [x \in Executors |-> IF x \in {e} THEN 0 ELSE port[x]]
      BY <1>1, <1>4 DEF Forget
    <3>2. port = [x \in Executors |-> port[x]]
      BY DEF RelayInv, RelayTypes
    <3> QED
      BY <1>2, <3>1, <3>2
  <2> DEFINE r == "refused"
             p == 0
  <2>2. rest' = [rest EXCEPT ![e] = r] /\ client' = client /\ rest[e] # "connected"
    BY <1>1, <1>2, <1>4
  <2>3. /\ port' = [port EXCEPT ![e] = p] /\ p \in 0 .. MaxRelays /\ (p # 0 => of[p] = machine[e])
        /\ r \in {"out", "creating", "told", "queued", "refused", "lost", "over"}
    BY <2>1
  <2> HIDE DEF r, p
  <2> QED
    BY <1>2, <2>2, <2>3, RequestStep
<1> QED
  BY <1>3, <1>4

\* What recv() does to the relays: at most, it closes the client it was called for.
LEMMA RecvRelays ==
  ASSUME RelayInv, NEW k \in Relays, Recv(k), UNCHANGED <<machine, of, machines>>
  PROVE  RelayInv'
<1>1. CASE UNCHANGED <<client, rest, port>>
  BY <1>1 DEF RelayInv, RelayTypes, RelaysAreNumbered, PortsAreOfTheMachine, ClientsAreConnected
<1>2. CASE client[k] # None /\ CloseClient(k)
  BY <1>2, CloseClientStep
<1> QED
  BY <1>1, <1>2 DEF Recv

\* Every step keeps what is known of the relays, their ports and their clients.
LEMMA RelayStep ==
  ASSUME SaladInv, [Next]_vars
  PROVE  RelayInv'
<1> USE DEF SaladInv
<1>1. CASE UNCHANGED <<executors, relays>>
  BY <1>1 DEF RelayInv, RelayTypes, RelaysAreNumbered, PortsAreOfTheMachine, ClientsAreConnected,
     executors, relays
<1>2. ASSUME NEW e \in Executors, Get(e) PROVE RelayInv'
  <2> DEFINE k == machines[machine[e]]
             r == IF k = 0 THEN "creating" ELSE "told"
  <2>1. k \in 0 .. MaxRelays /\ (k # 0 => of[k] = machine[e])
    BY DEF RelayInv, RelayTypes, PortsAreOfTheMachine
  <2>2. /\ rest[e] # "connected" /\ UNCHANGED <<machine, of, machines, client>>
        /\ rest' = [rest EXCEPT ![e] = r] /\ port' = [port EXCEPT ![e] = k]
    BY <1>2 DEF Get, relays
  <2>3. r \in {"creating", "told"}
    OBVIOUS
  <2> HIDE DEF k, r
  <2> QED
    BY <2>1, <2>2, <2>3, RequestStep
<1>3. ASSUME NEW e \in Executors, GetCreates(e) PROVE RelayInv'
  <2>1. /\ Create(machine[e]) /\ machine[e] \in Machines /\ UNCHANGED <<machine, client>>
        /\ rest[e] = "creating" /\ rest' = [rest EXCEPT ![e] = "told"]
        /\ port' = [port EXCEPT ![e] = NextRelay]
    BY <1>3 DEF GetCreates, Create, RelayInv, RelayTypes
  <2>2. /\ RelaysAreNumbered'
        /\ of' \in [Relays -> Machines \cup {None}] /\ machines' \in [Machines -> 0 .. MaxRelays]
        /\ \A x \in Executors : port[x] # 0 => of'[port[x]] = machine[x]
        /\ \A c \in Machines : machines'[c] # 0 => of'[machines'[c]] = c
        /\ NextRelay \in Relays /\ of'[NextRelay] = machine[e]
    BY <2>1, CreateStep
  <2>3. NextRelay \in 0 .. MaxRelays
    BY <2>2, BoundsAssumption DEF Relays
  <2>4. RelayTypes'
    BY <2>1, <2>2, <2>3 DEF RelayInv, RelayTypes
  <2>5. PortsAreOfTheMachine'
    BY <2>1, <2>2 DEF RelayInv, RelayTypes, PortsAreOfTheMachine
  <2>6. ClientsAreConnected'
    BY <2>1 DEF RelayInv, RelayTypes, ClientsAreConnected
  <2> QED
    BY <2>2, <2>4, <2>5, <2>6 DEF RelayInv
<1>4. ASSUME NEW e \in Executors, Connect(e) PROVE RelayInv'
  <2> DEFINE r == IF machines[machine[e]] = port[e] THEN "queued" ELSE "lost"
  <2>1. /\ rest[e] # "connected" /\ UNCHANGED <<machine, of, machines, client>>
        /\ rest' = [rest EXCEPT ![e] = r] /\ port' = port
    BY <1>4 DEF Connect, relays
  <2>2. port' = [port EXCEPT ![e] = port[e]] /\ port[e] \in 0 .. MaxRelays
        /\ (port[e] # 0 => of[port[e]] = machine[e])
    BY <2>1 DEF RelayInv, RelayTypes, PortsAreOfTheMachine
  <2>3. r \in {"queued", "lost"}
    OBVIOUS
  <2> HIDE DEF r
  <2> QED
    BY <2>1, <2>2, <2>3, RequestStep
<1>5. ASSUME NEW e \in Executors, Type(e) \/ Clog(e) \/ Close(e) PROVE RelayInv'
  BY <1>1, <1>5 DEF Type, Clog, Close
<1>6. ASSUME NEW c \in Consoles, Appear(c) \/ ServeConsole(c) \/ \E chunk \in Chunks : Output(c, chunk)
      PROVE  RelayInv'
  BY <1>1, <1>6 DEF Appear, Output, ServeConsole
<1>7. CASE Die \/ NetAccept \/ Written \/ UNCHANGED vars
  BY <1>1, <1>7 DEF Die, NetAccept, Written, vars
<1>8. CASE SaladCreates
  <2>1. /\ relaying \in Machines /\ Create(relaying) /\ UNCHANGED <<executors, client>>
    BY <1>8 DEF SaladCreates, RoundTypes, Create
  <2>2. /\ RelaysAreNumbered'
        /\ of' \in [Relays -> Machines \cup {None}] /\ machines' \in [Machines -> 0 .. MaxRelays]
        /\ \A x \in Executors : port[x] # 0 => of'[port[x]] = machine[x]
        /\ \A c \in Machines : machines'[c] # 0 => of'[machines'[c]] = c
    BY <2>1, CreateStep DEF executors
  <2> QED
    BY <2>1, <2>2 DEF RelayInv, RelayTypes, PortsAreOfTheMachine, ClientsAreConnected, executors
<1>9. CASE Send
  <2> DEFINE k == machines[relaying]
  <2>1. k \in Relays
    BY <1>9, BoundsAssumption DEF Send, RoundTypes, RelayInv, RelayTypes, Relays
  <2>2. CASE UNCHANGED <<client, rest, port>>
    BY <1>1, <1>9, <2>2 DEF Send, executors, relays
  <2>3. CASE client[k] \in ended /\ CloseClient(k)
    <3>1. client[k] # None /\ UNCHANGED <<machine, of, machines>>
      BY <1>9, <2>3, NoneAssumption DEF SocketTypes, Send
    <3> QED
      BY <2>1, <2>3, <3>1, CloseClientStep
  <2> QED
    BY <1>9, <2>2, <2>3 DEF Send
<1>10. CASE Select
  BY <1>10, SelectRelays
<1>11. ASSUME NEW k \in Relays, Accept(k) \/ ServeClient(k) \/ Received(k) PROVE RelayInv'
  <2>1. CASE Accept(k)
    BY <2>1, AcceptRelays
  <2>2. CASE ServeClient(k) \/ Received(k)
    BY <1>1, <2>2, RecvRelays DEF ServeClient, Received, RecvAndSend, executors, relays
  <2> QED
    BY <1>11, <2>1, <2>2
<1> QED
  BY <1>2, <1>3, <1>4, <1>5, <1>6, <1>7, <1>8, <1>9, <1>10, <1>11 DEF Next, Run

-----------------------------------------------------------------------------
(* The sockets, the consoles and the round.                                 *)

\* Every step keeps the sets of executors.
LEMMA SocketStep ==
  ASSUME SaladInv, [Next]_vars
  PROVE  SocketTypes'
<1> USE DEF SaladInv, SocketTypes
<1>1. CASE UNCHANGED sockets
  BY <1>1 DEF sockets
<1>2. ASSUME NEW over, Forget(over) PROVE SocketTypes'
  BY <1>2 DEF Forget
<1>3. ASSUME NEW e \in Executors, Get(e) \/ GetCreates(e) \/ Connect(e) PROVE SocketTypes'
  BY <1>1, <1>3 DEF Get, GetCreates, Connect
<1>4. ASSUME NEW e \in Executors, Type(e) \/ Clog(e) \/ Close(e) PROVE SocketTypes'
  BY <1>4 DEF Type, Clog, Close
<1>5. ASSUME NEW c \in Consoles, Appear(c) \/ ServeConsole(c) \/ \E chunk \in Chunks : Output(c, chunk)
      PROVE  SocketTypes'
  BY <1>1, <1>5 DEF Appear, Output, ServeConsole
<1>6. CASE Die \/ NetAccept \/ SaladCreates \/ Written \/ UNCHANGED vars
  BY <1>1, <1>6 DEF Die, NetAccept, SaladCreates, Written, vars
<1>7. CASE Select
  BY <1>2, <1>7 DEF Select
<1>8. CASE Send
  BY <1>1, <1>2, <1>8 DEF Send, CloseClient
<1>9. ASSUME NEW k \in Relays, Recv(k) PROVE SocketTypes'
  <2>1. CASE typed' = typed \ {client[k]} /\ UNCHANGED <<ended, deaf>>
    BY <2>1
  <2> QED
    BY <1>1, <1>2, <1>9, <2>1 DEF Recv, CloseClient
<1>10. ASSUME NEW k \in Relays, Accept(k) \/ ServeClient(k) \/ Received(k) PROVE SocketTypes'
  BY <1>1, <1>2, <1>9, <1>10 DEF Accept, ServeClient, Received, RecvAndSend
<1> QED
  BY <1>3, <1>4, <1>5, <1>6, <1>7, <1>8, <1>10 DEF Next, Run

\* Every step keeps the types of the consoles.
LEMMA StreamStep ==
  ASSUME SaladInv, [Next]_vars
  PROVE  StreamTypes'
<1> USE DEF SaladInv
<1>1. CASE UNCHANGED consoles
  BY <1>1 DEF StreamTypes, consoles
<1>2. ASSUME NEW e \in Executors, Get(e) \/ GetCreates(e) \/ Connect(e) \/ Close(e)
      PROVE  StreamTypes'
  BY <1>1, <1>2 DEF Get, GetCreates, Connect, Close
<1>3. ASSUME NEW e \in Executors, Type(e) \/ Clog(e) PROVE StreamTypes'
  <2>1. Input /\ UNCHANGED <<stream, id, input>>
    BY <1>3 DEF Type, Clog
  <2>2. events' \in [chunks : 0 .. MaxChunks, inputs : 0 .. MaxInputs]
    BY <2>1, BoundsAssumption DEF Input, StreamTypes
  <2> QED
    BY <2>1, <2>2 DEF StreamTypes
<1>4. ASSUME NEW c \in Consoles, Appear(c) PROVE StreamTypes'
  BY <1>4 DEF Appear, StreamTypes
<1>5. ASSUME NEW c \in Consoles, NEW chunk \in Chunks, Output(c, chunk) PROVE StreamTypes'
  <2>1. events' \in [chunks : 0 .. MaxChunks, inputs : 0 .. MaxInputs]
    BY <1>5, BoundsAssumption DEF Output, StreamTypes
  <2> QED
    BY <1>5, <2>1 DEF Output, StreamTypes
<1>6. ASSUME NEW c \in Consoles, ServeConsole(c) PROVE StreamTypes'
  <2> DEFINE m == IF input[c] \in Machines THEN input[c] ELSE id[c]
  <2>1. input' \in [Consoles -> Chunks \cup {None}] /\ events' = events
    BY <1>6 DEF ServeConsole, StreamTypes
  <2>2. m \in Machines \cup {None}
    BY DEF StreamTypes
  <2>3. id' \in [Consoles -> Machines \cup {None}]
    BY <1>6, <2>2 DEF ServeConsole, StreamTypes
  <2>4. stream' \in [Consoles -> {"out", "connecting", "open", "closed"}]
    BY <1>6 DEF ServeConsole, StreamTypes, Ends, Raises
  <2> QED
    BY <2>1, <2>3, <2>4 DEF StreamTypes
<1>7. CASE Select
  BY <1>7 DEF Select, StreamTypes
<1>8. CASE NetAccept
  BY <1>8 DEF NetAccept, StreamTypes
<1>9. CASE Die \/ SaladCreates \/ Send \/ Written \/ UNCHANGED vars
  BY <1>1, <1>9 DEF Die, SaladCreates, Send, Written, vars
<1>10. ASSUME NEW k \in Relays, Accept(k) \/ ServeClient(k) \/ Received(k) PROVE StreamTypes'
  BY <1>1, <1>10 DEF Accept, ServeClient, Received
<1> QED
  BY <1>2, <1>3, <1>4, <1>5, <1>6, <1>7, <1>8, <1>9, <1>10 DEF Next, Run

\* Serving a file descriptor goes on with the others.
LEMMA ServedTypes ==
  ASSUME RoundTypes, NEW fd, NEW accepted \in SUBSET Executors, Served(fd, accepted), relaying' = relaying
  PROVE  RoundTypes'
BY DEF RoundTypes, Served

\* Waiting for a console does so later.
LEMMA WaitingTypes ==
  ASSUME RoundTypes, NEW fd, ServedOnceWritten(fd), relaying' \in Machines \cup {None}
  PROVE  RoundTypes'
BY DEF RoundTypes, ServedOnceWritten

\* Every step keeps the types of the round, and relays to relays that were made.
LEMMA RoundStep ==
  ASSUME SaladInv, [Next]_vars
  PROVE  RoundTypes'
<1> USE DEF SaladInv
<1>1. CASE UNCHANGED <<thread, machines>>
  BY <1>1 DEF RoundTypes, thread
<1>2. ASSUME NEW e \in Executors, Get(e) \/ Connect(e) \/ Type(e) \/ Clog(e) \/ Close(e)
      PROVE  RoundTypes'
  BY <1>1, <1>2 DEF Get, Connect, Type, Clog, Close, relays
<1>3. ASSUME NEW e \in Executors, GetCreates(e) PROVE RoundTypes'
  <2>1. \A m \in Machines : machines[m] # 0 => machines'[m] # 0
    BY <1>3, CreateStep DEF GetCreates, RelayInv, RelayTypes
  <2>2. UNCHANGED <<fds, relaying, fresh>> /\ (spc' = spc \/ spc' = "dead")
    BY <1>3 DEF GetCreates
  <2> QED
    BY <2>1, <2>2 DEF RoundTypes
<1>4. ASSUME NEW c \in Consoles, Appear(c) \/ \E chunk \in Chunks : Output(c, chunk)
      PROVE  RoundTypes'
  BY <1>1, <1>4 DEF Appear, Output, relays
<1>5. ASSUME NEW c \in Consoles, ServeConsole(c) PROVE RoundTypes'
  <2> DEFINE fd == <<IF c \in Serials THEN "serial" ELSE "net", c>>
             m == IF input[c] \in Machines THEN input[c] ELSE id[c]
  <2>1. CASE Served(fd, {}) /\ relaying' = relaying
    BY <2>1, ServedTypes
  <2>3. CASE /\ m = None /\ Served(fd, {}) /\ relaying' = m
    <3>1. spc' \in {"select", "serve"}
      BY <2>3 DEF Served
    <3> QED
      BY <2>3, <3>1 DEF RoundTypes, Served
  <2>4. CASE ServedOnceWritten(fd) /\ relaying' = m
    <3>1. m \in Machines \cup {None}
      BY DEF StreamTypes
    <3> HIDE DEF m
    <3> QED
      BY <2>4, <3>1, WaitingTypes
  <2>2. CASE /\ m # None /\ fds' = fds \ {fd} /\ relaying' = m /\ fresh' = fresh
             /\ spc' = Relay(m)
    <3>1. m \in Machines
      BY <2>2 DEF StreamTypes
    <3>2. machines' = machines
      BY <1>5 DEF ServeConsole, relays
    <3> HIDE DEF m
    <3> QED
      BY <2>2, <3>1, <3>2 DEF RoundTypes, Relay
  <2> QED
    BY <1>5, <2>1, <2>2, <2>3, <2>4 DEF ServeConsole
<1>6. CASE SaladCreates
  <2>1. relaying \in Machines
    BY <1>6 DEF SaladCreates, RoundTypes
  <2>2. machines'[relaying] # 0
    BY <1>6, <2>1, CreateStep DEF SaladCreates, executors
  <2> QED
    BY <1>6, <2>1, <2>2 DEF SaladCreates, RoundTypes
<1>7. CASE Select
  <2>1. Noted \subseteq Fds
    BY DEF Noted, Fds
  <2>2. /\ fds' = {fd \in Noted : Ready(fd)} /\ fresh' = fresh /\ relaying' = relaying
        /\ spc' \in {"select", "serve"}
    BY <1>7 DEF Select
  <2> QED
    BY <2>1, <2>2 DEF RoundTypes
<1>8. CASE Send
  BY <1>8 DEF Send, RoundTypes
<1>9. CASE NetAccept
  BY <1>9, ServedTypes DEF NetAccept
<1>10. CASE Die
  BY <1>10 DEF Die, RoundTypes
<1>11. ASSUME NEW k \in Relays, Accept(k) PROVE RoundTypes'
  <2>1. PICK e \in Queued(k) : Served(<<"server", k>>, {e}) \/ Served(<<"server", k>>, {})
    BY <1>11 DEF Accept
  <2>2. {e} \in SUBSET Executors /\ relaying' = relaying
    BY <1>11 DEF Queued, Accept
  <2> QED
    BY <2>1, <2>2, ServedTypes
<1>12. ASSUME NEW k \in Relays, ServeClient(k) \/ Received(k) PROVE RoundTypes'
  <2>1. CASE Served(<<"client", k>>, {}) /\ relaying' = relaying
    BY <2>1, ServedTypes
  <2>2. CASE spc' = "recv" /\ UNCHANGED <<fds, fresh, relaying>>
    BY <2>2 DEF RoundTypes
  <2>3. CASE ServedOnceWritten(<<"client", k>>) /\ relaying' = relaying
    BY <2>3, WaitingTypes DEF RoundTypes
  <2> QED
    BY <1>12, <2>1, <2>2, <2>3 DEF ServeClient, Received, RecvAndSend
<1>13. CASE UNCHANGED vars
  BY <1>1, <1>13 DEF vars, relays
<1>14. CASE Written
  <2>1. /\ spc' \in {"create", "send", "select", "serve"} /\ fresh' \in {{}, fresh}
        /\ UNCHANGED <<fds, relaying, machines>>
    BY <1>14 DEF Written, Relay, relays
  <2>2. spc' \in {"create", "send"} => relaying \in Machines
    BY <1>14 DEF Written, RoundTypes
  <2>3. spc' = "send" => machines[relaying] # 0
    BY <1>14 DEF Written, Relay
  <2> QED
    BY <2>1, <2>2, <2>3 DEF RoundTypes
<1> QED
  BY <1>2, <1>3, <1>4, <1>5, <1>6, <1>7, <1>8, <1>9, <1>10, <1>11, <1>12, <1>13, <1>14
  DEF Next, Run

-----------------------------------------------------------------------------
(* What the thread may wait for.                                            *)

Serving == spc \in {"serve", "create", "send", "recv", "write"}

\* The clients that may be served: a step that keeps those of the round keeps ReadyClients.
MayServe(k) == client[k] = None \/ Readable(client[k]) \/ client[k] \in fresh

\* A step within a round keeps ReadyClients if it keeps the clients that may be served.
LEMMA KeepsReady ==
  ASSUME ReadyClients, Serving, fds' \subseteq fds,
         \A k \in Relays : <<"client", k>> \in fds' /\ MayServe(k) => MayServe(k)'
  PROVE  ReadyClients'
BY DEF ReadyClients, Serving, MayServe

\* Forgetting one client, or a connection that is none, does not touch the others.
LEMMA ForgetKeepsOthers ==
  ASSUME SaladInv, NEW e \in Executors, Forget({e}), NEW k \in Relays, client[k] # e,
         client'[k] = client[k], MayServe(k), client[k] \in fresh => client[k] \in fresh'
  PROVE  MayServe(k)'
BY DEF SaladInv, SocketTypes, Forget, MayServe, Readable

\* No step, of the thread, of an executor or of a REST request, leaves a file descriptor
\* of the round with an old client that has nothing to read.
LEMMA ReadyStep ==
  ASSUME SaladInv, [Next]_vars
  PROVE  ReadyClients'
<1> USE DEF SaladInv
<1>1. CASE UNCHANGED <<sockets, client, fresh>> /\ spc' = spc /\ fds' = fds
  BY <1>1 DEF ReadyClients, Readable, sockets
<1>2. CASE spc' \in {"select", "dead", "no ports"}
  BY <1>2 DEF ReadyClients
<1>3. ASSUME NEW e \in Executors, Get(e) \/ Connect(e) PROVE ReadyClients'
  BY <1>1, <1>3 DEF Get, Connect, relays, thread
<1>4. ASSUME NEW e \in Executors, GetCreates(e) PROVE ReadyClients'
  BY <1>1, <1>2, <1>4 DEF GetCreates, Create
<1>5. ASSUME NEW e \in Executors, Type(e) \/ Clog(e) \/ Close(e) PROVE ReadyClients'
  <2>1. ended \subseteq ended' /\ typed \subseteq typed' /\ UNCHANGED <<client, fresh, spc, fds>>
    BY <1>5 DEF Type, Clog, Close, relays, thread
  <2> QED
    BY <2>1 DEF ReadyClients, Readable
<1>6. ASSUME NEW c \in Consoles, Appear(c) \/ \E chunk \in Chunks : Output(c, chunk)
      PROVE  ReadyClients'
  BY <1>1, <1>6 DEF Appear, Output, relays, thread
<1>7. ASSUME NEW fd, NEW accepted, Served(fd, accepted), Serving, UNCHANGED <<sockets, client>>
      PROVE  ReadyClients'
  <2>1. CASE fds' = {}
    BY <1>2, <1>7, <2>1 DEF Served
  <2>2. CASE fds' # {}
    <3>1. fds' \subseteq fds /\ fresh \subseteq fresh'
      BY <1>7, <2>2 DEF Served
    <3> QED
      BY <1>7, <3>1, KeepsReady DEF MayServe, Readable, sockets
  <2> QED
    BY <2>1, <2>2
<1>8. ASSUME NEW c \in Consoles, ServeConsole(c) PROVE ReadyClients'
  <2> DEFINE fd == <<IF c \in Serials THEN "serial" ELSE "net", c>>
  <2>1. Serving /\ UNCHANGED <<sockets, client>>
    BY <1>8 DEF ServeConsole, Serving, relays
  <2>2. CASE Served(fd, {})
    BY <1>7, <2>1, <2>2
  <2>3. CASE fds' = fds \ {fd} /\ fresh' = fresh
    BY <2>1, <2>3, KeepsReady DEF MayServe, Readable, sockets
  <2> QED
    BY <1>8, <2>2, <2>3 DEF ServeConsole, ServedOnceWritten
<1>9. CASE NetAccept
  BY <1>7, <1>9 DEF NetAccept, Serving, relays
<1>10. CASE SaladCreates
  <2>1. Serving /\ UNCHANGED <<sockets, client, fresh, fds>>
    BY <1>10 DEF SaladCreates, Serving, Create
  <2> QED
    BY <2>1, KeepsReady DEF MayServe, Readable, sockets
<1>11. CASE Die
  BY <1>2, <1>11 DEF Die
<1>12. CASE Select
  <2> DEFINE lost == {e \in Executors : rest[e] \in {"queued", "connected"} /\ port[e] \in Replaced}
  <2>1. /\ fds' = {fd \in Noted : Ready(fd)}
        /\ client' = [k \in Relays |-> IF k \in Replaced THEN None ELSE client[k]]
        /\ ended' = ended \ lost /\ typed' = typed \ lost
    BY <1>12 DEF Select, Forget
  <2>2. ASSUME NEW k \in Relays, <<"client", k>> \in fds', client'[k] # None
        PROVE  Readable(client[k])'
    <3>1. <<"client", k>> \in Noted /\ Ready(<<"client", k>>)
      BY <2>1, <2>2
    <3>2. Readable(client[k])
      BY <3>1 DEF Ready
    <3>3. client'[k] = client[k] /\ k \notin Replaced
      BY <2>1, <2>2
    <3>4. port[client[k]] = k
      BY <2>2, <3>3 DEF RelayInv, ClientsAreConnected
    <3>5. client[k] \notin lost
      BY <3>3, <3>4
    <3> QED
      BY <2>1, <3>2, <3>3, <3>5 DEF Readable
  <2> QED
    BY <2>2 DEF ReadyClients
<1>13. CASE Send
  <2> DEFINE j == machines[relaying]
             e == client[j]
  <2>1. CASE fds = {}
    BY <1>2, <1>13, <2>1 DEF Send
  <2>2. CASE fds # {}
    <3>1. Serving /\ fds' = fds /\ fresh' = fresh
      BY <1>13, <2>2 DEF Send, Serving
    <3>2. CASE UNCHANGED <<client, sockets>>
      BY <3>1, <3>2, KeepsReady DEF MayServe, Readable, sockets
    <3>3. CASE e \in ended /\ CloseClient(j)
      <4>1. e \in Executors /\ e # None /\ j \in Relays
        BY <1>13, <3>3, NoneAssumption, BoundsAssumption
        DEF SocketTypes, Send, RoundTypes, RelayInv, RelayTypes, Relays
      <4>2. client' = [client EXCEPT ![j] = None] /\ Forget({e})
        BY <3>3 DEF CloseClient
      <4>3. ASSUME NEW k \in Relays, MayServe(k) PROVE MayServe(k)'
        <5>1. CASE k = j
          BY <4>1, <4>2, <5>1 DEF MayServe, RelayInv, RelayTypes
        <5>2. CASE k # j
          <6>1. client'[k] = client[k] /\ client[k] # e
            BY <4>1, <4>2, <5>2, ClientsAreDistinct DEF RelayInv, RelayTypes
          <6> HIDE DEF e
          <6> QED
            BY <3>1, <4>1, <4>2, <4>3, <6>1, ForgetKeepsOthers
        <5> QED
          BY <5>1, <5>2
      <4> QED
        BY <3>1, <4>3, KeepsReady
    <3> QED
      BY <1>13, <3>2, <3>3 DEF Send
  <2> QED
    BY <2>1, <2>2
<1>14. ASSUME NEW j \in Relays, Accept(j) PROVE ReadyClients'
  <2>1. CASE fds' = {}
    BY <1>2, <1>14, <2>1 DEF Accept, Served
  <2>2. CASE fds' # {}
    <3>1. Serving
      BY <1>14 DEF Accept, Serving
    <3>2. PICK e \in Queued(j) :
            IF client[j] = None
            THEN client' = [client EXCEPT ![j] = e] /\ Served(<<"server", j>>, {e}) /\ UNCHANGED sockets
            ELSE Forget({e}) /\ Served(<<"server", j>>, {}) /\ client' = client
      BY <1>14 DEF Accept
    <3>3. e \in Executors /\ rest[e] = "queued"
      BY DEF Queued
    <3>4. CASE client[j] = None
      <4>1. fds' \subseteq fds /\ fresh' = fresh \cup {e}
        BY <2>2, <3>2, <3>4 DEF Served
      <4> QED
        BY <3>1, <3>2, <3>4, <4>1, KeepsReady DEF MayServe, Readable, sockets, RelayInv,
           RelayTypes
    <3>5. CASE client[j] # None
      <4>1. fds' \subseteq fds /\ fresh' = fresh /\ Forget({e}) /\ client' = client
        BY <2>2, <3>2, <3>5 DEF Served
      <4>2. \A k \in Relays : client[k] # e
        BY <3>3, NoneAssumption DEF RelayInv, ClientsAreConnected
      <4>3. \A k \in Relays : MayServe(k) => MayServe(k)'
        BY <3>3, <4>1, <4>2, ForgetKeepsOthers
      <4> QED
        BY <3>1, <4>1, <4>3, KeepsReady
    <3> QED
      BY <3>4, <3>5
  <2> QED
    BY <2>1, <2>2
<1>15. ASSUME NEW j \in Relays, Serving, RecvAndSend(j) PROVE ReadyClients'
  <2>1. CASE spc' = "select"
    BY <1>2, <2>1
  <2>2. CASE spc' # "select"
    <3>1. fds' = fds \ {<<"client", j>>} /\ fresh' = fresh
      BY <1>15, <2>2 DEF RecvAndSend, Served, ServedOnceWritten
    <3>2. CASE UNCHANGED <<client, sockets>>
      BY <1>15, <3>1, <3>2, KeepsReady DEF MayServe, Readable, sockets
    <3>3. ASSUME NEW k \in Relays, k # j, client[k] # None PROVE client[k] # client[j]
      BY <3>3, ClientsAreDistinct
    <3>4. CASE typed' = typed \ {client[j]} /\ UNCHANGED <<client, ended>>
      <4>1. ASSUME NEW k \in Relays, <<"client", k>> \in fds', MayServe(k) PROVE MayServe(k)'
        <5>1. k # j
          BY <3>1, <4>1
        <5> QED
          BY <3>1, <3>3, <3>4, <4>1, <5>1 DEF MayServe, Readable
      <4> QED
        BY <1>15, <3>1, <4>1, KeepsReady
    <3>5. CASE client[j] # None /\ CloseClient(j)
      <4>1. /\ client[j] \in Executors /\ Forget({client[j]})
            /\ client' = [client EXCEPT ![j] = None]
        BY <3>5 DEF CloseClient, RelayInv, RelayTypes
      <4>2. ASSUME NEW k \in Relays, <<"client", k>> \in fds', MayServe(k) PROVE MayServe(k)'
        <5>1. k # j /\ client'[k] = client[k]
          BY <3>1, <4>1, <4>2 DEF RelayInv, RelayTypes
        <5>2. CASE client[k] = None
          BY <5>1, <5>2 DEF MayServe
        <5>3. CASE client[k] # None
          <6>1. client[k] # client[j]
            BY <3>3, <5>1, <5>3
          <6> QED
            BY <3>1, <4>1, <4>2, <5>1, <6>1, ForgetKeepsOthers
        <5> QED
          BY <5>2, <5>3
      <4> QED
        BY <1>15, <3>1, <4>2, KeepsReady
    <3> QED
      BY <1>15, <3>2, <3>4, <3>5 DEF RecvAndSend, Recv
  <2> QED
    BY <2>1, <2>2
<1>16. ASSUME NEW j \in Relays, ServeClient(j) \/ Received(j) PROVE ReadyClients'
  <2>1. Serving
    BY <1>16 DEF ServeClient, Received, Serving
  <2>2. CASE RecvAndSend(j)
    BY <1>15, <2>1, <2>2
  <2>3. CASE UNCHANGED <<sockets, client, fds, fresh>>
    BY <2>1, <2>3, KeepsReady DEF MayServe, Readable, sockets
  <2> QED
    BY <1>16, <2>2, <2>3 DEF ServeClient, Received
<1>17. CASE UNCHANGED vars
  BY <1>1, <1>17 DEF vars, relays, thread
<1>18. CASE Written
  <2>1. Serving /\ UNCHANGED <<sockets, client, fds>>
    BY <1>18 DEF Written, Serving, relays
  <2>2. CASE spc' = "select"
    BY <1>2, <2>2
  <2>3. CASE spc' # "select"
    <3>1. fresh' = fresh
      BY <1>18, <2>3 DEF Written
    <3> QED
      BY <2>1, <3>1, KeepsReady DEF MayServe, Readable, sockets
  <2> QED
    BY <2>2, <2>3
<1> QED
  BY <1>3, <1>4, <1>5, <1>6, <1>8, <1>9, <1>10, <1>11, <1>12, <1>13, <1>14, <1>16, <1>17, <1>18
  DEF Next, Run

\* The thread begins to wait for a client that was accepted in this round, and nothing
\* but the client's input, or its end, ends the wait.
LEMMA WaitStep ==
  ASSUME SaladInv, [Next]_vars
  PROVE  WaitsOnlyForANewcomer'
<1> USE DEF SaladInv
<1>1. CASE spc' # "recv"
  BY <1>1 DEF WaitsOnlyForANewcomer
<1>2. CASE UNCHANGED <<spc, fds, fresh, client>>
  BY <1>2 DEF WaitsOnlyForANewcomer, First
<1>3. ASSUME NEW e \in Executors, Get(e) \/ Connect(e) \/ Type(e) \/ Clog(e) \/ Close(e)
      PROVE  WaitsOnlyForANewcomer'
  BY <1>2, <1>3 DEF Get, Connect, Type, Clog, Close, relays, thread
<1>4. ASSUME NEW e \in Executors, GetCreates(e) PROVE WaitsOnlyForANewcomer'
  BY <1>1, <1>2, <1>4 DEF GetCreates, Create
<1>5. ASSUME NEW c \in Consoles, Appear(c) \/ \E chunk \in Chunks : Output(c, chunk)
      PROVE  WaitsOnlyForANewcomer'
  BY <1>2, <1>5 DEF Appear, Output, relays, thread
<1>6. CASE \/ Die \/ Select \/ SaladCreates \/ Send \/ NetAccept \/ Written
           \/ \E c \in Consoles : ServeConsole(c)
  BY <1>1, <1>6 DEF Die, Select, SaladCreates, Send, NetAccept, Written, ServeConsole, Served,
     ServedOnceWritten, Relay
<1>7. ASSUME NEW k \in Relays, Accept(k) \/ Received(k) PROVE WaitsOnlyForANewcomer'
  BY <1>1, <1>7 DEF Accept, Received, RecvAndSend, Served, ServedOnceWritten
<1>8. ASSUME NEW k \in Relays, ServeClient(k) PROVE WaitsOnlyForANewcomer'
  <2>1. CASE RecvAndSend(k)
    BY <1>1, <2>1 DEF RecvAndSend, Served, ServedOnceWritten
  <2>2. CASE ~ (client[k] = None \/ Readable(client[k])) /\ UNCHANGED <<client, fds, fresh>>
    <3>1. spc = "serve" /\ First(<<"client", k>>) /\ <<"client", k>> \in fds
      BY <1>8 DEF ServeClient, First
    <3>2. client[k] \in fresh
      BY <2>2, <3>1 DEF ReadyClients
    <3> QED
      BY <2>2, <3>1, <3>2 DEF WaitsOnlyForANewcomer, First
  <2> QED
    BY <1>8, <2>1, <2>2 DEF ServeClient
<1>9. CASE UNCHANGED vars
  BY <1>2, <1>9 DEF vars, relays, thread
<1> QED
  BY <1>3, <1>4, <1>5, <1>6, <1>7, <1>8, <1>9 DEF Next, Run

\* Nothing was requested, made or selected yet.
LEMMA SaladInitially ==
  ASSUME Init
  PROVE  SaladInv
<1> USE BoundsAssumption
<1>1. RelayTypes /\ PortsAreOfTheMachine /\ ClientsAreConnected
  BY DEF Init, RelayTypes, PortsAreOfTheMachine, ClientsAreConnected
<1>2. RelaysAreNumbered
  <2>1. {k \in Relays : of[k] # None} = 1 .. 0
    BY DEF Init
  <2> QED
    BY <2>1 DEF RelaysAreNumbered
<1>3. SocketTypes /\ StreamTypes
  BY DEF Init, SocketTypes, StreamTypes
<1>4. RoundTypes /\ ReadyClients /\ WaitsOnlyForANewcomer
  BY DEF Init, RoundTypes, ReadyClients, WaitsOnlyForANewcomer
<1> QED
  BY <1>1, <1>2, <1>3, <1>4 DEF SaladInv, RelayInv

\* The relays are those of their machines, the clients those of their relays, and the
\* file descriptors of a round stand for clients that may be served: the inductive
\* invariant of the SALAD thread, the executors and the REST requests.
THEOREM SaladCorrect == Spec => []SaladInv
<1>1. Init => SaladInv
  BY SaladInitially
<1>2. SaladInv /\ [Next]_vars => SaladInv'
  BY RelayStep, SocketStep, StreamStep, RoundStep, ReadyStep, WaitStep DEF SaladInv
<1> QED
  BY <1>1, <1>2, PTL DEF Spec

\* The type invariant, and with it that the client of a relay asked for the console of
\* the machine that the relay is of, whatever relays were made twice and replaced.
THEOREM SaladTypeCorrect == Spec => []TypeOK
<1>1. SaladInv => TypeOK
  <2> SUFFICES ASSUME SaladInv PROVE TypeOK
    OBVIOUS
  <2> USE DEF SaladInv
  <2>1. ASSUME NEW k \in Relays, client[k] # None
        PROVE  of[k] = machine[client[k]] /\ rest[client[k]] = "connected"
    <3>1. client[k] \in Executors /\ port[client[k]] = k /\ k # 0
      BY <2>1, BoundsAssumption DEF RelayInv, RelayTypes, ClientsAreConnected, Relays
    <3> QED
      BY <2>1, <3>1 DEF RelayInv, PortsAreOfTheMachine, ClientsAreConnected
  <2> QED
    BY <2>1 DEF TypeOK, RelayInv, RelayTypes, PortsAreOfTheMachine, SocketTypes, StreamTypes,
       RoundTypes
<1> QED
  BY <1>1, SaladCorrect, PTL

\* The thread waits for the input of no client but one that it accepted in this round.
THEOREM WaitsForNewcomersOnly == Spec => []WaitsOnlyForANewcomer
<1>1. SaladInv => WaitsOnlyForANewcomer
  BY DEF SaladInv
<1> QED
  BY <1>1, SaladCorrect, PTL

\* A relay gives up its client only after the client closed its end, or as the relay
\* was replaced.
THEOREM SessionIsKept == Spec => SessionKept
<1> DEFINE Keeps == \A k \in Relays : client[k] # None /\ client'[k] # client[k]
                      => client[k] \in ended \/ k \in Replaced
<1>1. ASSUME SaladInv, [Next]_vars PROVE Keeps
  <2> USE DEF SaladInv
  <2>1. ASSUME UNCHANGED client PROVE Keeps
    BY <2>1
  <2>2. ASSUME NEW e \in Executors,
               Get(e) \/ GetCreates(e) \/ Connect(e) \/ Type(e) \/ Clog(e) \/ Close(e)
        PROVE  UNCHANGED client
    BY <2>2 DEF Get, GetCreates, Create, Connect, Type, Clog, Close, relays
  <2>3. ASSUME NEW c \in Consoles, Appear(c) \/ ServeConsole(c) \/ \E chunk \in Chunks : Output(c, chunk)
        PROVE  UNCHANGED client
    BY <2>3 DEF Appear, Output, ServeConsole, relays
  <2>4. CASE Die \/ SaladCreates \/ NetAccept \/ Written \/ UNCHANGED vars
    BY <2>1, <2>4 DEF Die, SaladCreates, Create, NetAccept, Written, vars, relays
  <2>5. CASE Select
    BY <2>5 DEF Select
  <2>6. ASSUME NEW k \in Relays, CloseClient(k), client[k] \in ended PROVE Keeps
    BY <1>1, <2>6 DEF CloseClient, RelayInv, RelayTypes
  <2>7. CASE Send
    <3>1. machines[relaying] \in Relays
      BY <1>1, <2>7, BoundsAssumption DEF Send, RoundTypes, RelayInv, RelayTypes, Relays
    <3> HIDE DEF Keeps
    <3> QED
      BY <2>1, <2>6, <2>7, <3>1 DEF Send
  <2>8. ASSUME NEW k \in Relays, Accept(k) PROVE Keeps
    BY <1>1, <2>8 DEF Accept, RelayInv, RelayTypes
  <2>9. ASSUME NEW k \in Relays, ServeClient(k) \/ Received(k) PROVE Keeps
    <3>1. CASE client[k] \in ended /\ CloseClient(k)
      BY <2>6, <3>1
    <3>2. UNCHANGED client \/ (client[k] \in ended /\ CloseClient(k))
      BY <2>9 DEF ServeClient, Received, RecvAndSend, Recv, Readable
    <3> QED
      BY <2>1, <3>1, <3>2
  <2> QED
    BY <1>1, <2>1, <2>2, <2>3, <2>4, <2>5, <2>7, <2>8, <2>9 DEF Next, Run
<1> QED
  BY <1>1, SaladCorrect, PTL DEF Spec, SessionKept

-----------------------------------------------------------------------------
(* JobConsole: the inductive invariant.                                     *)

\* A thread that wrote OVER has yet to close the connections, or they are closed:
\* nothing else makes the state OVER, and nothing opens them again.
OverIsBeingClosed ==
  _state = Job!OVER =>
    \/ \E t \in Job!Threads : op[t] = [step |-> "effect", target |-> Job!OVER]
    \/ Job!SaladGone /\ Job!ClientGone

\* Only the console thread's first call goes to ACTIVE: once it is past it, no thread
\* can write a state before DUT_DONE over a later one.
NoWayBack ==
  /\ Job!Calling("executor") => op["executor"].target >= Job!DUT_DONE
  /\ Job!Calling("console") =>
       op["console"].target >= (IF cpc = "started" THEN Job!ACTIVE ELSE Job!DUT_DONE)
  /\ cpc = "start" => ~Job!Calling("console")

\* The end of the session was matched: the state says so, or the console thread is about
\* to write it.
MatchedIsReported ==
  matched => /\ cpc \notin {"start", "started"}
             /\ \/ _state >= Job!DUT_DONE
                \/ cpc \in {"forward", "ended"}
                \/ cpc = "serve" /\ op["console"].step \in {"check", "write"}

ConsoleInv == Job!ConsoleTypeOK /\ OverIsBeingClosed /\ NoWayBack /\ MatchedIsReported

\* The effects of a new state: CREATED is never the target of a call.
LEMMA EffectCases ==
  ASSUME Job!ConsoleTypeOK, NoWayBack, NEW t \in Job!Threads, Job!SetStateEffect(t)
  PROVE  /\ op[t].step = "effect"
         /\ \/ op[t].target = Job!ACTIVE /\ Job!Return(t) /\ UNCHANGED Job!sockets
            \/ op[t].target = Job!DUT_DONE /\ (Job!Return(t) \/ Job!Call(t, Job!OVER)) /\ UNCHANGED Job!sockets
            \/ /\ op[t].target = Job!TEAR_DOWN /\ Job!CloseSalad /\ UNCHANGED client_sock
               /\ Job!Proceed(t, "notify") \/ Job!Return(t)
            \/ op[t].target = Job!OVER /\ Job!CloseSalad /\ Job!CloseClient /\ Job!Return(t)
<1>1. op[t].step = "effect" /\ op[t].target \in Job!States
  BY DEF Job!ConsoleTypeOK, Job!SetStateEffect
<1>2. op[t].target \in {Job!ACTIVE, Job!DUT_DONE, Job!TEAR_DOWN, Job!OVER}
  BY <1>1 DEF NoWayBack, Job!Calling, Job!Threads, Job!States, Job!CREATED, Job!ACTIVE,
     Job!DUT_DONE, Job!TEAR_DOWN, Job!OVER
<1>3. CASE op[t].target = Job!ACTIVE
  BY <1>1, <1>3 DEF Job!SetStateEffect, Job!CREATED, Job!ACTIVE, Job!DUT_DONE, Job!TEAR_DOWN,
     Job!OVER
<1>4. CASE op[t].target = Job!DUT_DONE
  BY <1>1, <1>4 DEF Job!SetStateEffect, Job!CREATED, Job!ACTIVE, Job!DUT_DONE, Job!TEAR_DOWN,
     Job!OVER
<1>5. CASE op[t].target = Job!TEAR_DOWN
  BY <1>1, <1>5 DEF Job!SetStateEffect, Job!CREATED, Job!ACTIVE, Job!DUT_DONE, Job!TEAR_DOWN,
     Job!OVER
<1>6. CASE op[t].target = Job!OVER
  BY <1>1, <1>6 DEF Job!SetStateEffect, Job!CREATED, Job!ACTIVE, Job!DUT_DONE, Job!TEAR_DOWN,
     Job!OVER
<1> QED
  BY <1>2, <1>3, <1>4, <1>5, <1>6

\* What an effect leaves alone.
LEMMA EffectFrame ==
  ASSUME NEW t \in Job!Threads, Job!SetStateEffect(t)
  PROVE  UNCHANGED <<_state, client_version, raised, cpc, rlist, epc, Job!peers, matched, notified>>
BY DEF Job!SetStateEffect

\* set_state(), in either thread, keeps the types.
LEMMA SetStateKeepsTypes ==
  ASSUME Job!ConsoleTypeOK, NoWayBack, NEW t \in Job!Threads, Job!SetState(t)
  PROVE  Job!ConsoleTypeOK'
<1> USE DEF Job!ConsoleTypeOK, Job!Threads, Job!States, Job!SetStateSteps, Job!Idle, Job!Calling,
    Job!Call, Job!Proceed, Job!Return,
        Job!CREATED, Job!ACTIVE, Job!DUT_DONE, Job!TEAR_DOWN, Job!OVER, Job!calls, Job!sockets,
        Job!peers
<1>1. CASE Job!SetStateCheck(t)
  BY <1>1 DEF Job!SetStateCheck
<1>2. CASE Job!SetStateWrite(t)
  BY <1>2 DEF Job!SetStateWrite
<1>3. CASE Job!SetStateEffect(t)
  <2>1. op' \in [Job!Threads -> [step : Job!SetStateSteps, target : Job!States]]
    BY <1>3, EffectCases
  <2>2. salad_sock' \in {"open", "closed"} /\ client_sock' \in {"open", "shut", "closed"}
    BY <1>3, EffectCases DEF Job!CloseSalad, Job!CloseClient
  <2>3. /\ _state' = _state /\ cpc' = cpc /\ rlist' = rlist /\ epc' = epc /\ raised' = raised
        /\ salad_peer' = salad_peer /\ client_peer' = client_peer
    BY <1>3, EffectFrame
  <2>4. client_version' \in BOOLEAN /\ matched' \in BOOLEAN /\ notified' \in BOOLEAN
    BY <1>3, EffectFrame, Zenon
  <2> QED
    BY <2>1, <2>2, <2>3, <2>4
<1>4. CASE Job!SetStateNotify(t)
  <2>1. notified' \in BOOLEAN
    BY <1>4 DEF Job!SetStateNotify
  <2>2. raised' \in [Job!Threads -> BOOLEAN]
    BY <1>4 DEF Job!SetStateNotify
  <2> QED
    BY <1>4, <2>1, <2>2 DEF Job!SetStateNotify
<1> QED
  BY <1>1, <1>2, <1>3, <1>4 DEF Job!SetState

\* So does the console thread.
LEMMA ConsoleKeepsTypes ==
  ASSUME Job!ConsoleTypeOK, Job!Console
  PROVE  Job!ConsoleTypeOK'
<1> USE DEF Job!ConsoleTypeOK, Job!Threads, Job!States, Job!SetStateSteps, Job!Idle, Job!Calling,
    Job!Call, Job!Proceed, Job!Return,
        Job!CREATED, Job!ACTIVE, Job!DUT_DONE, Job!TEAR_DOWN, Job!OVER, Job!calls, Job!sockets,
        Job!peers
<1> USE DEF Job!ConsoleAt, Job!Serving
<1>1. CASE Job!ConsoleStart
  BY <1>1 DEF Job!ConsoleStart
<1>2. CASE Job!ConsoleStarted
  BY <1>2 DEF Job!ConsoleStarted
<1>3. CASE Job!ConsoleTest
  <2>1. rlist' \subseteq {"salad", "client"} /\ cpc' \in {"dead", "fileno"}
    BY <1>3 DEF Job!ConsoleTest
  <2>2. UNCHANGED <<_state, client_version, op, raised, epc, salad_sock, client_sock,
                    salad_peer, client_peer, matched, notified>>
    BY <1>3 DEF Job!ConsoleTest
  <2> QED
    BY <2>1, <2>2
<1>4. CASE Job!ConsoleFileno
  BY <1>4 DEF Job!ConsoleFileno
<1>5. CASE Job!ConsoleDies
  BY <1>5 DEF Job!ConsoleDies
<1>6. CASE Job!ConsoleSelect
  <2>1. rlist' \subseteq {"salad", "client"} /\ cpc' \in {"dead", "serve"}
    BY <1>6 DEF Job!ConsoleSelect
  <2>2. UNCHANGED <<_state, client_version, op, raised, epc, salad_sock, client_sock,
                    salad_peer, client_peer, matched, notified>>
    BY <1>6 DEF Job!ConsoleSelect
  <2> QED
    BY <2>1, <2>2
<1>7. CASE Job!ConsoleServed
  BY <1>7 DEF Job!ConsoleServed
<1>8. CASE Job!ConsoleSkip
  BY <1>8 DEF Job!ConsoleSkip
<1>9. CASE Job!ConsoleOutput
  BY <1>9 DEF Job!ConsoleOutput
<1>10. CASE Job!ConsoleSaladEof
  BY <1>10 DEF Job!ConsoleSaladEof
<1>11. CASE Job!ConsoleEof
  BY <1>11 DEF Job!ConsoleEof
<1>12. CASE Job!ConsoleMatch
  <2>1. matched' \in BOOLEAN /\ cpc' = "forward"
    BY <1>12 DEF Job!ConsoleMatch
  <2>2. UNCHANGED <<_state, client_version, op, raised, rlist, epc, salad_sock, client_sock,
                    salad_peer, client_peer, notified>>
    BY <1>12 DEF Job!ConsoleMatch
  <2> QED
    BY <2>1, <2>2
<1>13. CASE Job!ConsoleForward
  BY <1>13 DEF Job!ConsoleForward
<1>14. CASE Job!ConsoleEnded
  BY <1>14 DEF Job!ConsoleEnded
<1>15. CASE Job!ConsoleClientEof
  BY <1>15 DEF Job!ConsoleClientEof
<1>16. CASE Job!ConsoleClientInput
  BY <1>16 DEF Job!ConsoleClientInput
<1> QED
  BY <1>1, <1>2, <1>3, <1>4, <1>5, <1>6, <1>7, <1>8, <1>9, <1>10, <1>11, <1>12, <1>13, <1>14,
     <1>15, <1>16 DEF Job!Console

\* So do the Executor thread and the peers.
LEMMA OthersKeepTypes ==
  ASSUME Job!ConsoleTypeOK, [Job!Next]_Job!vars, ~Job!Console, ~\E t \in Job!Threads : Job!SetState(t)
  PROVE  Job!ConsoleTypeOK'
<1> USE DEF Job!ConsoleTypeOK, Job!Threads, Job!States, Job!SetStateSteps, Job!Idle, Job!Calling,
    Job!Call, Job!Proceed, Job!Return,
        Job!CREATED, Job!ACTIVE, Job!DUT_DONE, Job!TEAR_DOWN, Job!OVER, Job!calls, Job!sockets,
        Job!peers
<1> USE DEF Job!ExecutorAt
<1>1. CASE Job!ExecutorAbort
  BY <1>1 DEF Job!ExecutorAbort
<1>2. CASE Job!ExecutorAborted
  BY <1>2 DEF Job!ExecutorAborted
<1>3. CASE Job!ExecutorBootOver
  BY <1>3 DEF Job!ExecutorBootOver
<1>4. CASE Job!ExecutorOver
  BY <1>4 DEF Job!ExecutorOver
<1>5. CASE Job!ExecutorTornDown
  BY <1>5 DEF Job!ExecutorTornDown
<1>6. CASE Job!ExecutorClientDone
  BY <1>6 DEF Job!ExecutorClientDone
<1>7. CASE Job!ExecutorClose
  BY <1>7 DEF Job!ExecutorClose
<1>8. CASE Job!SaladCloses \/ Job!SaladStalls
  <2>1. salad_peer' \in {"stalled", "closed"}
    BY <1>8 DEF Job!SaladCloses, Job!SaladStalls
  <2>2. UNCHANGED <<_state, client_version, op, raised, cpc, rlist, epc, salad_sock,
                    client_sock, client_peer, matched, notified>>
    BY <1>8 DEF Job!SaladCloses, Job!SaladStalls
  <2> QED
    BY <2>1, <2>2
<1>9. CASE Job!ClientCloses \/ Job!ClientStalls
  <2>1. client_peer' \in {"stalled", "closed"}
    BY <1>9 DEF Job!ClientCloses, Job!ClientStalls
  <2>2. UNCHANGED <<_state, client_version, op, raised, cpc, rlist, epc, salad_sock,
                    client_sock, salad_peer, matched, notified>>
    BY <1>9 DEF Job!ClientCloses, Job!ClientStalls
  <2> QED
    BY <2>1, <2>2
<1>10. CASE UNCHANGED Job!vars
  BY <1>10 DEF Job!vars
<1> QED
  BY <1>1, <1>2, <1>3, <1>4, <1>5, <1>6, <1>7, <1>8, <1>9, <1>10 DEF Job!Next, Job!Executor
\* set_state() closes what it said was over, and never takes a matched end back.
LEMMA SetStateKeepsInv ==
  ASSUME ConsoleInv, NEW t \in Job!Threads, Job!SetState(t)
  PROVE  (OverIsBeingClosed /\ NoWayBack /\ MatchedIsReported)'
<1> USE DEF ConsoleInv, Job!ConsoleTypeOK, Job!Threads, Job!States, Job!SetStateSteps, Job!Idle,
    Job!Calling, Job!Call, Job!Proceed,
        Job!Return, Job!CREATED, Job!ACTIVE, Job!DUT_DONE, Job!TEAR_DOWN, Job!OVER, Job!calls,
        Job!sockets, Job!peers, Job!SaladGone,
        Job!ClientGone
<1>1. CASE Job!SetStateCheck(t)
  <2>1. OverIsBeingClosed'
    BY <1>1 DEF Job!SetStateCheck, OverIsBeingClosed
  <2>2. NoWayBack'
    BY <1>1 DEF Job!SetStateCheck, NoWayBack
  <2>3. MatchedIsReported'
    BY <1>1 DEF Job!SetStateCheck, MatchedIsReported, NoWayBack
  <2> QED
    BY <2>1, <2>2, <2>3
<1>2. CASE Job!SetStateWrite(t)
  <2>1. OverIsBeingClosed'
    BY <1>2 DEF Job!SetStateWrite, OverIsBeingClosed
  <2>2. NoWayBack'
    BY <1>2 DEF Job!SetStateWrite, NoWayBack
  <2>3. MatchedIsReported'
    BY <1>2 DEF Job!SetStateWrite, MatchedIsReported, NoWayBack
  <2> QED
    BY <2>1, <2>2, <2>3
<1>3. CASE Job!SetStateEffect(t)
  <2>1. OverIsBeingClosed'
    BY <1>3, EffectCases, EffectFrame DEF OverIsBeingClosed, Job!CloseSalad, Job!CloseClient
  <2>2. NoWayBack'
    BY <1>3, EffectCases, EffectFrame DEF NoWayBack
  <2>3. MatchedIsReported'
    BY <1>3, EffectCases, EffectFrame DEF MatchedIsReported, NoWayBack
  <2> QED
    BY <2>1, <2>2, <2>3
<1>4. CASE Job!SetStateNotify(t)
  <2>1. OverIsBeingClosed'
    BY <1>4 DEF Job!SetStateNotify, OverIsBeingClosed
  <2>2. NoWayBack'
    BY <1>4 DEF Job!SetStateNotify, NoWayBack
  <2>3. MatchedIsReported'
    BY <1>4 DEF Job!SetStateNotify, MatchedIsReported, NoWayBack
  <2> QED
    BY <2>1, <2>2, <2>3
<1> QED
  BY <1>1, <1>2, <1>3, <1>4 DEF Job!SetState

\* The console thread does not go back to its loop with an end that it did not report.
LEMMA ConsoleKeepsInv ==
  ASSUME ConsoleInv, Job!Console
  PROVE  (OverIsBeingClosed /\ NoWayBack /\ MatchedIsReported)'
<1> USE DEF ConsoleInv, Job!ConsoleTypeOK, Job!Threads, Job!States, Job!SetStateSteps, Job!Idle,
    Job!Calling, Job!Call, Job!Proceed,
        Job!Return, Job!CREATED, Job!ACTIVE, Job!DUT_DONE, Job!TEAR_DOWN, Job!OVER, Job!calls,
        Job!sockets, Job!peers, Job!SaladGone,
        Job!ClientGone
<1> USE DEF Job!ConsoleAt, Job!Serving, OverIsBeingClosed, NoWayBack, MatchedIsReported
<1>1. CASE Job!ConsoleStart
  BY <1>1 DEF Job!ConsoleStart
<1>2. CASE Job!ConsoleStarted
  BY <1>2 DEF Job!ConsoleStarted
<1>3. CASE Job!ConsoleTest
  BY <1>3 DEF Job!ConsoleTest
<1>4. CASE Job!ConsoleFileno
  BY <1>4 DEF Job!ConsoleFileno
<1>5. CASE Job!ConsoleDies
  BY <1>5 DEF Job!ConsoleDies
<1>6. CASE Job!ConsoleSelect
  BY <1>6 DEF Job!ConsoleSelect
<1>7. CASE Job!ConsoleServed
  BY <1>7 DEF Job!ConsoleServed
<1>8. CASE Job!ConsoleSkip
  BY <1>8 DEF Job!ConsoleSkip
<1>9. CASE Job!ConsoleOutput
  BY <1>9 DEF Job!ConsoleOutput
<1>10. CASE Job!ConsoleSaladEof
  BY <1>10 DEF Job!ConsoleSaladEof
<1>11. CASE Job!ConsoleEof
  BY <1>11 DEF Job!ConsoleEof
<1>12. CASE Job!ConsoleMatch
  BY <1>12 DEF Job!ConsoleMatch
<1>13. CASE Job!ConsoleForward
  BY <1>13 DEF Job!ConsoleForward
<1>14. CASE Job!ConsoleEnded
  BY <1>14 DEF Job!ConsoleEnded
<1>15. CASE Job!ConsoleClientEof
  BY <1>15 DEF Job!ConsoleClientEof
<1>16. CASE Job!ConsoleClientInput
  BY <1>16 DEF Job!ConsoleClientInput
<1> QED
  BY <1>1, <1>2, <1>3, <1>4, <1>5, <1>6, <1>7, <1>8, <1>9, <1>10, <1>11, <1>12, <1>13, <1>14,
     <1>15, <1>16 DEF Job!Console

\* The Executor thread only ever ends the session, and peers do not come back.
LEMMA OthersKeepInv ==
  ASSUME ConsoleInv, [Job!Next]_Job!vars, ~Job!Console, ~\E t \in Job!Threads : Job!SetState(t)
  PROVE  (OverIsBeingClosed /\ NoWayBack /\ MatchedIsReported)'
<1> USE DEF ConsoleInv, Job!ConsoleTypeOK, Job!Threads, Job!States, Job!SetStateSteps, Job!Idle,
    Job!Calling, Job!Call, Job!Proceed,
        Job!Return, Job!CREATED, Job!ACTIVE, Job!DUT_DONE, Job!TEAR_DOWN, Job!OVER, Job!calls,
        Job!sockets, Job!peers, Job!SaladGone,
        Job!ClientGone
<1> USE DEF Job!ExecutorAt, OverIsBeingClosed, NoWayBack, MatchedIsReported
<1>1. CASE Job!ExecutorAbort
  BY <1>1 DEF Job!ExecutorAbort
<1>2. CASE Job!ExecutorAborted
  BY <1>2 DEF Job!ExecutorAborted
<1>3. CASE Job!ExecutorBootOver
  BY <1>3 DEF Job!ExecutorBootOver
<1>4. CASE Job!ExecutorOver
  BY <1>4 DEF Job!ExecutorOver
<1>5. CASE Job!ExecutorTornDown
  BY <1>5 DEF Job!ExecutorTornDown
<1>6. CASE Job!ExecutorClientDone
  BY <1>6 DEF Job!ExecutorClientDone
<1>7. CASE Job!ExecutorClose
  BY <1>7 DEF Job!ExecutorClose
<1>8. CASE Job!SaladCloses \/ Job!SaladStalls
  BY <1>8 DEF Job!SaladCloses, Job!SaladStalls
<1>9. CASE Job!ClientCloses \/ Job!ClientStalls
  BY <1>9 DEF Job!ClientCloses, Job!ClientStalls
<1>10. CASE UNCHANGED Job!vars
  BY <1>10 DEF Job!vars
<1> QED
  BY <1>1, <1>2, <1>3, <1>4, <1>5, <1>6, <1>7, <1>8, <1>9, <1>10 DEF Job!Next, Job!Executor
\* Every step of the two threads and of the peers keeps the invariant.
LEMMA ConsoleStep == ConsoleInv /\ [Job!Next]_Job!vars => ConsoleInv'
<1> SUFFICES ASSUME ConsoleInv, [Job!Next]_Job!vars PROVE ConsoleInv'
  OBVIOUS
<1>1. Job!ConsoleTypeOK'
  BY SetStateKeepsTypes, ConsoleKeepsTypes, OthersKeepTypes DEF ConsoleInv
<1>2. (OverIsBeingClosed /\ NoWayBack /\ MatchedIsReported)'
  BY SetStateKeepsInv, ConsoleKeepsInv, OthersKeepInv
<1> QED
  BY <1>1, <1>2 DEF ConsoleInv

\* session_init() made a console that no thread acts upon yet.
LEMMA ConsoleInit == Job!Init => ConsoleInv
<1> SUFFICES ASSUME Job!Init PROVE ConsoleInv
  OBVIOUS
<1> USE DEF Job!Init, Job!Threads, Job!Idle, Job!CREATED, Job!ACTIVE, Job!DUT_DONE,
    Job!TEAR_DOWN, Job!OVER
<1>1. op \in [Job!Threads -> [step : Job!SetStateSteps, target : Job!States]]
  BY DEF Job!SetStateSteps, Job!States
<1>2. Job!ConsoleTypeOK
  BY <1>1 DEF Job!ConsoleTypeOK, Job!States
<1>3. OverIsBeingClosed /\ NoWayBack /\ MatchedIsReported
  BY DEF OverIsBeingClosed, NoWayBack, MatchedIsReported, Job!Calling
<1> QED
  BY <1>2, <1>3 DEF ConsoleInv

\* The invariant of a console that two threads drive.
THEOREM ConsoleCorrect == Job!Spec => []ConsoleInv
BY ConsoleInit, ConsoleStep, PTL DEF Job!Spec

\* What JobConsoleState says is what its instance in JobConsole says.
LEMMA SameState ==
  /\ Job!ConsoleTypeOK <=> ConsoleTypeOK
  /\ Job!OverMeansClosed <=> OverMeansClosed
  /\ Job!MatchedEndIsSeen <=> MatchedEndIsSeen
<1> USE DEF Job!Threads, Threads, Job!CREATED, CREATED, Job!ACTIVE, ACTIVE, Job!DUT_DONE, DUT_DONE,
        Job!OVER, OVER, Job!Calling, Calling
<1>1. Job!ConsoleTypeOK <=> ConsoleTypeOK
  BY DEF Job!ConsoleTypeOK, ConsoleTypeOK, Job!States, States, Job!SetStateSteps, SetStateSteps
<1>2. Job!OverMeansClosed <=> OverMeansClosed
  BY DEF Job!OverMeansClosed, OverMeansClosed, Job!SaladGone, SaladGone, Job!ClientGone, ClientGone
<1>3. Job!MatchedEndIsSeen <=> MatchedEndIsSeen
  BY DEF Job!MatchedEndIsSeen, MatchedEndIsSeen, Job!ConsoleAt, ConsoleAt, Job!state, state
<1> QED
  BY <1>1, <1>2, <1>3

\* Every attribute of the console keeps its type; no call of set_state() goes to
\* CREATED, for which it has no effect to apply.
THEOREM ConsoleTypeCorrect == Job!Spec => []ConsoleTypeOK
<1>1. ConsoleInv => ConsoleTypeOK
  BY SameState DEF ConsoleInv
<1> QED
  BY <1>1, ConsoleCorrect, PTL

\* Whatever the two threads overwrite, a console that stays OVER is disconnected from
\* SALAD and from its client.
THEOREM OverIsClosed == Job!Spec => []OverMeansClosed
<1>1. ConsoleInv => Job!OverMeansClosed
  BY DEF ConsoleInv, OverIsBeingClosed, Job!OverMeansClosed, Job!Calling
<1>2. Job!OverMeansClosed => OverMeansClosed
  BY SameState
<1> QED
  BY <1>1, <1>2, ConsoleCorrect, PTL

\* Whatever the two threads overwrite, an end of session that was matched is not lost:
\* the console thread does not wait for more output before it shows.
THEOREM MatchedEndIsNotLost == Job!Spec => []MatchedEndIsSeen
<1>1. ConsoleInv => Job!MatchedEndIsSeen
  BY DEF ConsoleInv, Job!ConsoleTypeOK, Job!States, MatchedIsReported, Job!MatchedEndIsSeen,
     Job!ConsoleAt, Job!state,
         Job!CREATED, Job!ACTIVE, Job!DUT_DONE, Job!OVER
<1>2. Job!MatchedEndIsSeen => MatchedEndIsSeen
  BY SameState
<1> QED
  BY <1>1, <1>2, ConsoleCorrect, PTL
=============================================================================
