-------------------------------- MODULE Salad --------------------------------
(***************************************************************************)
(* SALAD (salad.py, tcpserver.py, console.py, app.py) relays the consoles  *)
(* of the test machines, serial devices and TCP netconsoles, to executors. *)
(* One thread serves all the sockets in rounds: it notes the file          *)
(* descriptors there are, selects the ready ones, and serves these one     *)
(* after another, by which time they may not be what they were.  The       *)
(* threads of the REST API make relays (SerialConsoleTCPServer) meanwhile. *)
(*                                                                         *)
(* An executor here is one connection: the REST request for the port of a  *)
(* machine, then the socket (JobConsole.connect_to_salad()).               *)
(***************************************************************************)
EXTENDS Naturals, FiniteSets

CONSTANTS
  Machines, Executors,
  Serials, Nets,      \* the serial devices and the netconsoles
  None,
  MaxRelays,          \* bound: relays made
  MaxChunks,          \* bound: reads from consoles
  MaxInputs           \* bound: executors that type or do not read

ASSUME NoneAssumption == None \notin Executors /\ None \notin Machines
ASSUME BoundsAssumption == MaxRelays \in Nat /\ MaxChunks \in Nat /\ MaxInputs \in Nat

Consoles == Serials \cup Nets
Relays == 1 .. MaxRelays

VARIABLES
  machine,    \* executor |-> the machine whose console it wants
  rest,       \* executor |-> its REST request and connection
  port,       \* executor |-> the relay whose port it was told, 0 for none
  ended,      \* executors that closed their end
  deaf,       \* executors that do not read: their socket is full
  typed,      \* executors that sent something that is not read yet
  of,         \* relay |-> its machine, None if it is not made yet
  machines,   \* Salad._machines: machine |-> relay, 0 for none
  client,     \* relay |-> SerialConsoleTCPServer.client, None for none
  stream,     \* console |-> "out", "connecting", "open" or "closed"
  id,         \* console |-> ConsoleStream.machine_id
  input,      \* console |-> what the next read returns, None for nothing
  events,     \* how often a console printed, an executor typed or stopped reading
  spc,        \* the SALAD thread
  fds,        \* the file descriptors of the round: to select, then to serve
  relaying,   \* the machine that is sent a chunk
  fresh       \* executors accepted in this round

executors == <<machine, rest, port>>
sockets == <<ended, deaf, typed>>
consoles == <<stream, id, input, events>>
relays == <<of, machines, client>>
thread == <<spc, fds, relaying, fresh>>
vars == <<executors, sockets, consoles, relays, thread>>

\* What a read of a console returns: text; text with an announcement of the
\* machine ("SALAD.machine_id="); an exception; nothing.
Chunks == {"text", "raises", "empty"} \cup Machines
Fds == {"serial"} \X Serials \cup {"server"} \X Relays \cup {"client"} \X Relays
         \cup {"net"} \X Nets \cup {<<"netserver", 0>>}

TypeOK ==
  /\ machine \in [Executors -> Machines]
  /\ rest \in [Executors -> {"out", "creating", "told", "queued", "connected", "refused", "lost", "over"}]
  /\ port \in [Executors -> 0 .. MaxRelays]
  /\ ended \subseteq Executors /\ deaf \subseteq Executors /\ typed \subseteq Executors
  /\ of \in [Relays -> Machines \cup {None}]
  /\ machines \in [Machines -> 0 .. MaxRelays]
  /\ client \in [Relays -> Executors \cup {None}]
  /\ stream \in [Consoles -> {"out", "connecting", "open", "closed"}]
  /\ id \in [Consoles -> Machines \cup {None}]
  /\ input \in [Consoles -> Chunks \cup {None}]
  /\ events \in [chunks : 0 .. MaxChunks, inputs : 0 .. MaxInputs]
  /\ spc \in {"select", "serve", "create", "send", "recv", "write", "dead", "no ports"}
  /\ fds \subseteq Fds /\ relaying \in Machines \cup {None} /\ fresh \subseteq Executors
  /\ \A k \in Relays : client[k] # None =>
       of[k] = machine[client[k]] /\ rest[client[k]] = "connected"
  /\ \A m \in Machines : machines[m] # 0 => of[machines[m]] = m

Init ==
  /\ machine \in [Executors -> Machines]
  /\ \E e \in Executors : machine[e] = CHOOSE m \in Machines : TRUE    \* by symmetry
  /\ rest = [e \in Executors |-> "out"] /\ port = [e \in Executors |-> 0]
  /\ ended = {} /\ deaf = {} /\ typed = {}
  /\ of = [k \in Relays |-> None] /\ machines = [m \in Machines |-> 0]
  /\ client = [k \in Relays |-> None]
  /\ stream = [c \in Consoles |-> IF c \in Serials THEN "connecting" ELSE "out"]
  /\ id = [c \in Consoles |-> None]
  /\ input = [c \in Consoles |-> None] /\ events = [chunks |-> 0, inputs |-> 0]
  /\ spc = "select" /\ fds = {} /\ relaying = None /\ fresh = {}

-----------------------------------------------------------------------------
(* get_or_create_machine(): the check and the creation are two steps, of    *)
(* the SALAD thread and of the threads of the REST API.                     *)

NextRelay == Cardinality({k \in Relays : of[k] # None}) + 1
Create(m) ==
  /\ NextRelay \in Relays
  /\ of' = [of EXCEPT ![NextRelay] = m]
  /\ machines' = [machines EXCEPT ![m] = NextRelay]
  /\ client' = client

\* GET /api/v1/machine/<machine_id>
Get(e) ==
  LET k == machines[machine[e]] IN
  /\ rest[e] = "out"
  /\ rest' = [rest EXCEPT ![e] = IF k = 0 THEN "creating" ELSE "told"]
  /\ port' = [port EXCEPT ![e] = k]
  /\ UNCHANGED <<machine, sockets, consoles, relays, thread>>

\* A new key in _machines while the SALAD thread goes through it raises there,
\* where nothing catches it.
GetCreates(e) ==
  /\ rest[e] = "creating"
  /\ Create(machine[e])
  /\ rest' = [rest EXCEPT ![e] = "told"] /\ port' = [port EXCEPT ![e] = NextRelay]
  /\ \/ spc' = spc
     \/ /\ spc = "select" /\ machines[machine[e]] = 0
        /\ \E m \in Machines : machines[m] # 0
        /\ spc' = "dead"
  /\ UNCHANGED <<machine, sockets, consoles, fds, relaying, fresh>>

\* The executor connects; the port of a replaced relay is closed.
Connect(e) ==
  /\ rest[e] = "told"
  /\ rest' = [rest EXCEPT ![e] = IF machines[machine[e]] = port[e] THEN "queued" ELSE "lost"]
  /\ UNCHANGED <<machine, port, sockets, consoles, relays, thread>>

\* What it does with the connection; a connection that is over is forgotten.
Input == events.inputs < MaxInputs /\ events' = [events EXCEPT !.inputs = @ + 1]
Open(e) == rest[e] \in {"queued", "connected"} /\ e \notin ended
Forget(over) ==
  /\ ended' = ended \ over /\ deaf' = deaf \ over /\ typed' = typed \ over
  /\ port' = [e \in Executors |-> IF e \in over THEN 0 ELSE port[e]]
Type(e) ==
  /\ Open(e) /\ e \notin typed /\ typed' = typed \cup {e} /\ Input
  /\ UNCHANGED <<executors, ended, deaf, stream, id, input, relays, thread>>
\* The executor stops reading: what it forwards to is full in its turn.
Clog(e) ==
  /\ Open(e) /\ e \notin deaf /\ deaf' = deaf \cup {e} /\ Input
  /\ UNCHANGED <<executors, ended, typed, stream, id, input, relays, thread>>
Close(e) ==
  /\ Open(e) /\ ended' = ended \cup {e} /\ deaf' = deaf \ {e}
  /\ UNCHANGED <<executors, typed, consoles, relays, thread>>

-----------------------------------------------------------------------------
(* The consoles.                                                            *)

\* A device is plugged in, or the netconsole of a machine connects.
Appear(c) ==
  /\ stream[c] = "out" /\ events.chunks < MaxChunks
  /\ stream' = [stream EXCEPT ![c] = "connecting"]
  /\ UNCHANGED <<executors, sockets, id, input, events, relays, thread>>

Output(c, chunk) ==
  /\ stream[c] = "open" /\ input[c] = None
  /\ events.chunks < MaxChunks /\ events' = [events EXCEPT !.chunks = @ + 1]
  /\ input' = [input EXCEPT ![c] = chunk]
  /\ UNCHANGED <<executors, sockets, stream, id, relays, thread>>

-----------------------------------------------------------------------------
(* The SALAD thread: run().                                                 *)

\* The relays that were replaced go, with their connections.
Replaced == {k \in Relays : of[k] # None /\ machines[of[k]] # k}
Queued(k) == {e \in Executors : rest[e] = "queued" /\ port[e] = k}
Readable(e) == e \in ended \cup typed

\* Mutant: the clients are served in every round.
ReadyOrClient(fd) ==
  CASE fd[1] \in {"serial", "net"} -> input[fd[2]] # None
    [] fd[1] = "server" -> Queued(fd[2]) # {}
    [] fd[1] = "client" -> TRUE
    [] OTHER -> \E n \in Nets : stream[n] = "connecting"

Ready(fd) ==
  CASE fd[1] \in {"serial", "net"} -> input[fd[2]] # None
    [] fd[1] = "server" -> Queued(fd[2]) # {}
    [] fd[1] = "client" -> Readable(client[fd[2]])
    [] OTHER -> \E n \in Nets : stream[n] = "connecting"

\* The file descriptors there are: fd_to_ser_console and the other maps.
Noted ==
  {<<"serial", s>> : s \in {c \in Serials : stream[c] = "open"}}
    \cup {<<"net", n>> : n \in {c \in Nets : stream[c] = "open"}}
    \cup {<<"server", k>> : k \in {r \in Relays : of[r] # None} \ Replaced}
    \cup {<<"client", k>> : k \in {r \in Relays : client[r] # None} \ Replaced}
    \cup {<<"netserver", 0>>}

\* fileno() of a device that was closed raises, and the thread ends; so it does when
\* comports() cannot list the devices (_update_ports()).
Closed == {c \in Consoles : stream[c] = "closed"}
Die ==
  /\ spc = "select"
  /\ \/ Closed # {} /\ spc' = "dead"
     \/ spc' = "no ports"
  /\ UNCHANGED <<executors, sockets, consoles, relays, fds, relaying, fresh>>

\* _update_ports() opens the devices that were plugged in (those that raised are
\* gone); the file descriptors are noted and select() returns the ready ones, if
\* any within a second.
Select ==
  LET lost == {e \in Executors : rest[e] \in {"queued", "connected"} /\ port[e] \in Replaced} IN
  /\ spc = "select" /\ Closed = {}
  /\ stream' = [c \in Consoles |-> IF c \in Serials /\ stream[c] = "connecting" THEN "open"
                                   ELSE stream[c]]
  /\ fds' = {fd \in Noted : Ready(fd)}
  /\ rest' = [e \in Executors |-> IF e \in lost THEN "lost" ELSE rest[e]] /\ Forget(lost)
  /\ client' = [k \in Relays |-> IF k \in Replaced THEN None ELSE client[k]]
  /\ fresh' = fresh /\ spc' = IF fds' = {} THEN "select" ELSE "serve"
  /\ UNCHANGED <<machine, id, input, events, of, machines, relaying>>

\* The ready ones are served in the order in which they were given to select().
Rank == [serial |-> 1, server |-> 2, client |-> 3, net |-> 4, netserver |-> 5]
First(fd) == fd \in fds /\ \A other \in fds : Rank[fd[1]] <= Rank[other[1]]
Served(fd, accepted) ==
  /\ fds' = fds \ {fd} /\ spc' = IF fds' = {} THEN "select" ELSE "serve"
  /\ fresh' = IF fds' = {} THEN {} ELSE fresh \cup accepted
\* The same, but the thread first waits for a console that does not take what is
\* written to it.
ServedOnceWritten(fd) == fds' = fds \ {fd} /\ spc' = "write" /\ fresh' = fresh

\* Mutant: a netconsole that ended is closed but not forgotten.
EndsClosed(c) == "closed"

\* What an empty read does: the device is closed, the netconsole also forgotten;
\* and what an exception does: the device is gone (and dropped by _update_ports()),
\* a connection that is reset is closed, and after a broken pipe it is kept.
Ends(c) == IF c \in Nets THEN "out" ELSE "closed"
Raises(c) == {"out"} \cup (IF c \in Nets THEN {"open"} ELSE {})

\* A console: recv() notes the machine that is announced and answers to a ping, then
\* the whole chunk goes to the machine of the console, if it is known.
Relay(m) == IF machines[m] = 0 THEN "create" ELSE "send"
ServeConsole(c) ==
  LET fd == <<IF c \in Serials THEN "serial" ELSE "net", c>>
      m == IF input[c] \in Machines THEN input[c] ELSE id[c]
  IN
  /\ spc = "serve" /\ First(fd)
  /\ input' = [input EXCEPT ![c] = None]
  /\ \/ /\ input[c] = "empty" /\ Served(fd, {}) /\ relaying' = relaying
        /\ stream' = [stream EXCEPT ![c] = Ends(c)] /\ id' = [id EXCEPT ![c] = None]
     \/ /\ input[c] = "raises" /\ Served(fd, {}) /\ relaying' = relaying
        /\ \E s \in Raises(c) :
             /\ stream' = [stream EXCEPT ![c] = s]
             /\ id' = IF s = "out" THEN [id EXCEPT ![c] = None] ELSE id
     \/ /\ input[c] \in {"text"} \cup Machines
        /\ id' = [id EXCEPT ![c] = m] /\ stream' = stream
        /\ relaying' = m
        /\ \/ ServedOnceWritten(fd)
           \/ m = None /\ Served(fd, {})
           \/ m # None /\ fds' = fds \ {fd} /\ fresh' = fresh /\ spc' = Relay(m)
  /\ UNCHANGED <<executors, sockets, events, relays>>

\* get_or_create_machine(), called by the SALAD thread.
SaladCreates ==
  /\ spc = "create" /\ Create(relaying) /\ spc' = "send"
  /\ UNCHANGED <<executors, sockets, consoles, fds, relaying, fresh>>

\* SerialConsoleTCPServer.close_client()
CloseClient(k) ==
  /\ client' = [client EXCEPT ![k] = None]
  /\ rest' = [rest EXCEPT ![client[k]] = "over"]
  /\ Forget({client[k]})

\* send(): waits for a client that does not read; closes one that is gone, which
\* the first send() after its end does not notice yet.
Send ==
  LET k == machines[relaying]
      e == client[k]
  IN
  /\ spc = "send"
  /\ e \notin deaf
  /\ \/ UNCHANGED <<client, rest, port, sockets>>
     \/ e \in ended /\ CloseClient(k)
  /\ relaying' = None /\ spc' = IF fds = {} THEN "select" ELSE "serve"
  /\ fresh' = IF fds = {} THEN {} ELSE fresh
  /\ UNCHANGED <<machine, consoles, of, machines, fds>>

\* Mutant: a new connection takes the place of the client.
AcceptReplaces(k) ==
  /\ spc = "serve" /\ First(<<"server", k>>)
  /\ \E e \in Queued(k) :
       /\ rest' = [rest EXCEPT ![e] = "connected"] /\ client' = [client EXCEPT ![k] = e]
       /\ Served(<<"server", k>>, {e})
  /\ UNCHANGED <<machine, port, sockets, consoles, of, machines, relaying>>

\* accept(): a second client is told to re-try later.
Accept(k) ==
  /\ spc = "serve" /\ First(<<"server", k>>)
  /\ \E e \in Queued(k) :
       IF client[k] = None
       THEN /\ rest' = [rest EXCEPT ![e] = "connected"] /\ client' = [client EXCEPT ![k] = e]
            /\ Served(<<"server", k>>, {e}) /\ UNCHANGED <<sockets, port>>
       ELSE /\ rest' = [rest EXCEPT ![e] = "refused"] /\ Forget({e})
            /\ Served(<<"server", k>>, {}) /\ client' = client
  /\ UNCHANGED <<machine, consoles, of, machines, relaying>>

\* What was typed is sent to the console of the machine (find_console_listener()), if
\* there is one; nothing means that the client closed its end.
Recv(k) ==
  CASE client[k] = None -> UNCHANGED <<client, rest, port, sockets>>
    [] client[k] \in typed -> typed' = typed \ {client[k]} /\ UNCHANGED <<client, rest, port, ended, deaf>>
    [] OTHER -> CloseClient(k)
RecvAndSend(k) ==
  /\ Recv(k)
  /\ \/ Served(<<"client", k>>, {})
     \/ /\ client[k] \in typed /\ \E c \in Consoles : id[c] = of[k]
        /\ ServedOnceWritten(<<"client", k>>)

\* The input of a client: recv() is of the client the relay has by now, if any,
\* and waits for it to send something.
ServeClient(k) ==
  LET e == client[k] IN
  /\ spc = "serve" /\ First(<<"client", k>>)
  /\ IF e = None \/ Readable(e)
     THEN RecvAndSend(k)
     ELSE spc' = "recv" /\ UNCHANGED <<sockets, rest, port, client, fds, fresh>>
  /\ UNCHANGED <<machine, consoles, of, machines, relaying>>

\* The thread waits in recv() for the client of relay k.
Received(k) ==
  /\ spc = "recv" /\ First(<<"client", k>>) /\ Readable(client[k])
  /\ RecvAndSend(k)
  /\ UNCHANGED <<machine, consoles, of, machines, relaying>>

\* The console takes what is written, or its end makes the write fail.
Written ==
  /\ spc = "write"
  /\ spc' = IF relaying # None THEN Relay(relaying) ELSE IF fds = {} THEN "select" ELSE "serve"
  /\ fresh' = IF spc' = "select" THEN {} ELSE fresh
  /\ UNCHANGED <<executors, sockets, consoles, relays, fds, relaying>>

NetAccept ==
  /\ spc = "serve" /\ First(<<"netserver", 0>>)
  /\ \E n \in Nets : stream[n] = "connecting" /\ stream' = [stream EXCEPT ![n] = "open"]
  /\ Served(<<"netserver", 0>>, {})
  /\ UNCHANGED <<executors, sockets, id, input, events, relays, relaying>>

-----------------------------------------------------------------------------
Run ==
  \/ Die \/ Select \/ SaladCreates \/ Send \/ NetAccept
  \/ \E c \in Consoles : ServeConsole(c)
  \/ \E k \in Relays : Accept(k) \/ ServeClient(k) \/ Received(k)

Next ==
  \/ Run \/ Written
  \/ \E e \in Executors : Get(e) \/ GetCreates(e) \/ Connect(e) \/ Type(e) \/ Clog(e) \/ Close(e)
  \/ \E c \in Consoles : Appear(c) \/ \E chunk \in Chunks : Output(c, chunk)

\* The thread and the REST requests go on; nobody has to type, read or close, and no
\* machine has to take what is written to its console.
Spec ==
  /\ Init /\ [][Next]_vars /\ WF_vars(Run)
  /\ \A e \in Executors : WF_vars(GetCreates(e)) /\ WF_vars(Connect(e))

-----------------------------------------------------------------------------
(* Properties.                                                              *)

\* SALAD gives up the connection of an executor only after the executor closed
\* it, or as the relay was replaced by another one made for the same machine:
\* never for a second executor, and never for what a late or stale file
\* descriptor of the round stands for.
SessionKept ==
  [][\A k \in Relays : client[k] # None /\ client'[k] # client[k]
       => client[k] \in ended \/ k \in Replaced]_vars

\* When the thread waits for the input of a client, and with it every console,
\* the client is one it accepted in this round: in the place of one whose end
\* made both it and the relay's file descriptor ready.
WaitsOnlyForANewcomer ==
  spc = "recv" => \E k \in Relays : First(<<"client", k>>) /\ client[k] \in fresh

\* An executor that connected is accepted, refused or cut off, and once it ends
\* its place is free again, unless the thread waits for a client or a console for
\* good, or ended; and it ends only of devices that could not be listed, of a serial
\* device that was closed, or of a machine added while it was counting them: never of
\* what happens to netconsoles and clients.
TablesBroken ==
  \/ \E s \in Serials : stream[s] = "closed"
  \/ Cardinality({m \in Machines : machines[m] # 0}) > 1
Stalled ==
  \/ spc = "dead" /\ TablesBroken
  \/ spc \in {"no ports", "recv", "write"}
  \/ spc = "send" /\ client[machines[relaying]] \in deaf
ServesEveryone ==
  \A e \in Executors :
    /\ (rest[e] = "queued") ~> (rest[e] # "queued" \/ []Stalled)
    /\ (e \in ended) ~> (e \notin ended \/ []Stalled)
=============================================================================
