----------------------------- MODULE JobConsole -----------------------------
(***************************************************************************)
(* JobConsole (executor.py): the console thread relays the DUT's console   *)
(* from SALAD to the client of the job, and shares the JobConsoleState     *)
(* with the Executor thread.  Both threads call set_state() without a      *)
(* lock: what it reads may be stale by the time it writes.                 *)
(*                                                                         *)
(* Whatever either of them logs is sent to the client.                     *)
(*                                                                         *)
(* The specification starts where Executor.session_init() started the      *)
(* thread, and ends where session_end() closed the console.                *)
(***************************************************************************)
EXTENDS JobConsoleState

calls == <<op, raised>>
sockets == <<salad_sock, client_sock>>
peers == <<salad_peer, client_peer>>
vars == <<_state, client_version, calls, cpc, rlist, epc, sockets, peers, matched, notified>>

Idle == [step |-> "idle", target |-> CREATED]

\* JobConsole() connected to SALAD and start() to the client; the thread starts.
Init ==
  /\ _state = CREATED
  /\ client_version \in BOOLEAN
  /\ op = [t \in Threads |-> Idle] /\ raised = [t \in Threads |-> FALSE]
  /\ cpc = "start" /\ rlist = {} /\ epc = "boot"
  /\ salad_sock = "open" /\ client_sock = IF client_version THEN "open" ELSE "closed"
  /\ salad_peer = "open" /\ client_peer = IF client_version THEN "open" ELSE "closed"
  /\ matched = FALSE /\ notified = FALSE

-----------------------------------------------------------------------------
(* set_state(), called by thread t.                                         *)

Call(t, target) == op' = [op EXCEPT ![t] = [step |-> "check", target |-> target]]
Proceed(t, step) == op' = [op EXCEPT ![t].step = step]
Return(t) == op' = [op EXCEPT ![t] = Idle]

\* Compare with the current state: refuse to go back, ignore a repetition.
SetStateCheck(t) ==
  /\ op[t].step = "check"
  /\ IF op[t].target > _state THEN Proceed(t, "write") ELSE Return(t)
  /\ raised' = [raised EXCEPT ![t] = op[t].target < _state]
  /\ UNCHANGED <<_state, client_version, cpc, rlist, epc, sockets, peers, matched, notified>>

SetStateWrite(t) ==
  /\ op[t].step = "write"
  /\ _state' = op[t].target
  /\ Proceed(t, "effect")
  /\ UNCHANGED <<client_version, raised, cpc, rlist, epc, sockets, peers, matched, notified>>

\* Mutant: the closed socket is forgotten, and its file number cannot be asked for.
CloseClientForget == client_sock' = "none"

\* close_salad() and close_client(): shutdown(), then close().  A connection the peer
\* reset makes shutdown() raise, and close() is skipped.
CloseSalad == salad_sock' \in {"closed"} \cup (IF salad_peer = "closed" THEN {salad_sock} ELSE {})
CloseClient == client_sock' \in {"closed"} \cup (IF client_peer = "closed" THEN {client_sock} ELSE {})

\* Mutant: OVER does not close the connection to the client.
SetStateEffectKeepClient(t) ==
  /\ op[t].step = "effect" /\ ~SendBlocks
  /\ CASE op[t].target = ACTIVE -> Return(t) /\ UNCHANGED sockets
       [] op[t].target = DUT_DONE ->
            /\ IF client_version THEN Return(t) ELSE Call(t, OVER)
            /\ UNCHANGED sockets
       [] op[t].target = TEAR_DOWN ->
            /\ CloseSalad /\ UNCHANGED client_sock
            /\ IF client_version THEN Proceed(t, "notify") ELSE Return(t)
       [] op[t].target = OVER ->
            CloseSalad /\ UNCHANGED client_sock /\ Return(t)
  /\ UNCHANGED <<_state, client_version, raised, cpc, rlist, epc, peers, matched, notified>>

\* Log the transition, then do what the new state entails.
SetStateEffect(t) ==
  /\ op[t].step = "effect" /\ ~SendBlocks
  /\ CASE op[t].target = ACTIVE -> Return(t) /\ UNCHANGED sockets
       [] op[t].target = DUT_DONE ->
            /\ IF client_version THEN Return(t) ELSE Call(t, OVER)
            /\ UNCHANGED sockets
       [] op[t].target = TEAR_DOWN ->
            /\ CloseSalad /\ UNCHANGED client_sock
            /\ IF client_version THEN Proceed(t, "notify") ELSE Return(t)
       [] op[t].target = OVER ->
            CloseSalad /\ CloseClient /\ Return(t)
  /\ UNCHANGED <<_state, client_version, raised, cpc, rlist, epc, peers, matched, notified>>

\* TEAR_DOWN: create the client's credentials and notify it, then shut down our side.
\* A connection that is gone (any OSError) is ignored, another exception is raised.
SetStateNotify(t) ==
  /\ op[t].step = "notify" /\ ~SendBlocks
  /\ Return(t)
  /\ \/ /\ notified' \in {notified, notified \/ client_sock = "open"}
        /\ client_sock' = IF client_sock = "open" THEN "shut" ELSE client_sock
        /\ UNCHANGED raised
     \/ /\ raised' = [raised EXCEPT ![t] = TRUE]
        /\ UNCHANGED <<notified, client_sock>>
  /\ UNCHANGED <<_state, client_version, cpc, rlist, epc, salad_sock, peers, matched>>

SetState(t) == SetStateCheck(t) \/ SetStateWrite(t) \/ SetStateEffect(t) \/ SetStateNotify(t)

-----------------------------------------------------------------------------
(* The console thread.  It is between two calls when op is idle.            *)

ConsoleStart ==
  /\ ConsoleAt("start")
  /\ Call("console", ACTIVE)
  /\ cpc' = "started"
  /\ UNCHANGED <<_state, client_version, raised, rlist, epc, sockets, peers, matched, notified>>

\* The thread dies of set_state(ACTIVE), if that raised.
ConsoleStarted ==
  /\ ConsoleAt("started")
  /\ cpc' = IF raised["console"] THEN "dead" ELSE "test"
  /\ UNCHANGED <<_state, client_version, calls, rlist, epc, sockets, peers, matched, notified>>

\* The loop's test, and the choice of the sockets.
ConsoleTest ==
  /\ ConsoleAt("test")
  /\ IF state = OVER
       THEN cpc' = "dead" /\ UNCHANGED rlist
       ELSE /\ cpc' = "fileno"
            /\ rlist' = {s \in {"salad", "client"} :
                         IF s = "salad" THEN state < TEAR_DOWN ELSE client_version}
  /\ UNCHANGED <<_state, client_version, calls, epc, sockets, peers, matched, notified>>

Closed(s) == IF s = "salad" THEN salad_sock = "closed" ELSE client_sock = "closed"

\* "Found a negative fd, aborting!", and select() raises.
ConsoleFileno ==
  /\ ConsoleAt("fileno")
  /\ IF \E s \in rlist : Closed(s)
       THEN ~SendBlocks /\ Call("console", OVER) /\ cpc' = "dying"
       ELSE cpc' = "select" /\ UNCHANGED op
  /\ UNCHANGED <<_state, client_version, raised, rlist, epc, sockets, peers, matched, notified>>

ConsoleDies ==
  /\ ConsoleAt("dying")
  /\ cpc' = "dead"
  /\ UNCHANGED <<_state, client_version, calls, rlist, epc, sockets, peers, matched, notified>>

\* A peer that is gone makes its socket readable.
Hangup(s) == IF s = "salad" THEN salad_peer = "closed" ELSE client_peer = "closed"

\* select() returns the readable sockets, after 1 s at most, or raises if one of them
\* was closed since its number was read.
ConsoleSelect ==
  /\ ConsoleAt("select")
  /\ \/ /\ \E s \in rlist : Closed(s)
        /\ cpc' = "dead"
        /\ UNCHANGED rlist
     \/ /\ rlist' \in {ready \in SUBSET rlist : \A s \in rlist : Hangup(s) => s \in ready}
        /\ cpc' = "serve"
  /\ UNCHANGED <<_state, client_version, calls, epc, sockets, peers, matched, notified>>

\* The loop over rlist: SALAD's socket comes first, and one that is closed by now is
\* not recognised any more.
Serving(s) ==
  /\ ConsoleAt("serve")
  /\ s \in rlist /\ (s = "client" => "salad" \notin rlist)
  /\ rlist' = rlist \ {s}

ConsoleServed ==
  /\ ConsoleAt("serve") /\ rlist = {}
  /\ cpc' = "test"
  /\ UNCHANGED <<_state, client_version, calls, rlist, epc, sockets, peers, matched, notified>>

ConsoleSkip ==
  /\ \E s \in rlist : Serving(s) /\ Closed(s)
  /\ UNCHANGED <<_state, client_version, calls, cpc, epc, sockets, peers, matched, notified>>

\* SALAD sent some output of the machine.
ConsoleOutput ==
  /\ Serving("salad") /\ ~Closed("salad") /\ ~Hangup("salad")
  /\ cpc' = "match"
  /\ UNCHANGED <<_state, client_version, calls, epc, sockets, peers, matched, notified>>

\* SALAD closed its end: the DUT is done ...
ConsoleSaladEof ==
  /\ Serving("salad") /\ ~Closed("salad") /\ Hangup("salad")
  /\ Call("console", DUT_DONE)
  /\ cpc' = "eof"
  /\ UNCHANGED <<_state, client_version, raised, epc, sockets, peers, matched, notified>>

\* ... and the empty output is forwarded, unless set_state() raised.
ConsoleEof ==
  /\ ConsoleAt("eof")
  /\ cpc' = IF raised["console"] THEN "serve" ELSE "forward"
  /\ UNCHANGED <<_state, client_version, calls, rlist, epc, sockets, peers, matched, notified>>

\* Match the console patterns, line by line.
ConsoleMatch ==
  /\ ConsoleAt("match")
  /\ matched' \in {matched, TRUE}
  /\ cpc' = "forward"
  /\ UNCHANGED <<_state, client_version, calls, rlist, epc, sockets, peers, notified>>

\* Forward the output to the client.  A connection that is gone closes the console.
ConsoleForward ==
  /\ ConsoleAt("forward")
  /\ \/ /\ client_version => client_sock = "open" /\ ~SendBlocks
        /\ cpc' = "ended"
        /\ UNCHANGED op
     \/ /\ client_version /\ (client_sock # "open" \/ client_peer = "closed")
        /\ Call("console", OVER)
        /\ cpc' = "serve"
  /\ UNCHANGED <<_state, client_version, raised, rlist, epc, sockets, peers, matched, notified>>

\* Mutant: only SALAD's end of file ends the session.
ConsoleEndedIgnored ==
  /\ ConsoleAt("ended")
  /\ cpc' = "serve"
  /\ UNCHANGED <<_state, client_version, calls, rlist, epc, sockets, peers, matched, notified>>

\* Close the session if it ended.
ConsoleEnded ==
  /\ ConsoleAt("ended")
  /\ IF matched THEN Call("console", DUT_DONE) ELSE UNCHANGED op
  /\ cpc' = "serve"
  /\ UNCHANGED <<_state, client_version, raised, rlist, epc, sockets, peers, matched, notified>>

\* The client closed its end.
ConsoleClientEof ==
  /\ Serving("client") /\ ~Closed("client") /\ Hangup("client")
  /\ Call("console", OVER)
  /\ UNCHANGED <<_state, client_version, raised, cpc, epc, sockets, peers, matched, notified>>

\* The client sent input for the machine.  A SALAD that is gone is logged, and closes
\* the console.
ConsoleClientInput ==
  /\ Serving("client") /\ ~Closed("client") /\ ~Hangup("client")
  /\ \/ salad_sock = "open" /\ ~SaladBlocks /\ UNCHANGED op
     \/ /\ salad_sock = "closed" \/ salad_peer = "closed"
        /\ ~SendBlocks /\ Call("console", OVER)
  /\ UNCHANGED <<_state, client_version, raised, cpc, epc, sockets, peers, matched, notified>>

Console ==
  \/ ConsoleStart \/ ConsoleStarted \/ ConsoleTest \/ ConsoleFileno \/ ConsoleDies
  \/ ConsoleSelect \/ ConsoleServed \/ ConsoleSkip
  \/ ConsoleOutput \/ ConsoleSaladEof \/ ConsoleEof \/ ConsoleMatch
  \/ ConsoleForward \/ ConsoleEnded \/ ConsoleClientEof \/ ConsoleClientInput

-----------------------------------------------------------------------------
(* The Executor thread, from execute_job() to session_end().                *)

ExecutorAt(step) == epc = step /\ ~Calling("executor")

\* The retries are exhausted, which is logged: set_state(DUT_DONE).
ExecutorAbort ==
  /\ ExecutorAt("boot") /\ ~SendBlocks
  /\ state < DUT_DONE
  /\ Call("executor", DUT_DONE)
  /\ epc' = "abort"
  /\ UNCHANGED <<_state, client_version, raised, cpc, rlist, sockets, peers, matched, notified>>

ExecutorAborted ==
  /\ ExecutorAt("abort")
  /\ epc' = IF raised["executor"] THEN "close" ELSE "boot"
  /\ UNCHANGED <<_state, client_version, calls, cpc, rlist, sockets, peers, matched, notified>>

\* The boot loop is over: the DUT is done, or it timed out or was cancelled.
ExecutorBootOver ==
  /\ ExecutorAt("boot")
  /\ epc' = "over"
  /\ UNCHANGED <<_state, client_version, calls, cpc, rlist, sockets, peers, matched, notified>>

\* Tear down what is DUT_DONE, unless it was cancelled.
ExecutorOver ==
  /\ ExecutorAt("over") /\ ~SendBlocks
  /\ \/ state = DUT_DONE /\ Call("executor", TEAR_DOWN) /\ epc' = "teardown"
     \/ epc' = "close" /\ UNCHANGED op
  /\ UNCHANGED <<_state, client_version, raised, cpc, rlist, sockets, peers, matched, notified>>

ExecutorTornDown ==
  /\ ExecutorAt("teardown") /\ ~SendBlocks
  /\ epc' = IF raised["executor"] THEN "close" ELSE "client"
  /\ UNCHANGED <<_state, client_version, calls, cpc, rlist, sockets, peers, matched, notified>>

\* Wait for the client to close the connection, for infra_teardown at most.
ExecutorClientDone ==
  /\ ExecutorAt("client")
  /\ epc' = "close"
  /\ UNCHANGED <<_state, client_version, calls, cpc, rlist, sockets, peers, matched, notified>>

\* session_end(): job_console.close().
ExecutorClose ==
  /\ ExecutorAt("close")
  /\ Call("executor", OVER)
  /\ epc' = "done"
  /\ UNCHANGED <<_state, client_version, raised, cpc, rlist, sockets, peers, matched, notified>>

Executor ==
  \/ ExecutorAbort \/ ExecutorAborted \/ ExecutorBootOver \/ ExecutorOver
  \/ ExecutorTornDown \/ ExecutorClientDone \/ ExecutorClose

-----------------------------------------------------------------------------
\* The other ends: SALAD and the client may stop reading, or go away, at any time.
SaladStalls ==
  /\ salad_peer = "open"
  /\ salad_peer' = "stalled"
  /\ UNCHANGED <<_state, client_version, calls, cpc, rlist, epc, sockets, client_peer, matched, notified>>

SaladCloses ==
  /\ salad_peer # "closed"
  /\ salad_peer' = "closed"
  /\ UNCHANGED <<_state, client_version, calls, cpc, rlist, epc, sockets, client_peer, matched, notified>>

ClientStalls ==
  /\ client_peer = "open"
  /\ client_peer' = "stalled"
  /\ UNCHANGED <<_state, client_version, calls, cpc, rlist, epc, sockets, salad_peer, matched, notified>>

ClientCloses ==
  /\ client_peer # "closed"
  /\ client_peer' = "closed"
  /\ UNCHANGED <<_state, client_version, calls, cpc, rlist, epc, sockets, salad_peer, matched, notified>>

Next ==
  \/ \E t \in Threads : SetState(t)
  \/ Console \/ Executor
  \/ SaladStalls \/ SaladCloses \/ ClientStalls \/ ClientCloses

Spec == Init /\ [][Next]_vars

\* Both threads keep running, but for a send() that blocks.  Nothing is assumed of the
\* other ends: they need neither read nor hang up.
FairSpec ==
  /\ Spec
  /\ \A t \in Threads : WF_vars(SetState(t))
  /\ WF_vars(Console) /\ WF_vars(Executor)

-----------------------------------------------------------------------------
\* Whatever the two threads do to one another's state, and whatever SALAD does,
\* session_end() gets done and the console's thread and connections do not outlive
\* it.  The one thing that keeps both threads is a client that does not read any more
\* and does not hang up, while its connection is open for writing.
EventuallyReleased ==
  \/ <>[](epc = "done" /\ ~Calling("executor") /\ cpc = "dead" /\ SaladGone /\ ClientGone)
  \/ <>[]SendBlocks

-----------------------------------------------------------------------------
(* What the code says of itself and does not keep (README, Disagreements).  *)

\* While the executor waits "for the client to close the connection"
\* (executor.py:787), our end of it stays open.
ClientKeptUntilItCloses ==
  ExecutorAt("client") /\ client_sock = "closed" => client_peer = "closed"
=============================================================================
