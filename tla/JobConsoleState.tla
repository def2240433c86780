-------------------------- MODULE JobConsoleState --------------------------
(***************************************************************************)
(* The state of a JobConsole (executor.py), and what is always true of it: *)
(* the attributes that the console thread and the Executor thread share,   *)
(* and how far either of them is.  What they do is in JobConsole.          *)
(***************************************************************************)
EXTENDS Naturals

VARIABLES
  _state,         \* JobConsole._state
  client_version, \* is there a client? (None for a training, 0 for the deprecated API)
  op,             \* thread |-> the set_state() call it is in
  raised,         \* thread |-> did its last set_state() raise?
  cpc,            \* the console thread
  rlist,          \* the sockets it waits for, then the ones it has yet to serve
  epc,            \* the Executor thread
  salad_sock, client_sock,    \* our ends; "shut" for writing, then "closed"
  salad_peer, client_peer,    \* the other ends; "stalled": open, and not reading
  matched,        \* was the session_end pattern matched?
  notified        \* was SessionEndMessage sent?

Threads == {"executor", "console"}

CREATED == 0
ACTIVE == 1
DUT_DONE == 2
TEAR_DOWN == 3
OVER == 4
States == CREATED .. OVER

SetStateSteps == {"idle", "check", "write", "effect", "notify"}

\* The attributes of the console, its connections and the calls under way are of their
\* types.
ConsoleTypeOK ==
  /\ _state \in States
  /\ client_version \in BOOLEAN
  /\ op \in [Threads -> [step : SetStateSteps, target : States]]
  /\ raised \in [Threads -> BOOLEAN]
  /\ cpc \in {"start", "started", "test", "fileno", "select", "serve", "eof", "match",
               "forward", "ended", "dying", "dead"}
  /\ rlist \subseteq {"salad", "client"}
  /\ epc \in {"boot", "abort", "over", "teardown", "client", "close", "done"}
  /\ salad_sock \in {"open", "closed"} /\ client_sock \in {"open", "shut", "closed"}
  /\ salad_peer \in {"open", "stalled", "closed"}
  /\ client_peer \in {"open", "stalled", "closed"}
  /\ matched \in BOOLEAN /\ notified \in BOOLEAN

-----------------------------------------------------------------------------
\* JobConsole.state: an ACTIVE console whose thread is dead is OVER.
state == IF _state = ACTIVE /\ cpc = "dead" THEN OVER ELSE _state

\* Thread t is in set_state(); the console thread is between two calls.
Calling(t) == op[t].step # "idle"
ConsoleAt(step) == cpc = step /\ ~Calling("console")

\* A send() does not return, for as long as its peer neither reads nor hangs up and
\* our end is neither shut down nor closed: the sockets have no timeout.
SendBlocks == client_sock = "open" /\ client_peer = "stalled"
SaladBlocks == salad_sock = "open" /\ salad_peer = "stalled"

SaladGone == "closed" \in {salad_sock, salad_peer}
ClientGone == "closed" \in {client_sock, client_peer}

\* A console that is over, and that no thread is acting upon, is connected
\* neither to SALAD nor to the client.
OverMeansClosed ==
  _state = OVER /\ ~(\E t \in Threads : Calling(t)) => SaladGone /\ ClientGone

\* The console thread never goes back to waiting for output, whatever the Executor
\* thread writes meanwhile, without the end of the session it matched being visible.
MatchedEndIsSeen ==
  matched /\ (\E step \in {"test", "fileno", "select"} : ConsoleAt(step)) => state >= DUT_DONE
=============================================================================
