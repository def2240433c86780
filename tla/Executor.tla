------------------------------ MODULE Executor ------------------------------
(***************************************************************************)
(* The Executor thread of a test machine (executor.py) and the threads of  *)
(* the REST server that talk to it without a lock: start_job() of a job    *)
(* request, the cancel_job endpoint, an edit of the MaRS database.         *)
(*                                                                         *)
(* One step is what a thread does between two points where another thread  *)
(* can interfere in a way that matters.  The console of a job is reduced   *)
(* to its JobConsoleState (module JobConsole has its details), the boot    *)
(* cycles to their outcome (module BootCycle has the timeouts).  A bucket  *)
(* exists for as long as Executor.job_bucket refers to it: dropping the    *)
(* last reference runs JobBucket.__del__.                                  *)
(***************************************************************************)
EXTENDS Integers, FiniteSets

CONSTANTS
  Requests,         \* the job requests, each with its REST server thread
  VersionZero,      \* those of the deprecated API: their client_version 0 is falsy
  Environment,      \* what may happen around the executor, see Events
  BootLoopCounts, QualifyingRate, UnreadableJobs, IsAvailable   \* of SergentHartman

Events == {"concurrent", "edit", "unfit", "cancel", "stop", "failures", "unsaved",
           "stall"}

ASSUME EnvironmentAssumption == Environment \subseteq Events

VARIABLES
  pc,                                 \* the Executor thread
  state, job_config, job_console, job_bucket,
  job_ready, cancel_job, stop_event,  \* the threading.Events
  overall_expired,                    \* timeouts.overall.has_expired, of the job at hand
  console,                            \* job |-> JobConsole.state
  stalled,                            \* the clients that stopped reading, and stay
  session_ended,                      \* the job at hand matched session_end
  pdu_port,                           \* Machine.pdu_port is not None
  power, pdu_failed,                  \* of the DUT; did the last PDUPort.set() raise?
  request,                            \* request |-> its REST server thread
  canceller,                          \* the thread of the cancel_job endpoint
  taken,                              \* history: the requests a session was started for
  is_active, cur_loop, statuses, ready_for_service, registered, boots

trainer == <<is_active, cur_loop, statuses, registered, boots>>
job == <<job_config, job_console, job_bucket>>
consoles == <<console, stalled>>
events == <<job_ready, cancel_job, stop_event>>
dut == <<pdu_port, power, pdu_failed>>
flask == <<request, canceller>>
vars == <<pc, state, job, events, overall_expired, consoles, session_ended, dut,
          flask, taken, trainer, ready_for_service>>

None == "none"
TrainingJobs == {"registration", "bootloop"}
Jobs == Requests \cup TrainingJobs

\* A job request is neither a job of the training nor the absence of a job.
ASSUME RequestsAssumption == Requests \cap (TrainingJobs \cup {None}) = {}
ASSUME VersionAssumption == VersionZero \subseteq Requests
\* What SergentHartman assumes of its settings.
ASSUME TrainerAssumption ==
  /\ BootLoopCounts \in Int /\ QualifyingRate \in Int
  /\ UnreadableJobs \subseteq TrainingJobs /\ IsAvailable \in BOOLEAN

\* SergentHartman's methods, on the Executor's variables.
Sergent == INSTANCE SergentHartman WITH session <- pc

\* What SergentHartman sees of the Executor: a session lasts from the choice of
\* its job to the report, and only the jobs of a training are its business.
SessionSteps == {"wait", "console", "power_off", "start", "setup", "boot", "on", "booted",
                 "inner", "retry", "over", "teardown", "client", "end"}
SergentView == INSTANCE SergentHartman WITH
  session <- IF pc \in SessionSteps THEN "running" ELSE "init",
  job_config <- IF is_active /\ pc \in SessionSteps THEN job_config ELSE None

ConsoleStates == {"NONE", "CREATED", "ACTIVE", "DUT_DONE", "TEAR_DOWN", "OVER"}
Rank == [s \in ConsoleStates |->
  CASE s = "NONE" -> 0 [] s = "CREATED" -> 1 [] s = "ACTIVE" -> 2
    [] s = "DUT_DONE" -> 3 [] s = "TEAR_DOWN" -> 4 [] s = "OVER" -> 5]

ExecutorSteps == {"loop", "reset", "pick", "drop", "stopped"} \cup SessionSteps
RequestSteps == {"new", "bucket", "render", "console", "ready",
                 "accepted", "refused", "failed"}

TypeOK ==
  /\ pc \in ExecutorSteps
  /\ state \in {"WAIT_FOR_CONFIG", "IDLE", "TRAINING", "QUEUED", "RUNNING"}
  /\ job_config \in Jobs \cup {None}
  /\ job_console \in Jobs \cup {None}
  /\ job_bucket \in Requests \cup {None}
  /\ job_ready \in BOOLEAN /\ cancel_job \in BOOLEAN /\ stop_event \in BOOLEAN
  /\ overall_expired \in BOOLEAN /\ session_ended \in BOOLEAN
  /\ console \in [Jobs -> ConsoleStates]
  /\ stalled \subseteq Requests
  /\ pdu_port \in BOOLEAN /\ power \in {"OFF", "ON"} /\ pdu_failed \in BOOLEAN
  /\ request \in [Requests -> RequestSteps]
  /\ canceller \in {"idle", "checked"}
  /\ taken \subseteq Requests

Init ==
  /\ pc = "loop"
  /\ state = "WAIT_FOR_CONFIG"
  /\ job_config = None /\ job_console = None /\ job_bucket = None
  /\ job_ready = FALSE /\ cancel_job = FALSE /\ stop_event = FALSE
  /\ overall_expired = FALSE
  /\ console = [j \in Jobs |-> "NONE"]
  /\ stalled = {}
  /\ session_ended = FALSE
  /\ pdu_port = FALSE /\ power = "OFF" /\ pdu_failed = FALSE
  /\ request = [r \in Requests |-> "new"]
  /\ canceller = "idle"
  /\ taken = {}
  /\ ready_for_service \in BOOLEAN
  /\ is_active = FALSE /\ cur_loop = 0 /\ statuses = Sergent!NoStatuses
  /\ registered = FALSE /\ boots = Sergent!NoStatuses

-----------------------------------------------------------------------------
(* The REST server: start_job(), cancel_job_machine(), and an edited MaRS DB. *)

Goto(r, step) == request' = [request EXCEPT ![r] = step]

Live(j) == console[j] \in {"ACTIVE", "DUT_DONE", "TEAR_DOWN"}

InFlight(r) == request[r] \in {"bucket", "render", "console", "ready"}

\* The client of q is waiting for an answer, or for its job to be over.
Waiting(q) ==
  InFlight(q) \/ (request[q] = "accepted" /\ (job_console = q \/ Live(q)))

\* Mutant: start_job() trusts its caller and does not look at the state.
StartJobUnchecked(r) ==
  /\ request[r] = "new"
  /\ "concurrent" \in Environment \/ ~\E q \in Requests : Waiting(q)
  /\ Goto(r, "bucket")
  /\ UNCHANGED <<pc, state, job, events, overall_expired, consoles, session_ended,
                 dut, canceller, taken, trainer, ready_for_service>>

\* post_job() and start_job() refuse a machine that is not idle.  Unless the
\* environment is concurrent, clients wait for one another (as the jobs of the
\* machine's one GitLab runner do).
StartJobCheck(r) ==
  /\ request[r] = "new"
  /\ "concurrent" \in Environment \/ ~\E q \in Requests : Waiting(q)
  /\ Goto(r, IF state = "IDLE" THEN "bucket" ELSE "refused")
  /\ UNCHANGED <<pc, state, job, events, overall_expired, consoles, session_ended,
                 dut, canceller, taken, trainer, ready_for_service>>

\* Prepare the job bucket, and the DUT's credentials to it; either may raise.
StartJobBucket(r) ==
  /\ request[r] = "bucket"
  /\ \/ job_bucket' = r /\ Goto(r, "render")
     \/ /\ "failures" \in Environment
        /\ job_bucket' \in {r, job_bucket}
        /\ Goto(r, "failed")
  /\ UNCHANGED <<pc, state, job_config, job_console, events, overall_expired, consoles,
                 session_ended, dut, canceller, taken, trainer, ready_for_service>>

\* Render the job, which may raise, and queue it.
StartJobQueue(r) ==
  /\ request[r] = "render"
  /\ \/ state' = "QUEUED" /\ job_config' = r /\ Goto(r, "console")
     \/ /\ "failures" \in Environment
        /\ Goto(r, "failed")
        /\ UNCHANGED <<state, job_config>>
  /\ UNCHANGED <<pc, job_console, job_bucket, events, overall_expired, consoles,
                 session_ended, dut, canceller, taken, trainer, ready_for_service>>

\* JobConsole(), which connects to SALAD and may raise.
StartJobConsole(r) ==
  /\ request[r] = "console"
  /\ \/ /\ job_console' = r
        /\ console' = [console EXCEPT ![r] = "CREATED"]
        /\ Goto(r, "ready")
     \/ /\ "failures" \in Environment
        /\ Goto(r, "failed")
        /\ UNCHANGED <<job_console, console>>
  /\ UNCHANGED <<pc, state, job_config, job_bucket, events, overall_expired, stalled,
                 session_ended, dut, canceller, taken, trainer, ready_for_service>>

\* job_ready.set(), and the client gets its positive answer.
StartJobReady(r) ==
  /\ request[r] = "ready"
  /\ job_ready' = TRUE
  /\ Goto(r, "accepted")
  /\ UNCHANGED <<pc, state, job, cancel_job, stop_event, overall_expired, consoles,
                 session_ended, dut, canceller, taken, trainer, ready_for_service>>

StartJob(r) == \/ StartJobCheck(r) \/ StartJobBucket(r) \/ StartJobQueue(r)
               \/ StartJobConsole(r) \/ StartJobReady(r)

\* The cancel_job endpoint looks at the state ...
CancelCheck ==
  /\ "cancel" \in Environment
  /\ canceller = "idle"
  /\ state = "RUNNING"
  /\ canceller' = "checked"
  /\ UNCHANGED <<pc, state, job, events, overall_expired, consoles, session_ended,
                 dut, request, taken, trainer, ready_for_service>>

\* ... and then sets the event.
CancelSet ==
  /\ canceller = "checked"
  /\ canceller' = "idle"
  /\ cancel_job' = TRUE
  /\ UNCHANGED <<pc, state, job, job_ready, stop_event, overall_expired, consoles,
                 session_ended, dut, request, taken, trainer, ready_for_service>>

\* Somebody edits the machine's ready_for_service in the MaRS database.
EditReadiness ==
  /\ "edit" \in Environment
  /\ ready_for_service' = ~ready_for_service
  /\ UNCHANGED <<pc, state, job, events, overall_expired, consoles, session_ended,
                 dut, flask, taken, trainer>>

\* The machine gets its PDU port, in the database or from a discovery ...
AssignPduPort ==
  /\ ~pdu_port
  /\ pdu_port' = TRUE
  /\ UNCHANGED <<pc, state, job, events, overall_expired, consoles, session_ended,
                 power, pdu_failed, flask, taken, trainer, ready_for_service>>

\* ... and may lose it to an edit of the database.
UnassignPduPort ==
  /\ "edit" \in Environment
  /\ pdu_port
  /\ pdu_port' = FALSE
  /\ UNCHANGED <<pc, state, job, events, overall_expired, consoles, session_ended,
                 power, pdu_failed, flask, taken, trainer, ready_for_service>>

\* Machine.remove() and Mars.stop() ask the executor to stop.
Stop ==
  /\ "stop" \in Environment
  /\ ~stop_event
  /\ stop_event' = TRUE
  /\ UNCHANGED <<pc, state, job, job_ready, cancel_job, overall_expired, consoles,
                 session_ended, dut, flask, taken, trainer, ready_for_service>>

-----------------------------------------------------------------------------
(* The console thread of a job: what it does on its own to its state.       *)

\* The console talks to a client: "if self.client_version".
HasClient(j) == j \in Requests \ VersionZero

\* The machine printed the session_end pattern, or SALAD closed the connection:
\* DUT_DONE, and OVER at once for a client-less console, as that of a training.
ConsoleDutDone(j) ==
  /\ console[j] = "ACTIVE"
  /\ console' = [console EXCEPT ![j] = IF HasClient(j) THEN "DUT_DONE" ELSE "OVER"]
  /\ session_ended' \in {session_ended, session_ended \/ (j = job_config /\ power = "ON")}
  /\ UNCHANGED <<pc, state, job, events, overall_expired, stalled, dut, flask, taken,
                 trainer, ready_for_service>>

\* The client closed its connection, or an error occurred on a socket.  (An error
\* of SALAD's socket is logged first, so it waits for a client that stalled.)
ConsoleClosed(j) ==
  /\ Live(j)
  /\ console' = [console EXCEPT ![j] = "OVER"]
  /\ stalled' = stalled \ {j}
  /\ UNCHANGED <<pc, state, job, events, overall_expired, session_ended, dut, flask,
                 taken, trainer, ready_for_service>>

\* A client stops reading for good, without closing its connection, and the socket
\* buffers fill up: from now on a send() to it blocks.  (After TEAR_DOWN the write
\* side is shut down, and a send() raises instead.)
ClientStalls(r) ==
  /\ "stall" \in Environment
  /\ HasClient(r) /\ console[r] \in {"ACTIVE", "DUT_DONE"} /\ r \notin stalled
  /\ stalled' = stalled \cup {r}
  /\ UNCHANGED <<pc, state, job, events, overall_expired, console, session_ended, dut,
                 flask, taken, trainer, ready_for_service>>

\* The job's overall timeout (6 hours by default) runs out.
OverallExpires ==
  /\ pc \in {"setup", "boot", "on", "booted", "inner", "retry"}
  /\ ~overall_expired
  /\ overall_expired' = TRUE
  /\ UNCHANGED <<pc, state, job, events, consoles, session_ended, dut, flask, taken,
                 trainer, ready_for_service>>

-----------------------------------------------------------------------------
(* The Executor thread.  An exception anywhere in a session goes to "end":   *)
(* log_exception(), then session_end().                                     *)

\* Executor.log() never returns: client_sock.send() has no timeout.  A step that
\* logs is disabled for as long.
LogBlocks == job_console \in stalled

\* Executor.log() raises: the console has a client and was never started, so that
\* client_sock is None, and only an OSError is caught.
LogRaises == HasClient(job_console) /\ console[job_console] = "CREATED"

\* machine.pdu_port.set(target), after which the thread goes to next.  A call that
\* raises may have acted (the reply of the PDU got lost).
PduSet(target, next) ==
  /\ \/ pdu_port /\ power' = target /\ pdu_failed' = FALSE /\ pc' = next
     \/ ~pdu_port /\ UNCHANGED power /\ pdu_failed' = TRUE /\ pc' = "end"
     \/ /\ pdu_port /\ "failures" \in Environment
        /\ power' \in {power, target} /\ pdu_failed' = TRUE /\ pc' = "end"
  /\ UNCHANGED pdu_port

LoopExit ==
  /\ pc = "loop" /\ stop_event
  /\ pc' = "stopped"
  /\ UNCHANGED <<state, job, events, overall_expired, consoles, session_ended, dut,
                 flask, taken, trainer, ready_for_service>>

\* Mutant: while True instead of while not stop_event.is_set().
ResetConfigForever ==
  /\ pc = "loop" /\ pdu_port
  /\ job_config' = None
  /\ pc' = "reset"
  /\ UNCHANGED <<state, job_console, job_bucket, events, overall_expired, consoles,
                 session_ended, dut, flask, taken, trainer, ready_for_service>>

\* Once the machine has a PDU port, session_init() forgets the previous job ...
ResetConfig ==
  /\ pc = "loop" /\ ~stop_event /\ pdu_port
  /\ job_config' = None
  /\ pc' = "reset"
  /\ UNCHANGED <<state, job_console, job_bucket, events, overall_expired, consoles,
                 session_ended, dut, flask, taken, trainer, ready_for_service>>

\* ... and its console.
ResetConsole ==
  /\ pc = "reset"
  /\ job_console' = None
  /\ pc' = "pick"
  /\ UNCHANGED <<state, job_config, job_bucket, events, overall_expired, consoles,
                 session_ended, dut, flask, taken, trainer, ready_for_service>>

\* Not ready for service: train, if there are jobs to train with.  next_task() may
\* raise.
PickTraining ==
  /\ pc = "pick" /\ Sergent!HasToTrain
  /\ state' = "TRAINING"
  /\ \/ Sergent!NextTaskRegister
     \/ Sergent!NextTaskBoot
     \/ Sergent!NextTaskRaises
  /\ pc' = IF job_config' = None THEN "end" ELSE "console"
  /\ overall_expired' = FALSE /\ session_ended' = FALSE
  /\ UNCHANGED <<job_console, job_bucket, events, consoles, dut, flask, taken,
                 ready_for_service>>

\* JobConsole(), which connects to SALAD and may raise.
TrainingConsole ==
  /\ pc = "console"
  /\ \/ /\ job_console' = job_config
        /\ console' = [console EXCEPT ![job_config] = "CREATED"]
        /\ pc' = "power_off"
     \/ /\ "failures" \in Environment
        /\ pc' = "end"
        /\ UNCHANGED <<job_console, console>>
  /\ UNCHANGED <<state, job_config, job_bucket, events, overall_expired, stalled,
                 session_ended, dut, flask, taken, trainer, ready_for_service>>

\* Mutant: a machine that was QUEUED or RUNNING is left in that state.
PickUserJobKeepState ==
  /\ pc = "pick" /\ ~Sergent!HasToTrain
  /\ Sergent!Reset /\ Sergent!ResetHistory
  /\ state' = IF state \in {"WAIT_FOR_CONFIG", "TRAINING"} THEN "IDLE" ELSE state
  /\ pc' = "wait"
  /\ UNCHANGED <<job, events, overall_expired, consoles, session_ended, dut, flask,
                 taken, ready_for_service>>

\* Ready for service, or no training is available: wait for a job.
PickUserJob ==
  /\ pc = "pick" /\ ~Sergent!HasToTrain
  /\ Sergent!Reset /\ Sergent!ResetHistory
  /\ state' = "IDLE"
  /\ pc' = "wait"
  /\ UNCHANGED <<job, events, overall_expired, consoles, session_ended, dut, flask,
                 taken, ready_for_service>>

\* job_ready.wait(1) timed out: "No jobs for us to run!"
WaitTimeout ==
  /\ pc = "wait" /\ ~job_ready
  /\ pc' = "end"
  /\ UNCHANGED <<state, job, events, overall_expired, consoles, session_ended, dut,
                 flask, taken, trainer, ready_for_service>>

TakeJob ==
  /\ pc = "wait" /\ job_ready
  /\ job_ready' = FALSE /\ cancel_job' = FALSE
  /\ state' = "RUNNING"
  /\ overall_expired' = FALSE /\ session_ended' = FALSE
  /\ taken' = taken \cup ({job_config} \cap {job_console} \cap Requests)
  /\ pc' = "power_off"
  /\ UNCHANGED <<job, stop_event, consoles, dut, flask, trainer, ready_for_service>>

\* Cut the power to the machine, we do not need it.
PowerOff ==
  /\ pc = "power_off"
  /\ PduSet("OFF", "start")
  /\ UNCHANGED <<state, job, events, overall_expired, consoles, session_ended, flask,
                 taken, trainer, ready_for_service>>

\* job_console.start(): connect to the client, then start the console's thread.
\* A console that is gone or was started already, or a client that does not answer,
\* raises.
ConsoleStart ==
  /\ pc = "start"
  /\ \/ /\ job_console # None
        /\ console[job_console] = "CREATED"
        /\ console' = [console EXCEPT ![job_console] = "ACTIVE"]
        /\ pc' = "setup"
     \/ /\ job_console # None =>
             \/ console[job_console] # "CREATED"
             \/ HasClient(job_console) /\ "failures" \in Environment
        /\ pc' = "end"
        /\ UNCHANGED console
  /\ UNCHANGED <<state, job, events, overall_expired, stalled, session_ended, dut, flask,
                 taken, trainer, ready_for_service>>

\* execute_job(): start the overall timeout, download the artifacts, fill the bucket.
Setup ==
  /\ pc = "setup" /\ ~LogBlocks
  /\ \/ job_config # None /\ ~LogRaises /\ pc' = "boot"
     \/ (job_config = None \/ LogRaises \/ "failures" \in Environment) /\ pc' = "end"
  /\ UNCHANGED <<state, job, events, overall_expired, consoles, session_ended, dut,
                 flask, taken, trainer, ready_for_service>>

DutDone == Rank[console[job_console]] >= Rank["DUT_DONE"]

\* The test of the boot loop, then "Make sure the machine shuts down".
Boot ==
  /\ pc = "boot"
  /\ IF stop_event \/ cancel_job \/ overall_expired \/ DutDone
       THEN pc' = "over" /\ UNCHANGED dut
       ELSE PduSet("OFF", "on")
  /\ UNCHANGED <<state, job, events, overall_expired, consoles, session_ended, flask,
                 taken, trainer, ready_for_service>>

\* Set up the boot configuration, tell the client and power up the machine.
PowerOn ==
  /\ pc = "on" /\ ~LogBlocks
  /\ IF LogRaises THEN pc' = "end" /\ UNCHANGED dut ELSE PduSet("ON", "booted")
  /\ UNCHANGED <<state, job, events, overall_expired, consoles, session_ended, flask,
                 taken, trainer, ready_for_service>>

\* "Boot the machine": tell the client, and start the timeouts of the boot.
BootStarted ==
  /\ pc = "booted" /\ ~LogBlocks
  /\ pc' = IF LogRaises THEN "end" ELSE "inner"
  /\ UNCHANGED <<state, job, events, overall_expired, consoles, session_ended, dut, flask,
                 taken, trainer, ready_for_service>>

\* Mutant: a cancellation leaves the boot loop before the power is cut.
BootOverUnlessCancelled ==
  /\ pc = "inner"
  /\ IF cancel_job THEN pc' = "retry" /\ UNCHANGED dut ELSE PduSet("OFF", "retry")
  /\ UNCHANGED <<state, job, events, overall_expired, consoles, session_ended, flask,
                 taken, trainer, ready_for_service>>

\* The machine runs until something happens (a timeout, a reboot request, the
\* end of the job, a cancellation, a stop), and its power is cut.
BootOver ==
  /\ pc = "inner"
  /\ PduSet("OFF", "retry")
  /\ UNCHANGED <<state, job, events, overall_expired, consoles, session_ended, flask,
                 taken, trainer, ready_for_service>>

\* Count and log the retries.  Once they are exhausted (always, for the overall
\* timeout), set_state(DUT_DONE), which raises if the console is already further.
Retry ==
  /\ pc = "retry" /\ ~LogBlocks
  /\ \/ ~overall_expired /\ pc' = "boot" /\ UNCHANGED console
     \/ IF LogRaises \/ Rank[console[job_console]] > Rank["DUT_DONE"]
          THEN pc' = "end" /\ UNCHANGED console
          ELSE /\ pc' = "boot"
               /\ console' = [console EXCEPT ![job_console] =
                                IF HasClient(job_console) THEN "DUT_DONE" ELSE "OVER"]
  /\ UNCHANGED <<state, job, events, overall_expired, stalled, session_ended, dut, flask,
                 taken, trainer, ready_for_service>>

\* The job finished: tear it down, unless the console is gone or the job cancelled.
\* A job may mark the machine as unfit for service.
JobFinished ==
  /\ pc = "over" /\ ~LogBlocks
  /\ IF console[job_console] = "DUT_DONE" /\ ~cancel_job
       THEN \/ pc' = "teardown" /\ UNCHANGED ready_for_service
            \/ /\ "unfit" \in Environment
               /\ ready_for_service' = FALSE
               /\ pc' \in {"teardown"} \cup (IF "unsaved" \in Environment THEN {"end"} ELSE {})
       ELSE pc' = "end" /\ UNCHANGED ready_for_service
  /\ UNCHANGED <<state, job, events, overall_expired, consoles, session_ended, dut,
                 flask, taken, trainer>>

\* set_state(TEAR_DOWN): share the bucket with the client, which may raise, as does
\* a console that is over.
TearDown ==
  /\ pc = "teardown" /\ ~LogBlocks
  /\ IF LogRaises \/ console[job_console] = "OVER"
       THEN pc' = "end" /\ UNCHANGED console
       ELSE /\ console' = [console EXCEPT ![job_console] = "TEAR_DOWN"]
            /\ \/ pc' = "client"
               \/ "failures" \in Environment /\ pc' = "end"
  /\ UNCHANGED <<state, job, events, overall_expired, stalled, session_ended, dut, flask,
                 taken, trainer, ready_for_service>>

\* The client closed its connection, or the wait for it was cut short by a
\* cancellation, a stop or the infra_teardown timeout (10 minutes by default).
ClientDone ==
  /\ pc = "client"
  /\ pc' = "end"
  /\ UNCHANGED <<state, job, events, overall_expired, consoles, session_ended, dut,
                 flask, taken, trainer, ready_for_service>>

\* The status of a job, from its console patterns.
StatusOfJob ==
  IF session_ended THEN {"PASS", "WARN", "FAIL", "COMPLETE"} ELSE {"INCOMPLETE"}

\* Mutant: the job is forgotten before it is reported about.
SessionEndForgetFirst ==
  /\ pc = "end" /\ ~LogBlocks
  /\ job_config' = None
  /\ IF is_active /\ job_config' # None
       THEN \E status \in StatusOfJob : Sergent!Report(status)
       ELSE UNCHANGED <<trainer, ready_for_service>>
  /\ IF job_console = None
       THEN pc' = "loop" /\ UNCHANGED console
       ELSE /\ console' = [console EXCEPT ![job_console] = "OVER"]
            /\ pc' = IF LogRaises THEN "loop" ELSE "drop"
  /\ UNCHANGED <<state, job_console, job_bucket, events, overall_expired, stalled,
                 session_ended, dut, flask, taken>>

\* Mutant: the console is dropped without being closed.
SessionEndWithoutClose ==
  /\ pc = "end" /\ ~LogBlocks
  /\ IF is_active /\ job_config # None
       THEN \E status \in StatusOfJob : Sergent!Report(status)
       ELSE UNCHANGED <<trainer, ready_for_service>>
  /\ job_config' = None
  /\ pc' = IF job_console = None THEN "loop" ELSE "drop"
  /\ UNCHANGED <<state, job_console, job_bucket, events, overall_expired, consoles,
                 session_ended, dut, flask, taken>>

\* log_exception() if there is one, then session_end(): report a training job,
\* forget the job and close its console, with a last message to its client.
\* Closing a console that never reached its client raises.
SessionEnd ==
  /\ pc = "end" /\ ~LogBlocks
  /\ IF is_active /\ job_config # None
       THEN \E status \in StatusOfJob : Sergent!Report(status)
       ELSE UNCHANGED <<trainer, ready_for_service>>
  /\ job_config' = None
  /\ IF job_console = None
       THEN pc' = "loop" /\ UNCHANGED console
       ELSE /\ console' = [console EXCEPT ![job_console] = "OVER"]
            /\ pc' = IF LogRaises THEN "loop" ELSE "drop"
  /\ overall_expired' = FALSE /\ session_ended' = FALSE
  /\ UNCHANGED <<state, job_console, job_bucket, events, stalled, dut, flask, taken>>

\* session_end(), when the verdict of the training cannot be applied: update_config()
\* or the saving of the database raises after ready_for_service was set.
SessionEndRaises ==
  /\ pc = "end" /\ "unsaved" \in Environment /\ ~LogBlocks
  /\ is_active /\ job_config # None
  /\ \E status \in StatusOfJob : Sergent!Report(status)
  /\ ready_for_service' # ready_for_service
  /\ pc' = "loop"
  /\ overall_expired' = FALSE /\ session_ended' = FALSE
  /\ UNCHANGED <<state, job, events, consoles, dut, flask, taken>>

\* Mutant: the bucket is deleted, and the attribute with it.
SessionDropAttribute ==
  /\ pc = "drop"
  /\ job_console' = None /\ job_bucket' = "deleted"
  /\ pc' = "loop"
  /\ UNCHANGED <<state, job_config, events, overall_expired, consoles, session_ended, dut,
                 flask, taken, trainer, ready_for_service>>

\* session_end(): drop the console, and the job's bucket.
SessionDrop ==
  /\ pc = "drop"
  /\ job_console' = None /\ job_bucket' = None
  /\ pc' = "loop"
  /\ UNCHANGED <<state, job_config, events, overall_expired, consoles, session_ended, dut,
                 flask, taken, trainer, ready_for_service>>

Run ==
  \/ LoopExit \/ ResetConfig \/ ResetConsole
  \/ PickTraining \/ TrainingConsole
  \/ PickUserJob \/ WaitTimeout \/ TakeJob
  \/ PowerOff \/ ConsoleStart \/ Setup \/ Boot \/ PowerOn \/ BootStarted \/ BootOver
  \/ Retry
  \/ JobFinished \/ TearDown \/ ClientDone
  \/ SessionEnd \/ SessionEndRaises \/ SessionDrop

Next ==
  \/ Run
  \/ \E r \in Requests : StartJob(r)
  \/ CancelCheck \/ CancelSet \/ EditReadiness \/ Stop
  \/ AssignPduPort \/ UnassignPduPort
  \/ \E j \in Jobs : ConsoleDutDone(j) \/ ConsoleClosed(j)
  \/ \E r \in Requests : ClientStalls(r)
  \/ OverallExpires

Spec == Init /\ [][Next]_vars

\* The thread is waiting for a server on the Internet, without a timeout.
Downloading == pc = "setup" /\ job_config # None

\* The thread is waiting for a client that stopped reading and does not hang up.
WaitingForClient == pc \in SessionSteps /\ LogBlocks

WaitsForOthers == Downloading \/ WaitingForClient

\* Every thread keeps running, the PDU port gets assigned, and timeouts run out.
\* A download need not end, and a client need neither read nor hang up.
FairSpec ==
  /\ Spec
  /\ WF_vars(Run /\ ~Downloading) /\ WF_vars(OverallExpires) /\ WF_vars(AssignPduPort)
  /\ \A r \in Requests : WF_vars(StartJob(r))

-----------------------------------------------------------------------------
\* The DUT is only ever powered from the start of a boot to its end, unless the PDU
\* refused to cut the power.
PoweredOnlyWhileBooting == power = "ON" /\ pc \notin {"booted", "inner"} => pdu_failed

\* What is executed is one job: its configuration, its console and its bucket.
SessionIsCoherent ==
  pc \in {"boot", "on", "booted", "inner", "retry", "over", "teardown", "client"}
    => /\ job_config = job_console
       /\ job_config \in Requests => job_bucket = job_config

\* No console outlives its session: it would hold on to the machine's only
\* SALAD connection.
NoOrphanConsole == \A j \in Jobs : Live(j) => job_console = j

\* The sessions of the executor drive SergentHartman as module SergentHartman
\* says it is driven.
DrivesSergentHartman == SergentView!Spec

\* A machine that accepted a job is eventually available again: cancellations,
\* failures and timeouts all lead there.  What does not, since nothing in the code
\* limits it, is a download that never ends or a client that never reads again.
MachineFreedAgain ==
  state \in {"QUEUED", "RUNNING"} ~>
    (state \in {"IDLE", "TRAINING"} \/ []WaitsForOthers)

\* Machine.remove() and Mars.stop() join the thread: once told to stop it ends,
\* whatever is done to it meanwhile, or it is in one of the two waits in which it
\* never looks at stop_event.
StopEndsTheThread ==
  stop_event ~> (pc = "stopped" \/ []WaitsForOthers)

-----------------------------------------------------------------------------
(* What the code says of itself and does not keep (README, Disagreements).  *)

\* A job that was accepted is not forgotten before it is started.
AcceptedJobKept ==
  \A r \in Requests : request[r] = "accepted" =>
    \/ r \in taken
    \/ job_config = r /\ job_console = r

\* A job is only queued on an idle machine ("The machine isn't idle",
\* executor.py:544).
QueuedOnlyWhenIdle == [][state' = "QUEUED" /\ state # "QUEUED" => state = "IDLE"]_vars

\* Only the job of a machine that is RUNNING can be cancelled (app.py:290).
TrainingIsNotCancelled == state = "TRAINING" => ~cancel_job
=============================================================================
