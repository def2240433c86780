--------------------------- MODULE ExecutorProofs ---------------------------
(***************************************************************************)
(* What the Executor guarantees for any number of job requests, of clients *)
(* of both versions, and whether or not there are jobs to train with.      *)
(***************************************************************************)
EXTENDS Executor, TLAPS

-----------------------------------------------------------------------------
(* Type correctness, in every environment.                                  *)

\* SergentHartman.next_task() leaves the Executor with a job of the training, or
\* with none.
LEMMA NextTaskType ==
  ASSUME \/ Sergent!NextTaskRegister
         \/ Sergent!NextTaskBoot
         \/ Sergent!NextTaskRaises
  PROVE  job_config' \in TrainingJobs \cup {None}
BY DEF Sergent!NextTaskRegister, Sergent!NextTaskBoot, Sergent!NextTaskRaises,
       Sergent!FromPath, Sergent!NoJob, TrainingJobs, None

\* A step of the Executor thread keeps every variable in its type.
LEMMA RunKeepsTypes ==
  ASSUME TypeOK, Run
  PROVE  TypeOK'
<1> USE DEF TypeOK, ExecutorSteps, SessionSteps, Jobs, job, events, dut, flask, consoles
<1>1. CASE PickTraining
  BY <1>1, NextTaskType DEF PickTraining
<1>2. CASE \/ LoopExit \/ ResetConfig \/ ResetConsole \/ PickUserJob \/ WaitTimeout
           \/ Setup \/ BootStarted \/ JobFinished \/ ClientDone \/ SessionDrop
  BY <1>2 DEF LoopExit, ResetConfig, ResetConsole, PickUserJob, WaitTimeout, Setup,
              BootStarted, JobFinished, ClientDone, SessionDrop
<1>3. CASE TakeJob
  BY <1>3 DEF TakeJob
<1>4. CASE PowerOff \/ Boot \/ PowerOn \/ BootOver
  <2>1. pdu_port' = pdu_port /\ power' \in {"OFF", "ON"} /\ pc' \in ExecutorSteps
    BY <1>4 DEF PowerOff, Boot, PowerOn, BootOver, PduSet
  <2>2. pdu_failed' \in BOOLEAN
    BY <1>4 DEF PowerOff, Boot, PowerOn, BootOver, PduSet
  <2>3. UNCHANGED <<state, job, events, overall_expired, consoles, session_ended, flask, taken>>
    BY <1>4 DEF PowerOff, Boot, PowerOn, BootOver
  <2> QED
    BY <2>1, <2>2, <2>3
<1>5. CASE TrainingConsole \/ ConsoleStart \/ Retry \/ TearDown
  BY <1>5 DEF TrainingConsole, ConsoleStart, Retry, TearDown, ConsoleStates
<1>6. CASE SessionEnd
  <2>1. console' \in [Jobs -> ConsoleStates]
    BY <1>6 DEF SessionEnd, ConsoleStates
  <2>2. job_config' = None /\ pc' \in {"loop", "drop"}
    BY <1>6 DEF SessionEnd
  <2>3. overall_expired' \in BOOLEAN /\ session_ended' \in BOOLEAN
    BY <1>6 DEF SessionEnd
  <2>4. UNCHANGED <<state, job_console, job_bucket, events, stalled, dut, flask, taken>>
    BY <1>6 DEF SessionEnd
  <2> QED
    BY <2>1, <2>2, <2>3, <2>4
<1>7. CASE SessionEndRaises
  <2>1. overall_expired' \in BOOLEAN /\ session_ended' \in BOOLEAN
    BY <1>7 DEF SessionEndRaises
  <2>2. pc' = "loop" /\ UNCHANGED <<state, job, events, consoles, dut, flask, taken>>
    BY <1>7 DEF SessionEndRaises
  <2> QED
    BY <2>1, <2>2
<1> QED
  BY <1>1, <1>2, <1>3, <1>4, <1>5, <1>6, <1>7 DEF Run

\* So does a step of the REST server, of a console or of the environment.
LEMMA OthersKeepTypes ==
  ASSUME TypeOK, [Next]_vars, ~Run
  PROVE  TypeOK'
<1> USE DEF TypeOK, Jobs, job, events, dut, flask, consoles
<1>1. ASSUME NEW r \in Requests, StartJob(r)
      PROVE  TypeOK'
  <2> USE DEF Goto, RequestSteps
  <2>1. CASE StartJobCheck(r)
    BY <2>1 DEF StartJobCheck
  <2>2. CASE StartJobBucket(r)
    BY <2>2 DEF StartJobBucket
  <2>3. CASE StartJobQueue(r)
    BY <2>3 DEF StartJobQueue
  <2>4. CASE StartJobConsole(r)
    BY <2>4 DEF StartJobConsole, ConsoleStates
  <2>5. CASE StartJobReady(r)
    BY <2>5 DEF StartJobReady
  <2> QED
    BY <1>1, <2>1, <2>2, <2>3, <2>4, <2>5 DEF StartJob
<1>2. ASSUME NEW j \in Jobs, ConsoleDutDone(j) \/ ConsoleClosed(j)
      PROVE  TypeOK'
  <2>1. CASE ConsoleDutDone(j)
    <3>1. session_ended' \in BOOLEAN
      BY <2>1 DEF ConsoleDutDone
    <3>2. console' \in [Jobs -> ConsoleStates]
      BY <2>1 DEF ConsoleDutDone, ConsoleStates
    <3> QED
      BY <2>1, <3>1, <3>2 DEF ConsoleDutDone
  <2>2. CASE ConsoleClosed(j)
    BY <2>2 DEF ConsoleClosed, ConsoleStates
  <2> QED
    BY <1>2, <2>1, <2>2
<1>3. CASE \/ CancelCheck \/ CancelSet \/ EditReadiness \/ Stop \/ OverallExpires
           \/ AssignPduPort \/ UnassignPduPort
  <2>1. CASE CancelCheck
    BY <2>1 DEF CancelCheck
  <2>2. CASE CancelSet
    BY <2>2 DEF CancelSet
  <2>3. CASE EditReadiness
    BY <2>3 DEF EditReadiness
  <2>4. CASE Stop
    BY <2>4 DEF Stop
  <2>5. CASE OverallExpires
    BY <2>5 DEF OverallExpires
  <2>6. CASE AssignPduPort
    BY <2>6 DEF AssignPduPort
  <2>7. CASE UnassignPduPort
    <3>1. pdu_port' \in BOOLEAN
      BY <2>7 DEF UnassignPduPort
    <3>2. UNCHANGED <<pc, state, job, events, overall_expired, consoles, session_ended,
                      power, pdu_failed, flask, taken>>
      BY <2>7 DEF UnassignPduPort
    <3> QED
      BY <3>1, <3>2
  <2> QED
    BY <1>3, <2>1, <2>2, <2>3, <2>4, <2>5, <2>6, <2>7
<1>4. ASSUME NEW r \in Requests, ClientStalls(r)
      PROVE  TypeOK'
  BY <1>4 DEF ClientStalls
<1>5. CASE UNCHANGED vars
  BY <1>5 DEF vars
<1> QED
  BY <1>1, <1>2, <1>3, <1>4, <1>5 DEF Next

\* Whatever happens around an Executor, its attributes and those of its consoles
\* keep their types; session_init() and session_end() never leave an attribute
\* out (a job_bucket that was deleted and not set again, for example).
THEOREM TypeIsCorrect == Spec => []TypeOK
<1>1. Init => TypeOK
  BY DEF Init, TypeOK, ExecutorSteps, RequestSteps, ConsoleStates
<1>2. TypeOK /\ [Next]_vars => TypeOK'
  BY RunKeepsTypes, OthersKeepTypes
<1> QED
  BY <1>1, <1>2, PTL DEF Spec
-----------------------------------------------------------------------------
(* One job at a time, when the clients of the machine wait for one another  *)
(* and nobody edits its entry in the MaRS database.                         *)

TakingTurns == "concurrent" \notin Environment /\ "edit" \notin Environment

\* start_job() is at work for r, and has not made the console of the job yet.
Preparing(r) == request[r] \in {"bucket", "render", "console"}

HasTheFloor(r) == InFlight(r) \/ job_console = r

Started == {"setup", "boot", "on", "booted", "inner", "retry", "over", "teardown", "client"}

\* A request only gets to work on a machine that no other request, no session and
\* no training uses.
ClientsTakeTurns ==
  /\ \A q, r \in Requests : HasTheFloor(q) /\ HasTheFloor(r) => q = r
  /\ \A r \in Requests :
       /\ job_console = r => request[r] \in {"ready", "accepted"}
       /\ Preparing(r) => job_console = None /\ ~Sergent!HasToTrain

\* What start_job() reads of the machine, its state, tells the truth about where the
\* Executor thread is.
StateIsTrue ==
  /\ ready_for_service \in BOOLEAN
  /\ state = "IDLE" => ~Sergent!HasToTrain /\ pc \notin Started \cup {"power_off", "start"}
  /\ pc = "console" => state = "TRAINING" /\ Sergent!HasToTrain /\ job_config \in TrainingJobs
  /\ pc = "pick" /\ Sergent!HasToTrain => job_console = None
  /\ job_console \in TrainingJobs => state = "TRAINING" /\ pc \notin {"pick", "wait", "console"}
  /\ is_active => Sergent!HasToTrain /\ job_console \notin Requests

\* The three attributes of a job come and go together.
JobIsWhole ==
  /\ \A r \in Requests :
       /\ request[r] \in {"render", "console"} \/ job_console = r => job_bucket = r
       /\ request[r] = "console" \/ job_console = r => job_config \in {None, r}
  /\ job_console \in TrainingJobs /\ pc \in Started \cup {"power_off", "start", "end"}
       => job_config = job_console
  /\ pc \in Started \cup {"drop"} => job_console # None
  /\ pc \in Started \ {"setup"} => job_config # None

\* The console of a request lives and dies with its session.
RequestConsoles ==
  \A r \in Requests : Live(r) => job_console = r /\ pc \in Started \cup {"end"}

SessionInv == TypeOK /\ ClientsTakeTurns /\ StateIsTrue /\ JobIsWhole /\ RequestConsoles

\* Whatever the REST server does for a request, jobs keep coming one at a time.
LEMMA RequestsKeepSessions ==
  ASSUME TakingTurns, SessionInv, NEW r \in Requests, StartJob(r)
  PROVE  (ClientsTakeTurns /\ StateIsTrue /\ JobIsWhole /\ RequestConsoles)'
<1> USE RequestsAssumption DEF SessionInv, TypeOK, ClientsTakeTurns, HasTheFloor, InFlight,
        Preparing, RequestSteps, Goto, job, Jobs, flask, trainer, consoles, Sergent!HasToTrain
<1>1. CASE StartJobCheck(r)
  <2>1. \A q \in Requests : ~Waiting(q)
    BY <1>1 DEF StartJobCheck, TakingTurns
  <2>2. \A q \in Requests : ~InFlight(q) /\ job_console # q
    BY <2>1 DEF Waiting
  <2>3. ASSUME state = "IDLE"
        PROVE  job_console = None /\ ~Sergent!HasToTrain
    BY <2>2, <2>3 DEF StateIsTrue
  <2>4. /\ UNCHANGED <<job_console, ready_for_service>>
        /\ request' = [request EXCEPT ![r] = IF state = "IDLE" THEN "bucket" ELSE "refused"]
    BY <1>1 DEF StartJobCheck
  <2>5. \A q \in Requests : q # r => request'[q] = request[q]
    BY <2>4
  <2>6. state # "IDLE" => request'[r] = "refused"
    BY <2>4
  <2>7. ClientsTakeTurns'
    BY <2>2, <2>3, <2>4, <2>5, <2>6
  <2>8. (StateIsTrue /\ JobIsWhole /\ RequestConsoles)'
    BY <1>1 DEF StartJobCheck, StateIsTrue, JobIsWhole, RequestConsoles, Live
  <2> QED
    BY <2>7, <2>8
<1>2. CASE StartJobBucket(r)
  <2>1. ClientsTakeTurns'
    BY <1>2 DEF StartJobBucket
  <2>2. JobIsWhole'
    BY <1>2 DEF StartJobBucket, JobIsWhole
  <2>3. (StateIsTrue /\ RequestConsoles)'
    BY <1>2 DEF StartJobBucket, StateIsTrue, RequestConsoles, Live
  <2> QED
    BY <2>1, <2>2, <2>3
<1>3. CASE StartJobQueue(r)
  <2>1. ClientsTakeTurns'
    BY <1>3 DEF StartJobQueue
  <2>2. job_console = None /\ job_console \notin TrainingJobs /\ ~Sergent!HasToTrain
    BY <1>3 DEF StartJobQueue, TrainingJobs, None
  <2>3. JobIsWhole'
    BY <1>3, <2>2 DEF StartJobQueue, JobIsWhole
  <2>4. (StateIsTrue /\ RequestConsoles)'
    BY <1>3, <2>2 DEF StartJobQueue, StateIsTrue, RequestConsoles, Live
  <2> QED
    BY <2>1, <2>3, <2>4
<1>4. CASE StartJobConsole(r)
  <2>1. ClientsTakeTurns'
    BY <1>4 DEF StartJobConsole
  <2>2. JobIsWhole'
    BY <1>4 DEF StartJobConsole, JobIsWhole
  <2>3. StateIsTrue'
    BY <1>4 DEF StartJobConsole, StateIsTrue
  <2>4. RequestConsoles'
    BY <1>4 DEF StartJobConsole, RequestConsoles, Live
  <2> QED
    BY <2>1, <2>2, <2>3, <2>4
<1>5. CASE StartJobReady(r)
  <2>1. ClientsTakeTurns'
    BY <1>5 DEF StartJobReady
  <2>2. (StateIsTrue /\ JobIsWhole /\ RequestConsoles)'
    BY <1>5 DEF StartJobReady, StateIsTrue, JobIsWhole, RequestConsoles, Live
  <2> QED
    BY <2>1, <2>2
<1> QED
  BY <1>1, <1>2, <1>3, <1>4, <1>5 DEF StartJob

\* SergentHartman.report() only changes the readiness of the machine when it ends the
\* training.
LEMMA ReportsReadiness ==
  ASSUME ready_for_service \in BOOLEAN, is_active => ~ready_for_service,
         is_active, NEW status, Sergent!Report(status)
  PROVE  ready_for_service' \in BOOLEAN /\ (is_active' => ~ready_for_service')
<1>1. CASE Sergent!ReportRegistration(status)
  BY <1>1 DEF Sergent!ReportRegistration, Sergent!trainer, Sergent!Reset
<1>2. CASE Sergent!ReportBoot(status)
  <2>1. CASE cur_loop = BootLoopCounts
    BY <1>2, <2>1 DEF Sergent!ReportBoot
  <2>2. CASE cur_loop # BootLoopCounts
    BY <1>2, <2>2 DEF Sergent!ReportBoot
  <2> QED
    BY <2>1, <2>2
<1> QED
  BY <1>1, <1>2 DEF Sergent!Report

\* The Executor thread keeps the attributes of a job together, whatever start_job()
\* writes to them meanwhile.
LEMMA RunKeepsSessions ==
  ASSUME SessionInv, Run
  PROVE  (ClientsTakeTurns /\ StateIsTrue /\ JobIsWhole /\ RequestConsoles)'
<1> USE RequestsAssumption DEF SessionInv, TypeOK, ClientsTakeTurns, HasTheFloor, InFlight,
        Preparing, Started, job, Jobs, TrainingJobs, None, flask, trainer, consoles,
        Sergent!HasToTrain
<1>1. CASE LoopExit \/ WaitTimeout \/ TakeJob
  <2>1. ClientsTakeTurns'
    BY <1>1 DEF LoopExit, WaitTimeout, TakeJob, StateIsTrue
  <2>2. StateIsTrue'
    BY <1>1 DEF LoopExit, WaitTimeout, TakeJob, StateIsTrue
  <2>3. JobIsWhole'
    BY <1>1 DEF LoopExit, WaitTimeout, TakeJob, JobIsWhole, StateIsTrue
  <2>4. RequestConsoles'
    BY <1>1 DEF LoopExit, WaitTimeout, TakeJob, RequestConsoles, Live
  <2> QED
    BY <2>1, <2>2, <2>3, <2>4
<1>2. CASE ResetConfig \/ ResetConsole
  <2>1. ClientsTakeTurns'
    BY <1>2 DEF ResetConfig, ResetConsole, StateIsTrue
  <2>2. StateIsTrue'
    BY <1>2 DEF ResetConfig, ResetConsole, StateIsTrue
  <2>3. JobIsWhole'
    BY <1>2 DEF ResetConfig, ResetConsole, JobIsWhole, StateIsTrue
  <2>4. RequestConsoles'
    BY <1>2 DEF ResetConfig, ResetConsole, RequestConsoles, Live
  <2> QED
    BY <2>1, <2>2, <2>3, <2>4
<1>3. CASE PickTraining
  <2>1. ClientsTakeTurns'
    BY <1>3 DEF PickTraining, StateIsTrue
  <2>2. StateIsTrue'
    <3>1. job_config' \in TrainingJobs \cup {None}
      BY <1>3, NextTaskType DEF PickTraining
    <3> QED
      BY <1>3, <3>1 DEF PickTraining, StateIsTrue
  <2>3. JobIsWhole'
    BY <1>3 DEF PickTraining, JobIsWhole, StateIsTrue
  <2>4. RequestConsoles'
    BY <1>3 DEF PickTraining, RequestConsoles, Live
  <2> QED
    BY <2>1, <2>2, <2>3, <2>4
<1>4. CASE TrainingConsole
  <2>1. ClientsTakeTurns'
    BY <1>4 DEF TrainingConsole, StateIsTrue
  <2>2. StateIsTrue'
    BY <1>4 DEF TrainingConsole, StateIsTrue
  <2>3. JobIsWhole'
    BY <1>4 DEF TrainingConsole, JobIsWhole, StateIsTrue
  <2>4. RequestConsoles'
    BY <1>4 DEF TrainingConsole, RequestConsoles, Live
  <2> QED
    BY <2>1, <2>2, <2>3, <2>4
<1>5. CASE PickUserJob
  <2>1. ClientsTakeTurns'
    BY <1>5 DEF PickUserJob
  <2>2. StateIsTrue'
    <3>1. is_active' = FALSE /\ UNCHANGED ready_for_service
      BY <1>5 DEF PickUserJob, Sergent!Reset
    <3>2. /\ ~Sergent!HasToTrain /\ pc' = "wait" /\ state' = "IDLE"
          /\ UNCHANGED <<job_config, job_console, job_bucket>>
          /\ job_console \notin TrainingJobs
      BY <1>5 DEF PickUserJob, StateIsTrue
    <3> QED
      BY <3>1, <3>2 DEF StateIsTrue
  <2>3. JobIsWhole'
    BY <1>5 DEF PickUserJob, JobIsWhole, StateIsTrue
  <2>4. RequestConsoles'
    BY <1>5 DEF PickUserJob, RequestConsoles, Live
  <2> QED
    BY <2>1, <2>2, <2>3, <2>4
<1>6. CASE PowerOff
  <2>1. ClientsTakeTurns'
    BY <1>6 DEF PowerOff, PduSet, StateIsTrue
  <2>2. StateIsTrue'
    BY <1>6 DEF PowerOff, PduSet, StateIsTrue
  <2>3. JobIsWhole'
    BY <1>6 DEF PowerOff, PduSet, JobIsWhole, StateIsTrue
  <2>4. RequestConsoles'
    BY <1>6 DEF PowerOff, PduSet, RequestConsoles, Live
  <2> QED
    BY <2>1, <2>2, <2>3, <2>4
<1>7. CASE ConsoleStart
  <2>1. ClientsTakeTurns'
    BY <1>7 DEF ConsoleStart, StateIsTrue
  <2>2. StateIsTrue'
    BY <1>7 DEF ConsoleStart, StateIsTrue
  <2>3. JobIsWhole'
    BY <1>7 DEF ConsoleStart, JobIsWhole, StateIsTrue
  <2>4. RequestConsoles'
    BY <1>7 DEF ConsoleStart, RequestConsoles, Live
  <2> QED
    BY <2>1, <2>2, <2>3, <2>4
<1>8. CASE Setup
  <2>1. ClientsTakeTurns'
    BY <1>8 DEF Setup, StateIsTrue
  <2>2. StateIsTrue'
    BY <1>8 DEF Setup, StateIsTrue
  <2>3. JobIsWhole'
    BY <1>8 DEF Setup, JobIsWhole, StateIsTrue
  <2>4. RequestConsoles'
    BY <1>8 DEF Setup, RequestConsoles, Live
  <2> QED
    BY <2>1, <2>2, <2>3, <2>4
<1>9. CASE Boot
  <2>1. ClientsTakeTurns'
    BY <1>9 DEF Boot, PduSet, StateIsTrue
  <2>2. StateIsTrue'
    BY <1>9 DEF Boot, PduSet, StateIsTrue
  <2>3. JobIsWhole'
    BY <1>9 DEF Boot, PduSet, JobIsWhole, StateIsTrue
  <2>4. RequestConsoles'
    BY <1>9 DEF Boot, PduSet, RequestConsoles, Live
  <2> QED
    BY <2>1, <2>2, <2>3, <2>4
<1>10. CASE BootOver
  <2>1. ClientsTakeTurns'
    BY <1>10 DEF BootOver, PduSet, StateIsTrue
  <2>2. StateIsTrue'
    BY <1>10 DEF BootOver, PduSet, StateIsTrue
  <2>3. JobIsWhole'
    BY <1>10 DEF BootOver, PduSet, JobIsWhole, StateIsTrue
  <2>4. RequestConsoles'
    BY <1>10 DEF BootOver, PduSet, RequestConsoles, Live
  <2> QED
    BY <2>1, <2>2, <2>3, <2>4
<1>11. CASE Retry
  <2>1. ClientsTakeTurns'
    BY <1>11 DEF Retry, StateIsTrue
  <2>2. StateIsTrue'
    BY <1>11 DEF Retry, StateIsTrue
  <2>3. JobIsWhole'
    BY <1>11 DEF Retry, JobIsWhole, StateIsTrue
  <2>4. RequestConsoles'
    BY <1>11 DEF Retry, RequestConsoles, Live
  <2> QED
    BY <2>1, <2>2, <2>3, <2>4
<1>12. CASE JobFinished
  <2>1. ClientsTakeTurns'
    BY <1>12 DEF JobFinished, JobIsWhole
  <2>2. StateIsTrue'
    BY <1>12 DEF JobFinished, StateIsTrue
  <2>3. JobIsWhole'
    BY <1>12 DEF JobFinished, JobIsWhole, StateIsTrue
  <2>4. RequestConsoles'
    BY <1>12 DEF JobFinished, RequestConsoles, Live
  <2> QED
    BY <2>1, <2>2, <2>3, <2>4
<1>13. CASE TearDown \/ ClientDone
  <2>1. ClientsTakeTurns'
    BY <1>13 DEF TearDown, ClientDone, StateIsTrue
  <2>2. StateIsTrue'
    BY <1>13 DEF TearDown, ClientDone, StateIsTrue
  <2>3. JobIsWhole'
    BY <1>13 DEF TearDown, ClientDone, JobIsWhole, StateIsTrue
  <2>4. RequestConsoles'
    BY <1>13 DEF TearDown, ClientDone, RequestConsoles, Live
  <2> QED
    BY <2>1, <2>2, <2>3, <2>4
<1>14. CASE SessionEnd
  <2>1. ClientsTakeTurns'
    BY <1>14 DEF SessionEnd, StateIsTrue
  <2>2. StateIsTrue'
    <3>1. /\ ready_for_service' \in BOOLEAN
          /\ is_active' => is_active /\ ~ready_for_service'
          /\ ready_for_service' # ready_for_service => is_active
      BY <1>14, ReportsReadiness DEF SessionEnd, StateIsTrue
    <3> QED
      BY <1>14, <3>1 DEF SessionEnd, StateIsTrue
  <2>3. JobIsWhole'
    BY <1>14 DEF SessionEnd, JobIsWhole, StateIsTrue
  <2>4. RequestConsoles'
    BY <1>14 DEF SessionEnd, RequestConsoles, Live
  <2> QED
    BY <2>1, <2>2, <2>3, <2>4
<1>15. CASE SessionEndRaises
  <2>1. ClientsTakeTurns'
    BY <1>15 DEF SessionEndRaises, StateIsTrue
  <2>2. StateIsTrue'
    <3>1. ready_for_service' \in BOOLEAN /\ (is_active' => ~ready_for_service')
      BY <1>15, ReportsReadiness DEF SessionEndRaises, StateIsTrue
    <3> QED
      BY <1>15, <3>1 DEF SessionEndRaises, StateIsTrue
  <2>3. JobIsWhole'
    BY <1>15 DEF SessionEndRaises, JobIsWhole, StateIsTrue
  <2>4. RequestConsoles'
    BY <1>15 DEF SessionEndRaises, StateIsTrue, RequestConsoles, Live
  <2> QED
    BY <2>1, <2>2, <2>3, <2>4
<1>16. CASE SessionDrop
  <2>1. ClientsTakeTurns'
    BY <1>16 DEF SessionDrop, StateIsTrue
  <2>2. StateIsTrue'
    BY <1>16 DEF SessionDrop, StateIsTrue
  <2>3. JobIsWhole'
    BY <1>16 DEF SessionDrop, JobIsWhole, StateIsTrue
  <2>4. RequestConsoles'
    BY <1>16 DEF SessionDrop, RequestConsoles, Live
  <2> QED
    BY <2>1, <2>2, <2>3, <2>4
<1>17. CASE PowerOn
  <2>1. ClientsTakeTurns'
    BY <1>17 DEF PowerOn, PduSet, StateIsTrue
  <2>2. StateIsTrue'
    BY <1>17 DEF PowerOn, PduSet, StateIsTrue
  <2>3. JobIsWhole'
    BY <1>17 DEF PowerOn, PduSet, JobIsWhole, StateIsTrue
  <2>4. RequestConsoles'
    BY <1>17 DEF PowerOn, PduSet, RequestConsoles, Live
  <2> QED
    BY <2>1, <2>2, <2>3, <2>4
<1>18. CASE BootStarted
  <2>1. ClientsTakeTurns'
    BY <1>18 DEF BootStarted, StateIsTrue
  <2>2. StateIsTrue'
    BY <1>18 DEF BootStarted, StateIsTrue
  <2>3. JobIsWhole'
    BY <1>18 DEF BootStarted, JobIsWhole, StateIsTrue
  <2>4. RequestConsoles'
    BY <1>18 DEF BootStarted, RequestConsoles, Live
  <2> QED
    BY <2>1, <2>2, <2>3, <2>4
<1> QED
  BY <1>1, <1>2, <1>3, <1>4, <1>5, <1>6, <1>7, <1>8, <1>9, <1>10, <1>11, <1>12,
     <1>13, <1>14, <1>15, <1>16, <1>17, <1>18 DEF Run
\* The consoles, the cancellations and the environment do not touch the attributes of
\* the job.
LEMMA OthersKeepSessions ==
  ASSUME TakingTurns, SessionInv, [Next]_vars, ~Run, ~\E r \in Requests : StartJob(r)
  PROVE  (ClientsTakeTurns /\ StateIsTrue /\ JobIsWhole /\ RequestConsoles)'
<1>1. /\ UNCHANGED <<pc, state, job, request, ready_for_service, is_active>>
      /\ \A j \in Jobs : Live(j)' => Live(j)
  <2> USE DEF job, flask, dut, events, trainer, Live, Jobs, consoles
  <2>1. ASSUME NEW j \in Jobs, ConsoleDutDone(j) \/ ConsoleClosed(j)
        PROVE  /\ UNCHANGED <<pc, state, job, request, ready_for_service, is_active>>
               /\ \A i \in Jobs : Live(i)' => Live(i)
    BY <2>1 DEF ConsoleDutDone, ConsoleClosed, SessionInv, TypeOK
  <2>2. CASE CancelCheck \/ CancelSet \/ Stop
    BY <2>2 DEF CancelCheck, CancelSet, Stop
  <2>3. CASE OverallExpires \/ AssignPduPort
    BY <2>3 DEF OverallExpires, AssignPduPort
  <2>4. ~EditReadiness /\ ~UnassignPduPort
    BY DEF EditReadiness, UnassignPduPort, TakingTurns
  <2>5. ASSUME NEW r \in Requests, ClientStalls(r)
        PROVE  /\ UNCHANGED <<pc, state, job, request, ready_for_service, is_active>>
               /\ \A i \in Jobs : Live(i)' => Live(i)
    BY <2>5 DEF ClientStalls
  <2>6. CASE UNCHANGED vars
    BY <2>6 DEF vars
  <2> QED
    BY <2>1, <2>2, <2>3, <2>4, <2>5, <2>6 DEF Next
<1> QED
  BY <1>1 DEF SessionInv, ClientsTakeTurns, StateIsTrue, JobIsWhole, RequestConsoles,
              HasTheFloor, InFlight, Preparing, Jobs, job, Sergent!HasToTrain

\* The state the Executor starts from.
LEMMA SessionInit == Init => SessionInv
<1> SUFFICES ASSUME Init PROVE SessionInv
  OBVIOUS
<1>1. TypeOK
  BY DEF Init, TypeOK, ExecutorSteps, RequestSteps, ConsoleStates
<1>2. ClientsTakeTurns /\ JobIsWhole
  BY RequestsAssumption DEF Init, ClientsTakeTurns, HasTheFloor, InFlight, Preparing,
        JobIsWhole, Started, TrainingJobs, None
<1>3. StateIsTrue /\ RequestConsoles
  BY RequestsAssumption DEF Init, StateIsTrue, RequestConsoles, Live, Started, Jobs,
        TrainingJobs, None
<1> QED
  BY <1>1, <1>2, <1>3 DEF SessionInv

\* Every step of the system keeps one job at a time.
LEMMA SessionStep ==
  ASSUME TakingTurns, SessionInv, [Next]_vars
  PROVE  SessionInv'
<1>1. TypeOK'
  BY RunKeepsTypes, OthersKeepTypes DEF SessionInv
<1> QED
  BY <1>1, RunKeepsSessions, RequestsKeepSessions, OthersKeepSessions DEF SessionInv

\* When clients wait for one another, whatever the machine, SALAD, the PDU, a
\* cancellation or an exception do, start_job() and the Executor thread never mix up
\* two jobs: from its first boot to its end, a session has the configuration, the
\* console and the bucket of one job.
THEOREM SessionsAreCoherent ==
  ASSUME "concurrent" \notin Environment, "edit" \notin Environment
  PROVE  Spec => []SessionIsCoherent
<1>1. SessionInv => SessionIsCoherent
  BY RequestsAssumption DEF SessionInv, TypeOK, JobIsWhole, SessionIsCoherent, Started, Jobs
<1>2. SessionInv /\ [Next]_vars => SessionInv'
  BY SessionStep DEF TakingTurns
<1> QED
  BY <1>1, <1>2, SessionInit, PTL DEF Spec
-----------------------------------------------------------------------------
(* The power of the DUT.                                                    *)

\* A session that got past the start of its console has one that was started: logging
\* to it does not raise.
ConsoleIsStarted == pc \in Started => console[job_console] # "CREATED"

\* What a step of the Executor thread does to a console comes after its start().
LEMMA RunKeepsStarted ==
  ASSUME SessionInv, ConsoleIsStarted, Run
  PROVE  ConsoleIsStarted'
<1> USE DEF ConsoleIsStarted, Started, job, consoles, TypeOK, SessionInv
<1>1. CASE ConsoleStart \/ Retry \/ TearDown
  BY <1>1 DEF ConsoleStart, Retry, TearDown, JobIsWhole, Jobs
<1>2. CASE PowerOff \/ Boot \/ PowerOn \/ BootOver
  BY <1>2 DEF PowerOff, Boot, PowerOn, BootOver, PduSet
<1>3. CASE \/ LoopExit \/ ResetConfig \/ ResetConsole \/ PickTraining \/ TrainingConsole
           \/ PickUserJob \/ WaitTimeout \/ TakeJob \/ Setup \/ BootStarted \/ JobFinished
           \/ ClientDone \/ SessionEnd \/ SessionEndRaises \/ SessionDrop
  BY <1>3 DEF LoopExit, ResetConfig, ResetConsole, PickTraining, TrainingConsole,
              PickUserJob, WaitTimeout, TakeJob, Setup, BootStarted, JobFinished,
              ClientDone, SessionEnd, SessionEndRaises, SessionDrop
<1> QED
  BY <1>1, <1>2, <1>3 DEF Run

\* start_job() does not replace the console of a session.
LEMMA OthersKeepStarted ==
  ASSUME SessionInv, ConsoleIsStarted, [Next]_vars, ~Run
  PROVE  ConsoleIsStarted'
<1> USE DEF ConsoleIsStarted, Jobs, job, consoles, TypeOK, SessionInv
<1>1. ASSUME NEW r \in Requests, StartJobConsole(r)
      PROVE  ConsoleIsStarted'
  <2>1. job_console = None
    BY <1>1 DEF StartJobConsole, ClientsTakeTurns, Preparing
  <2> QED
    BY <1>1, <2>1 DEF StartJobConsole, JobIsWhole, Started
<1>2. ASSUME NEW r \in Requests, StartJob(r), ~StartJobConsole(r)
      PROVE  ConsoleIsStarted'
  BY <1>2 DEF StartJob, StartJobCheck, StartJobBucket, StartJobQueue, StartJobReady
<1>3. ASSUME NEW j \in Jobs, ConsoleDutDone(j) \/ ConsoleClosed(j)
      PROVE  ConsoleIsStarted'
  <2>1. \E s \in {"DUT_DONE", "OVER"} : console' = [console EXCEPT ![j] = s]
    BY <1>3 DEF ConsoleDutDone, ConsoleClosed
  <2>2. UNCHANGED <<pc, job_console>>
    BY <1>3 DEF ConsoleDutDone, ConsoleClosed
  <2>3. job_console \in Jobs => (console'[job_console] = "CREATED" => console[job_console] = "CREATED")
    BY <2>1
  <2> QED
    BY <2>2, <2>3 DEF JobIsWhole, Started
<1>4. CASE CancelCheck \/ CancelSet \/ EditReadiness \/ Stop
  BY <1>4 DEF CancelCheck, CancelSet, EditReadiness, Stop
<1>5. CASE OverallExpires \/ AssignPduPort \/ UnassignPduPort
  BY <1>5 DEF OverallExpires, AssignPduPort, UnassignPduPort
<1>6. ASSUME NEW r \in Requests, ClientStalls(r)
      PROVE  ConsoleIsStarted'
  BY <1>6 DEF ClientStalls
<1>7. CASE UNCHANGED vars
  BY <1>7 DEF vars
<1> QED
  BY <1>1, <1>2, <1>3, <1>4, <1>5, <1>6, <1>7 DEF Next

\* A successful PDUPort.set(OFF), and one that raises, both keep the DUT's power
\* accounted for, wherever the executor goes next.
LEMMA PduSetOff ==
  ASSUME NEW next, PduSet("OFF", next)
  PROVE  PoweredOnlyWhileBooting'
BY DEF PduSet, PoweredOnlyWhileBooting

\* So does a set(ON), after which the boot starts.
LEMMA PduSetOn ==
  ASSUME PduSet("ON", "booted")
  PROVE  PoweredOnlyWhileBooting'
BY DEF PduSet, PoweredOnlyWhileBooting

\* No step of the Executor thread leaves a boot without cutting the power.
LEMMA RunKeepsPower ==
  ASSUME ConsoleIsStarted, PoweredOnlyWhileBooting, Run
  PROVE  PoweredOnlyWhileBooting'
<1>1. CASE PowerOff \/ BootOver
  BY <1>1, PduSetOff DEF PowerOff, BootOver
<1>2. CASE Boot
  <2>1. CASE pc' = "over" /\ UNCHANGED dut
    BY <1>2, <2>1 DEF Boot, PoweredOnlyWhileBooting, dut
  <2>2. CASE PduSet("OFF", "on")
    BY <2>2, PduSetOff
  <2> QED
    BY <1>2, <2>1, <2>2 DEF Boot
<1>3. CASE PowerOn
  <2>1. PduSet("ON", "booted")
    BY <1>3 DEF PowerOn, LogRaises, ConsoleIsStarted, Started
  <2> QED
    BY <2>1, PduSetOn
<1>4. CASE BootStarted
  <2>1. pc' = "inner" /\ pc = "booted" /\ UNCHANGED dut
    BY <1>4 DEF BootStarted, LogRaises, ConsoleIsStarted, Started
  <2> QED
    BY <2>1 DEF PoweredOnlyWhileBooting, dut
<1>5. CASE \/ LoopExit \/ ResetConfig \/ ResetConsole \/ PickTraining \/ TrainingConsole
           \/ PickUserJob \/ WaitTimeout \/ TakeJob \/ ConsoleStart \/ Setup \/ Retry
           \/ JobFinished \/ TearDown \/ ClientDone \/ SessionEnd \/ SessionEndRaises
           \/ SessionDrop
  <2>1. pc \notin {"booted", "inner"} /\ UNCHANGED dut
    BY <1>5 DEF LoopExit, ResetConfig, ResetConsole, PickTraining, TrainingConsole,
                PickUserJob, WaitTimeout, TakeJob, ConsoleStart, Setup, Retry,
                JobFinished, TearDown, ClientDone, SessionEnd, SessionEndRaises,
                SessionDrop
  <2> QED
    BY <2>1 DEF PoweredOnlyWhileBooting, dut
<1> QED
  BY <1>1, <1>2, <1>3, <1>4, <1>5 DEF Run

\* The REST server, the consoles, the clients and the clock touch neither the
\* Executor's program counter nor the power.
LEMMA OthersKeepPower ==
  ASSUME PoweredOnlyWhileBooting, [Next]_vars, ~Run
  PROVE  PoweredOnlyWhileBooting'
<1>1. UNCHANGED <<pc, power, pdu_failed>>
  <2>1. CASE \E r \in Requests : StartJob(r)
    BY <2>1 DEF StartJob, StartJobCheck, StartJobBucket, StartJobQueue, StartJobConsole,
                StartJobReady, dut
  <2>2. CASE \/ \E j \in Jobs : ConsoleDutDone(j) \/ ConsoleClosed(j)
             \/ \E r \in Requests : ClientStalls(r)
    BY <2>2 DEF ConsoleDutDone, ConsoleClosed, ClientStalls, dut
  <2>3. CASE CancelCheck \/ CancelSet \/ EditReadiness \/ Stop \/ OverallExpires
    BY <2>3 DEF CancelCheck, CancelSet, EditReadiness, Stop, OverallExpires, dut
  <2>4. CASE AssignPduPort \/ UnassignPduPort
    BY <2>4 DEF AssignPduPort, UnassignPduPort
  <2>5. CASE UNCHANGED vars
    BY <2>5 DEF vars, dut
  <2> QED
    BY <2>1, <2>2, <2>3, <2>4, <2>5 DEF Next
<1> QED
  BY <1>1 DEF PoweredOnlyWhileBooting

\* When clients wait for one another, whatever they, the machine, SALAD and the PDU
\* do, a DUT is only left powered outside of a boot when the PDU failed to cut its
\* power.  (Otherwise start_job() may give a session a console that was not started;
\* the log() that follows set(ON) then raises, and the power stays on.)
THEOREM PowerIsCut ==
  ASSUME "concurrent" \notin Environment, "edit" \notin Environment
  PROVE  Spec => []PoweredOnlyWhileBooting
<1>1. Init => ConsoleIsStarted /\ PoweredOnlyWhileBooting
  BY DEF Init, ConsoleIsStarted, Started, PoweredOnlyWhileBooting
<1>2. SessionInv /\ [Next]_vars => SessionInv'
  BY SessionStep DEF TakingTurns
<1>3. SessionInv /\ ConsoleIsStarted /\ [Next]_vars => ConsoleIsStarted'
  BY RunKeepsStarted, OthersKeepStarted
<1>4. ConsoleIsStarted /\ PoweredOnlyWhileBooting /\ [Next]_vars => PoweredOnlyWhileBooting'
  BY RunKeepsPower, OthersKeepPower
<1> QED
  BY <1>1, <1>2, <1>3, <1>4, SessionInit, PTL DEF Spec
-----------------------------------------------------------------------------
(* The consoles of the training, when the verdict of a training can be saved.*)

\* A console is only live in the session it was made for.
LiveInSession == \A j \in Jobs : Live(j) => job_console = j /\ pc \in Started \cup {"end"}

\* No step of the Executor thread drops a console that is live.
LEMMA RunKeepsConsoles ==
  ASSUME "unsaved" \notin Environment, SessionInv, LiveInSession, Run
  PROVE  LiveInSession'
<1> USE DEF LiveInSession, Live, Started, job, TypeOK, consoles
<1>1. CASE TrainingConsole \/ ConsoleStart
  BY <1>1 DEF TrainingConsole, ConsoleStart, SessionInv
<1>2. CASE Retry \/ TearDown
  BY <1>2 DEF Retry, TearDown, SessionInv
<1>3. CASE SessionEnd
  BY <1>3, RequestsAssumption DEF SessionEnd, SessionInv, Jobs, TrainingJobs, None
<1>4. CASE PowerOff \/ Boot \/ PowerOn \/ BootOver
  BY <1>4 DEF PowerOff, Boot, PowerOn, BootOver, PduSet
<1>5. CASE \/ LoopExit \/ ResetConfig \/ ResetConsole \/ PickTraining \/ PickUserJob
           \/ WaitTimeout \/ TakeJob \/ Setup \/ BootStarted \/ JobFinished \/ ClientDone
           \/ SessionDrop
  BY <1>5 DEF LoopExit, ResetConfig, ResetConsole, PickTraining, PickUserJob, WaitTimeout,
              TakeJob, Setup, BootStarted, JobFinished, ClientDone, SessionDrop
<1>6. ~SessionEndRaises
  BY DEF SessionEndRaises
<1> QED
  BY <1>1, <1>2, <1>3, <1>4, <1>5, <1>6 DEF Run

\* Nor does start_job() replace one.
LEMMA OthersKeepConsoles ==
  ASSUME SessionInv, LiveInSession, [Next]_vars, ~Run
  PROVE  LiveInSession'
<1> USE DEF LiveInSession, Live, Jobs, job, TypeOK, SessionInv, consoles
<1>1. ASSUME NEW r \in Requests, StartJobConsole(r)
      PROVE  LiveInSession'
  <2>1. job_console = None
    BY <1>1 DEF StartJobConsole, ClientsTakeTurns, Preparing
  <2>2. \A j \in Jobs : ~Live(j)
    BY <2>1, RequestsAssumption DEF TrainingJobs, None
  <2> QED
    BY <1>1, <2>2 DEF StartJobConsole
<1>2. ASSUME NEW r \in Requests, StartJob(r), ~StartJobConsole(r)
      PROVE  LiveInSession'
  BY <1>2 DEF StartJob, StartJobCheck, StartJobBucket, StartJobQueue, StartJobReady
<1>3. ASSUME NEW j \in Jobs, ConsoleDutDone(j) \/ ConsoleClosed(j)
      PROVE  LiveInSession'
  BY <1>3 DEF ConsoleDutDone, ConsoleClosed
<1>4. CASE CancelCheck \/ CancelSet \/ EditReadiness \/ Stop
  BY <1>4 DEF CancelCheck, CancelSet, EditReadiness, Stop
<1>5. CASE OverallExpires \/ AssignPduPort \/ UnassignPduPort
  BY <1>5 DEF OverallExpires, AssignPduPort, UnassignPduPort
<1>6. ASSUME NEW r \in Requests, ClientStalls(r)
      PROVE  LiveInSession'
  BY <1>6 DEF ClientStalls
<1>7. CASE UNCHANGED vars
  BY <1>7 DEF vars
<1> QED
  BY <1>1, <1>2, <1>3, <1>4, <1>5, <1>6, <1>7 DEF Next

\* A machine has one SALAD connection to give: no console outlives its session, as
\* long as clients wait for one another and session_end() does not raise before it
\* closes the console (which it does if the verdict of a training is not saved).
THEOREM NoConsoleIsOrphaned ==
  ASSUME "concurrent" \notin Environment, "edit" \notin Environment,
         "unsaved" \notin Environment
  PROVE  Spec => []NoOrphanConsole
<1>1. Init => LiveInSession
  BY DEF Init, LiveInSession, Live
<1>2. SessionInv /\ [Next]_vars => SessionInv'
  BY SessionStep DEF TakingTurns
<1>3. SessionInv /\ LiveInSession /\ [Next]_vars => LiveInSession'
  BY RunKeepsConsoles, OthersKeepConsoles
<1>4. LiveInSession => NoOrphanConsole
  BY DEF LiveInSession, NoOrphanConsole
<1> QED
  BY <1>1, <1>2, <1>3, <1>4, SessionInit, PTL DEF Spec

-----------------------------------------------------------------------------
(* The sessions of the Executor drive SergentHartman as its module says.    *)

\* A step of the Executor thread is one of the session loop SergentHartman knows, an
\* edit of the readiness (by a job that marks the machine unfit), or none at all.
LEMMA RunDrivesSergent ==
  ASSUME SessionInv, Run
  PROVE  [SergentView!Next]_SergentView!vars
<1> USE DEF SessionSteps, job, SergentView!vars, SergentView!trainer, SergentView!history,
        trainer, SessionInv, StateIsTrue, Sergent!HasToTrain, SergentView!HasToTrain
<1> DEFINE sessionView == IF pc \in SessionSteps THEN "running" ELSE "init"
           jobView == IF is_active /\ pc \in SessionSteps THEN job_config ELSE None
<1>1. CASE PickTraining
  <2>1. /\ sessionView = "init" /\ sessionView' = "running"
        /\ SergentView!HasToTrain /\ UNCHANGED ready_for_service
    BY <1>1 DEF PickTraining
  <2>2. CASE Sergent!NextTaskRegister
    <3>1. SergentView!NextTaskRegister
      BY <1>1, <2>1, <2>2 DEF Sergent!NextTaskRegister, SergentView!NextTaskRegister,
         Sergent!FromPath, SergentView!FromPath, Sergent!ResetHistory,
         SergentView!ResetHistory, Sergent!NoStatuses, SergentView!NoStatuses,
         Sergent!NoJob, SergentView!NoJob, Sergent!JobStatus, SergentView!JobStatus
    <3> QED
      BY <2>1, <3>1 DEF SergentView!StartTraining, SergentView!SessionInit, SergentView!Next
  <2>3. CASE Sergent!NextTaskBoot
    <3>1. SergentView!NextTaskBoot
      BY <1>1, <2>1, <2>3 DEF Sergent!NextTaskBoot, SergentView!NextTaskBoot,
         Sergent!FromPath, SergentView!FromPath, Sergent!SumOfStatuses,
         SergentView!SumOfStatuses, Sergent!history, Sergent!NoJob, SergentView!NoJob
    <3> QED
      BY <2>1, <3>1 DEF SergentView!StartTraining, SergentView!SessionInit, SergentView!Next
  <2>4. CASE Sergent!NextTaskRaises
    <3>1. SergentView!NextTaskRaises
      BY <1>1, <2>1, <2>4 DEF Sergent!NextTaskRaises, SergentView!NextTaskRaises,
         Sergent!SumOfStatuses, SergentView!SumOfStatuses, Sergent!trainer, Sergent!history,
         Sergent!NoJob, SergentView!NoJob
    <3> QED
      BY <2>1, <3>1 DEF SergentView!StartTraining, SergentView!SessionInit, SergentView!Next
  <2> QED
    BY <1>1, <2>2, <2>3, <2>4 DEF PickTraining
<1>2. CASE PickUserJob
  <2>1. /\ sessionView = "init" /\ sessionView' = "running" /\ jobView' = None
        /\ ~SergentView!HasToTrain /\ UNCHANGED ready_for_service
    BY <1>2 DEF PickUserJob, Sergent!Reset
  <2>2. SergentView!Reset /\ SergentView!ResetHistory
    BY <1>2 DEF PickUserJob, Sergent!Reset, SergentView!Reset, Sergent!ResetHistory,
       SergentView!ResetHistory, Sergent!NoStatuses, SergentView!NoStatuses,
       Sergent!JobStatus, SergentView!JobStatus
  <2> QED
    BY <2>1, <2>2 DEF SergentView!InService, SergentView!NoJob, None,
       SergentView!SessionInit, SergentView!Next
<1>3. CASE SessionEnd \/ SessionEndRaises
  <2>1. sessionView = "running" /\ sessionView' = "init" /\ jobView' = None
    BY <1>3 DEF SessionEnd, SessionEndRaises
  <2>2. jobView = IF is_active THEN job_config ELSE None
    BY <2>1
  <2>3. ASSUME NEW status \in StatusOfJob, Sergent!Report(status)
        PROVE  SergentView!Report(status) /\ status \in SergentView!JobStatus
    BY <2>3 DEF Sergent!Report, SergentView!Report, Sergent!ReportRegistration,
       SergentView!ReportRegistration, Sergent!ReportBoot, SergentView!ReportBoot,
       Sergent!Reset, SergentView!Reset, Sergent!NoStatuses, SergentView!NoStatuses,
       Sergent!JobStatus, SergentView!JobStatus, Sergent!trainer, StatusOfJob
  <2> QED
    BY <1>3, <2>1, <2>2, <2>3 DEF SessionEnd, SessionEndRaises, SergentView!SessionEnd,
       SergentView!NoJob, None, SergentView!Next
<1>4. CASE JobFinished
  BY <1>4 DEF JobFinished, SergentView!EditReadiness, SergentView!Next
<1>5. CASE PowerOff \/ Boot \/ PowerOn \/ BootOver
  BY <1>5 DEF PowerOff, Boot, PowerOn, BootOver, PduSet
<1>6. CASE TrainingConsole \/ ConsoleStart \/ Setup \/ BootStarted \/ Retry
  BY <1>6 DEF TrainingConsole, ConsoleStart, Setup, BootStarted, Retry
<1>7. CASE \/ LoopExit \/ ResetConfig \/ ResetConsole \/ WaitTimeout \/ TakeJob
           \/ TearDown \/ ClientDone \/ SessionDrop
  BY <1>7 DEF LoopExit, ResetConfig, ResetConsole, WaitTimeout, TakeJob, TearDown,
              ClientDone, SessionDrop
<1> QED
  BY <1>1, <1>2, <1>3, <1>4, <1>5, <1>6, <1>7 DEF Run

\* The REST server only touches the job of a machine that is not in training.
LEMMA OthersDriveSergent ==
  ASSUME TakingTurns, SessionInv, [Next]_vars, ~Run
  PROVE  UNCHANGED SergentView!vars
<1> USE DEF job, SergentView!vars, SergentView!trainer, SergentView!history, trainer
<1>1. ASSUME NEW r \in Requests, StartJobQueue(r)
      PROVE  UNCHANGED SergentView!vars
  BY <1>1 DEF StartJobQueue, SessionInv, ClientsTakeTurns, Preparing, StateIsTrue
<1>2. ASSUME NEW r \in Requests, StartJob(r), ~StartJobQueue(r)
      PROVE  UNCHANGED SergentView!vars
  BY <1>2 DEF StartJob, StartJobCheck, StartJobBucket, StartJobConsole, StartJobReady
<1>3. ASSUME NEW j \in Jobs, ConsoleDutDone(j) \/ ConsoleClosed(j)
      PROVE  UNCHANGED SergentView!vars
  BY <1>3 DEF ConsoleDutDone, ConsoleClosed
<1>4. CASE CancelCheck \/ CancelSet \/ Stop \/ OverallExpires \/ AssignPduPort
  BY <1>4 DEF CancelCheck, CancelSet, Stop, OverallExpires, AssignPduPort
<1>5. ~EditReadiness /\ ~UnassignPduPort
  BY DEF EditReadiness, UnassignPduPort, TakingTurns
<1>6. ASSUME NEW r \in Requests, ClientStalls(r)
      PROVE  UNCHANGED SergentView!vars
  BY <1>6 DEF ClientStalls
<1>7. CASE UNCHANGED vars
  BY <1>7 DEF vars
<1> QED
  BY <1>1, <1>2, <1>3, <1>4, <1>5, <1>6, <1>7 DEF Next

\* The Executor implements the session loop that module SergentHartman assumes: what
\* is proved of SergentHartman holds of the trainer of every Executor whose clients
\* wait for one another and whose database entry is not edited, including when
\* session_end() raises half way.
THEOREM ExecutorDrivesSergentHartman ==
  ASSUME "concurrent" \notin Environment, "edit" \notin Environment
  PROVE  Spec => DrivesSergentHartman
<1>1. Init => SergentView!Init
  BY DEF Init, SergentView!Init, SessionSteps, None, SergentView!NoJob, Sergent!NoStatuses,
     SergentView!NoStatuses, Sergent!JobStatus, SergentView!JobStatus
<1>2. SessionInv /\ [Next]_vars => SessionInv'
  BY SessionStep DEF TakingTurns
<1>3. SessionInv /\ [Next]_vars => [SergentView!Next]_SergentView!vars
  BY RunDrivesSergent, OthersDriveSergent DEF TakingTurns
<1> QED
  BY <1>1, <1>2, <1>3, SessionInit, PTL DEF Spec, DrivesSergentHartman, SergentView!Spec

-----------------------------------------------------------------------------
(* What that gives the trainer of an Executor.                              *)

\* The theorems on SergentHartman, of what it sees of the Executor.
TrainerProofs == INSTANCE SergentHartmanProofs WITH
  session <- IF pc \in SessionSteps THEN "running" ELSE "init",
  job_config <- IF is_active /\ pc \in SessionSteps THEN job_config ELSE None

\* The same steps change what both see.
LEMMA SameVars ==
  UNCHANGED SergentView!vars <=> UNCHANGED TrainerProofs!vars
BY DEF SergentView!vars, TrainerProofs!vars, SergentView!trainer, TrainerProofs!trainer,
   SergentView!history, TrainerProofs!history

\* They are about the specification that the Executor implements.
LEMMA SergentViewIsProved ==
  SergentView!Spec => TrainerProofs!Spec
<1>1. SergentView!Init => TrainerProofs!Init
  BY DEF SergentView!Init, TrainerProofs!Init, SergentView!NoJob, TrainerProofs!NoJob,
     SergentView!NoStatuses, TrainerProofs!NoStatuses, SergentView!JobStatus,
     TrainerProofs!JobStatus
<1>3. ASSUME SergentView!Next PROVE TrainerProofs!Next
  <2> USE DEF SergentView!trainer, TrainerProofs!trainer, SergentView!history,
         TrainerProofs!history, SergentView!NoJob, TrainerProofs!NoJob,
         SergentView!NoStatuses, TrainerProofs!NoStatuses, SergentView!JobStatus,
         TrainerProofs!JobStatus, SergentView!Reset, TrainerProofs!Reset,
         SergentView!ResetHistory, TrainerProofs!ResetHistory
  <2>1. CASE SergentView!StartTraining
    BY <2>1 DEF SergentView!StartTraining, TrainerProofs!StartTraining,
       SergentView!HasToTrain, TrainerProofs!HasToTrain,
       SergentView!NextTaskRegister, TrainerProofs!NextTaskRegister,
       SergentView!NextTaskBoot, TrainerProofs!NextTaskBoot,
       SergentView!NextTaskRaises, TrainerProofs!NextTaskRaises,
       SergentView!FromPath, TrainerProofs!FromPath,
       SergentView!SumOfStatuses, TrainerProofs!SumOfStatuses,
       TrainerProofs!SessionInit, TrainerProofs!Next
  <2>2. CASE SergentView!InService
    BY <2>2 DEF SergentView!InService, TrainerProofs!InService,
       SergentView!HasToTrain, TrainerProofs!HasToTrain,
       SergentView!UserJob, TrainerProofs!UserJob, TrainerProofs!SessionInit, TrainerProofs!Next
  <2>3. CASE SergentView!SessionEnd
    BY <2>3 DEF SergentView!SessionEnd, TrainerProofs!SessionEnd,
       SergentView!Report, TrainerProofs!Report,
       SergentView!ReportRegistration, TrainerProofs!ReportRegistration,
       SergentView!ReportBoot, TrainerProofs!ReportBoot, TrainerProofs!Next
  <2>4. CASE SergentView!EditReadiness
    BY <2>4 DEF SergentView!EditReadiness, TrainerProofs!EditReadiness, TrainerProofs!Next
  <2> QED
    BY <1>3, <2>1, <2>2, <2>3, <2>4 DEF SergentView!Next, SergentView!SessionInit
<1>4. [SergentView!Next]_SergentView!vars => [TrainerProofs!Next]_TrainerProofs!vars
  BY <1>3, SameVars
<1> QED
  BY <1>1, <1>4, PTL DEF SergentView!Spec, TrainerProofs!Spec

\* What the theorems on SergentHartman assume holds of the constants of the Executor.
LEMMA TrainerConstants ==
  /\ BootLoopCounts \in Int /\ QualifyingRate \in Int
  /\ UnreadableJobs \subseteq TrainerProofs!TrainingJobs /\ IsAvailable \in BOOLEAN
BY TrainerAssumption DEF TrainingJobs, TrainerProofs!TrainingJobs

\* In the whole Executor, with its users, cancellations, failures and boots, a session
\* that changes the readiness of its machine does so after exactly the configured number
\* of boots, and for the better if and only if enough of them passed.
THEOREM ExecutorQualifiesByBoots ==
  ASSUME "concurrent" \notin Environment, "edit" \notin Environment
  PROVE  Spec => SergentView!QualifiedByItsBoots
<1>1. TrainerProofs!Spec => TrainerProofs!QualifiedByItsBoots
  BY TrainerProofs!QualificationCorrect, TrainerConstants
<1>2. Spec => SergentView!Spec
  BY ExecutorDrivesSergentHartman DEF DrivesSergentHartman
<1>3. TrainerProofs!QualifiedByItsBoots => SergentView!QualifiedByItsBoots
  <2> DEFINE session == IF pc \in SessionSteps THEN "running" ELSE "init"
             changed == session' # session /\ ready_for_service' # ready_for_service
             fit == ready_for_service' <=> (boots'["PASS"] >= QualifyingRate)
             view == changed => SergentView!SumOfStatuses(boots') = BootLoopCounts /\ fit
             proved == changed => TrainerProofs!SumOfStatuses(boots') = BootLoopCounts /\ fit
  <2>1. [proved]_TrainerProofs!vars => [view]_SergentView!vars
    BY SameVars DEF SergentView!SumOfStatuses, TrainerProofs!SumOfStatuses
  <2> QED
    BY <2>1, PTL DEF SergentView!QualifiedByItsBoots, TrainerProofs!QualifiedByItsBoots
<1> QED
  BY <1>1, <1>2, <1>3, SergentViewIsProved

\* If the templates of the two jobs can be read, next_task() never finds a task that was
\* not reported about, in the whole Executor: the ValueError that it would raise cannot
\* happen although session_end() may raise before it reports.
THEOREM ExecutorReportsEveryTask ==
  ASSUME "concurrent" \notin Environment, "edit" \notin Environment, UnreadableJobs = {}
  PROVE  Spec => []SergentView!NextTaskFollowedByReport
<1>1. TrainerProofs!Spec => []TrainerProofs!NextTaskFollowedByReport
  BY TrainerProofs!ReportProtocolKept, TrainerConstants
<1>2. TrainerProofs!NextTaskFollowedByReport => SergentView!NextTaskFollowedByReport
  BY DEF SergentView!NextTaskFollowedByReport, TrainerProofs!NextTaskFollowedByReport,
     SergentView!SumOfStatuses, TrainerProofs!SumOfStatuses
<1> QED
  BY <1>1, <1>2, ExecutorDrivesSergentHartman, SergentViewIsProved, PTL DEF DrivesSergentHartman

\* And no machine gets to the boot loop without having registered itself since its
\* training was started.
THEOREM ExecutorRegistersFirst ==
  ASSUME "concurrent" \notin Environment, "edit" \notin Environment, UnreadableJobs = {}
  PROVE  Spec => []SergentView!BootLoopAfterRegistration
<1>1. TrainerProofs!Spec => []TrainerProofs!BootLoopAfterRegistration
  BY TrainerProofs!RegistrationFirst, TrainerConstants
<1>2. TrainerProofs!BootLoopAfterRegistration => SergentView!BootLoopAfterRegistration
  BY DEF SergentView!BootLoopAfterRegistration, TrainerProofs!BootLoopAfterRegistration
<1> QED
  BY <1>1, <1>2, ExecutorDrivesSergentHartman, SergentViewIsProved, PTL DEF DrivesSergentHartman
=============================================================================
