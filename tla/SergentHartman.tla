--------------------------- MODULE SergentHartman ---------------------------
(***************************************************************************)
(* SergentHartman (executor.py) qualifies a test machine: it makes the     *)
(* machine register itself, then boots it BootLoopCounts times in a row    *)
(* and puts it in service when at least QualifyingRate boots passed.       *)
(*                                                                         *)
(* The class is driven by the session loop of the machine's Executor:      *)
(* session_init() asks for the next task when the machine is not ready for *)
(* service (and resets the trainer otherwise), session_end() reports the   *)
(* status of the job.  Between the two, anybody may edit the machine's     *)
(* ready_for_service field in the MaRS database.                           *)
(***************************************************************************)
EXTENDS Integers

CONSTANTS
  BootLoopCounts,   \* config.SERGENT_HARTMAN_BOOT_COUNT
  QualifyingRate,   \* config.SERGENT_HARTMAN_QUALIFYING_BOOT_COUNT
  UnreadableJobs,   \* the jobs whose Job.from_path() may raise
  IsAvailable       \* is_available: is one of the jobs configured?

\* The code only converts the two settings to an int.
ASSUME CountsAssumption == BootLoopCounts \in Int /\ QualifyingRate \in Int

JobStatus == {"PASS", "WARN", "COMPLETE", "FAIL", "INCOMPLETE"}

TrainingJobs == {"registration", "bootloop"}

ASSUME UnreadableAssumption ==
  UnreadableJobs \subseteq TrainingJobs /\ IsAvailable \in BOOLEAN

NoJob == "none"
UserJob == "user"

VARIABLES
  is_active, cur_loop, statuses,   \* the fields of SergentHartman
  ready_for_service,               \* of the machine, in the MaRS database
  job_config,                      \* Executor.job_config: the training job at hand
  session,                         \* where the Executor's session loop is
  registered,                      \* history: did a registration pass since the last reset()?
  boots                            \* history: the outcomes of the boot loop's jobs since then

trainer == <<is_active, cur_loop, statuses>>
history == <<registered, boots>>
vars == <<trainer, ready_for_service, job_config, session, history>>

NoStatuses == [s \in JobStatus |-> 0]

\* sum(self.statuses.values())
SumOfStatuses(f) ==
  f["PASS"] + f["WARN"] + f["COMPLETE"] + f["FAIL"] + f["INCOMPLETE"]

TypeOK ==
  /\ is_active \in BOOLEAN
  /\ cur_loop \in Nat
  /\ statuses \in [JobStatus -> Nat]
  /\ ready_for_service \in BOOLEAN
  /\ job_config \in TrainingJobs \cup {NoJob, UserJob}
  /\ session \in {"init", "running"}
  /\ registered \in BOOLEAN
  /\ boots \in [JobStatus -> Nat]

-----------------------------------------------------------------------------
\* Mutant: reset() to "before the first round" instead of to no round at all.
ResetBeforeFirst ==
  /\ is_active' = FALSE
  /\ cur_loop' = -1
  /\ statuses' = NoStatuses

Reset ==
  /\ is_active' = FALSE
  /\ cur_loop' = 0
  /\ statuses' = NoStatuses

ResetHistory ==
  /\ registered' = FALSE
  /\ boots' = NoStatuses

Init ==
  /\ is_active = FALSE
  /\ cur_loop = 0
  /\ statuses = NoStatuses
  /\ ready_for_service \in BOOLEAN
  /\ job_config = NoJob
  /\ session = "init"
  /\ registered = FALSE
  /\ boots = NoStatuses

\* Job.from_path(): the job becomes job_config, unless reading or rendering
\* the template raises, in which case session_init() leaves it at None.
FromPath(job) ==
  \/ job_config' = job
  \/ job \in UnreadableJobs /\ job_config' = NoJob

\* Mutant: the training restarts without calling reset().
NextTaskRegisterNoReset ==
  /\ ~is_active
  /\ is_active' = TRUE
  /\ UNCHANGED <<cur_loop, statuses>>
  /\ FromPath("registration")
  /\ ResetHistory

\* next_task(), when the training is to be started: force a registration.
NextTaskRegister ==
  /\ ~is_active
  /\ is_active' = TRUE
  /\ cur_loop' = 0
  /\ statuses' = NoStatuses
  /\ FromPath("registration")
  /\ ResetHistory

\* next_task(), once active: one more round of the boot loop.
NextTaskBoot ==
  /\ is_active
  /\ cur_loop = SumOfStatuses(statuses)
  /\ cur_loop' = cur_loop + 1
  /\ FromPath("bootloop")
  /\ UNCHANGED <<is_active, statuses, history>>

\* next_task() raises: "The previous next_task() call was not followed by a
\* call to report()".
NextTaskRaises ==
  /\ is_active
  /\ cur_loop # SumOfStatuses(statuses)
  /\ job_config' = NoJob
  /\ UNCHANGED <<trainer, history>>

\* The condition of session_init() for a training.
HasToTrain == IsAvailable /\ ~ready_for_service

\* session_init() of a machine that has to be trained.
StartTraining ==
  /\ session = "init"
  /\ HasToTrain
  /\ NextTaskRegister \/ NextTaskBoot \/ NextTaskRaises
  /\ session' = "running"
  /\ UNCHANGED ready_for_service

\* session_init() of a machine in service, or of one that cannot be trained: a user's
\* job, or none within a second.
InService ==
  /\ session = "init"
  /\ ~HasToTrain
  /\ Reset
  /\ ResetHistory
  /\ job_config' \in {NoJob, UserJob}
  /\ session' = "running"
  /\ UNCHANGED ready_for_service

\* Mutant: a failed registration is not retried.
ReportRegistrationAnyStatus(status) ==
  /\ cur_loop = 0
  /\ UNCHANGED trainer
  /\ registered' = (status = "PASS")
  /\ UNCHANGED <<ready_for_service, boots>>

\* report(), of a registration: only a PASS leads to the boot loop.
ReportRegistration(status) ==
  /\ cur_loop = 0
  /\ IF status = "PASS"
       THEN UNCHANGED trainer
       ELSE Reset
  /\ registered' = (status = "PASS")
  /\ UNCHANGED <<ready_for_service, boots>>

\* Mutant: boots that did not complete are not counted.
ReportBootCompleted(status) ==
  /\ cur_loop # 0
  /\ statuses' = [statuses EXCEPT ![status] = IF status = "INCOMPLETE" THEN @ ELSE @ + 1]
  /\ IF cur_loop = BootLoopCounts
       THEN /\ is_active' = FALSE
            /\ ready_for_service' = (statuses'["PASS"] >= QualifyingRate)
       ELSE UNCHANGED <<is_active, ready_for_service>>
  /\ boots' = [boots EXCEPT ![status] = @ + 1]
  /\ UNCHANGED <<cur_loop, registered>>

\* report(), of a boot: the last one of the loop settles the matter.
ReportBoot(status) ==
  /\ cur_loop # 0
  /\ statuses' = [statuses EXCEPT ![status] = @ + 1]
  /\ IF cur_loop = BootLoopCounts
       THEN /\ is_active' = FALSE
            /\ ready_for_service' = (statuses'["PASS"] >= QualifyingRate)
       ELSE UNCHANGED <<is_active, ready_for_service>>
  /\ boots' = [boots EXCEPT ![status] = @ + 1]
  /\ UNCHANGED <<cur_loop, registered>>

Report(status) == ReportRegistration(status) \/ ReportBoot(status)

\* session_end(): the job, if there is one, ended in some status.
SessionEnd ==
  /\ session = "running"
  /\ IF is_active /\ job_config # NoJob
       THEN \E status \in JobStatus : Report(status)
       ELSE UNCHANGED <<trainer, ready_for_service, history>>
  /\ job_config' = NoJob
  /\ session' = "init"

\* Somebody edits ready_for_service in the MaRS database.
EditReadiness ==
  /\ ready_for_service' = ~ready_for_service
  /\ UNCHANGED <<trainer, job_config, session, history>>

SessionInit == StartTraining \/ InService

Next == SessionInit \/ SessionEnd \/ EditReadiness

Spec == Init /\ [][Next]_vars

\* The Executor thread keeps going through its sessions, and every job ends
\* (the overall timeout of a training job is an hour at most).
FairSpec == Spec /\ WF_vars(SessionInit) /\ WF_vars(SessionEnd)

-----------------------------------------------------------------------------
\* When report() changes the readiness of the machine, exactly BootLoopCounts
\* boots ran since the training was last started, and the machine is put in
\* service if and only if enough of them passed.
QualifiedByItsBoots ==
  [][session' # session /\ ready_for_service' # ready_for_service
       => /\ SumOfStatuses(boots') = BootLoopCounts
          /\ ready_for_service' <=> (boots'["PASS"] >= QualifyingRate)]_vars

\* The boot loop is only entered by a machine that registered itself since the
\* training was started ("Loop until it succeeds!", executor.py:343).
BootLoopAfterRegistration == cur_loop > 0 => registered

\* next_task() never finds a task that was not reported about: what the
\* ValueError of executor.py:354 says cannot happen.
NextTaskFollowedByReport ==
  session = "init" /\ is_active => cur_loop = SumOfStatuses(statuses)

\* A training never goes on forever: it fails to register, it qualifies the
\* machine or it starts over.
TrainingSettles == is_active ~> ~is_active
=============================================================================
