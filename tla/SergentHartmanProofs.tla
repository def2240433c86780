------------------------ MODULE SergentHartmanProofs ------------------------
(***************************************************************************)
(* What SergentHartman promises, for every setting of the number of boots  *)
(* and of the qualifying rate.                                             *)
(***************************************************************************)
EXTENDS SergentHartman, TLAPS

\* The trainer's own counts are the outcomes of the boots that really ran.
CountsAreBoots ==
  /\ boots = statuses
  /\ cur_loop = 0 => statuses = NoStatuses

\* While a job of the training runs, cur_loop is ahead of the reports by that job.
JobAtHand ==
  session = "running" /\ is_active /\ job_config # NoJob
    => \/ job_config = "registration" /\ cur_loop = 0
       \/ job_config = "bootloop" /\ cur_loop = SumOfStatuses(statuses) + 1

TrainerInv == TypeOK /\ CountsAreBoots /\ JobAtHand

\* With readable job templates: between two sessions every task was reported
\* about, every session of the training has its job, and the boot loop starts
\* from a registration.
ReportedInv ==
  /\ NextTaskFollowedByReport
  /\ session = "running" /\ is_active => job_config # NoJob
  /\ session = "init" /\ is_active => registered
  /\ BootLoopAfterRegistration

USE DEF NoJob, UserJob, TrainingJobs, JobStatus

\* NoStatuses is a count per status, and its sum is zero.
LEMMA NoStatusesFacts ==
  NoStatuses \in [JobStatus -> Nat] /\ SumOfStatuses(NoStatuses) = 0
BY DEF NoStatuses, SumOfStatuses

\* Counting one more status in statuses[job_status] += 1 adds one to the sum.
LEMMA CountOne ==
  ASSUME NEW f \in [JobStatus -> Nat], NEW s \in JobStatus
  PROVE  /\ [f EXCEPT ![s] = @ + 1] \in [JobStatus -> Nat]
         /\ SumOfStatuses([f EXCEPT ![s] = @ + 1]) = SumOfStatuses(f) + 1
         /\ SumOfStatuses(f) \in Nat
BY DEF SumOfStatuses

\* The constructor of SergentHartman and of its Executor establish the invariant.
LEMMA TrainerInit == Init => TrainerInv /\ ReportedInv
<1> SUFFICES ASSUME Init PROVE TrainerInv /\ ReportedInv
  OBVIOUS
<1>1. TypeOK
  BY NoStatusesFacts DEF Init, TypeOK
<1>2. CountsAreBoots /\ JobAtHand
  BY DEF Init, CountsAreBoots, JobAtHand
<1>3. ReportedInv
  BY DEF Init, ReportedInv, NextTaskFollowedByReport, BootLoopAfterRegistration
<1> QED
  BY <1>1, <1>2, <1>3 DEF TrainerInv

\* Every step of the session loop, and every edit of the database, keeps it.
LEMMA TrainerStep == TrainerInv /\ [Next]_vars => TrainerInv'
<1> SUFFICES ASSUME TrainerInv, [Next]_vars PROVE TrainerInv'
  OBVIOUS
<1> USE NoStatusesFacts DEF TrainerInv, CountsAreBoots, JobAtHand
<1>1. CASE StartTraining
  <2> USE <1>1
  <2>1. CASE NextTaskRegister
    BY <2>1 DEF StartTraining, NextTaskRegister, FromPath, ResetHistory, TypeOK
  <2>2. CASE NextTaskBoot
    <3>1. SumOfStatuses(statuses) \in Nat
      BY CountOne DEF TypeOK
    <3> QED
      BY <2>2, <3>1 DEF StartTraining, NextTaskBoot, FromPath, TypeOK, history
  <2>3. CASE NextTaskRaises
    BY <2>3 DEF StartTraining, NextTaskRaises, TypeOK, trainer, history
  <2> QED
    BY <2>1, <2>2, <2>3 DEF StartTraining
<1>2. CASE InService
  BY <1>2 DEF InService, Reset, ResetHistory, TypeOK
<1>3. CASE SessionEnd
  <2> USE <1>3
  <2>1. CASE ~(is_active /\ job_config # NoJob)
    BY <2>1 DEF SessionEnd, TypeOK, trainer, history
  <2>2. CASE is_active /\ job_config # NoJob
    <3>1. PICK status \in JobStatus : Report(status)
      BY <2>2 DEF SessionEnd
    <3>2. CASE ReportRegistration(status)
      BY <3>2 DEF SessionEnd, ReportRegistration, Reset, TypeOK, trainer
    <3>3. CASE ReportBoot(status)
      <4>1. statuses' \in [JobStatus -> Nat] /\ boots' = statuses' /\ cur_loop' # 0
        BY <3>3, CountOne DEF ReportBoot, TypeOK
      <4>2. is_active' \in BOOLEAN /\ ready_for_service' \in BOOLEAN
        <5>1. (statuses'["PASS"] >= QualifyingRate) \in BOOLEAN
          BY <4>1, CountsAssumption
        <5>2. CASE cur_loop = BootLoopCounts
          <6>1. /\ is_active' = FALSE
                /\ ready_for_service' = (statuses'["PASS"] >= QualifyingRate)
            BY <3>3, <5>2, Zenon DEF ReportBoot
          <6> QED
            BY <5>1, <6>1, Zenon
        <5>3. CASE cur_loop # BootLoopCounts
          BY <3>3, <5>3, Zenon DEF ReportBoot, TypeOK
        <5> QED
          BY <5>2, <5>3
      <4> QED
        BY <3>3, <4>1, <4>2 DEF SessionEnd, ReportBoot, TypeOK
    <3> QED
      BY <3>1, <3>2, <3>3 DEF Report
  <2> QED
    BY <2>1, <2>2
<1>4. CASE EditReadiness
  BY <1>4 DEF EditReadiness, TypeOK, trainer, history
<1>5. CASE UNCHANGED vars
  BY <1>5 DEF vars, TypeOK, trainer, history
<1> QED
  BY <1>1, <1>2, <1>3, <1>4, <1>5 DEF Next, SessionInit

\* The fields of SergentHartman, the machine's readiness and the session keep
\* their types, and the trainer's counts are those of the boots that ran.
THEOREM TrainerCorrect == Spec => []TrainerInv
BY TrainerInit, TrainerStep, PTL DEF Spec

\* SergentHartman's state stays well typed in every session.
THEOREM TrainerTypeCorrect == Spec => []TypeOK
<1>1. TrainerInv => TypeOK
  BY DEF TrainerInv
<1> QED
  BY <1>1, TrainerCorrect, PTL

\* A step that keeps the trainer's invariant changes the readiness only after
\* BootLoopCounts boots, according to the number of them that passed.
LEMMA QualifyStep ==
  TrainerInv /\ [Next]_vars /\ session' # session /\ ready_for_service' # ready_for_service
    => /\ SumOfStatuses(boots') = BootLoopCounts
       /\ ready_for_service' <=> (boots'["PASS"] >= QualifyingRate)
<1> SUFFICES ASSUME TrainerInv, [Next]_vars, session' # session,
                    ready_for_service' # ready_for_service
             PROVE  /\ SumOfStatuses(boots') = BootLoopCounts
                    /\ ready_for_service' <=> (boots'["PASS"] >= QualifyingRate)
  OBVIOUS
<1>1. SessionEnd /\ is_active /\ job_config # NoJob
  BY DEF Next, SessionInit, StartTraining, InService, SessionEnd, EditReadiness, vars
<1>2. PICK status \in JobStatus : ReportBoot(status)
  BY <1>1 DEF SessionEnd, Report, ReportRegistration
<1>3. cur_loop = BootLoopCounts /\ cur_loop = SumOfStatuses(statuses) + 1
  BY <1>1, <1>2 DEF ReportBoot, SessionEnd, TrainerInv, JobAtHand
<1>4. boots' = statuses' /\ boots' = [statuses EXCEPT ![status] = @ + 1]
  BY <1>2 DEF ReportBoot, TrainerInv, CountsAreBoots
<1>5. SumOfStatuses(boots') = BootLoopCounts
  BY <1>3, <1>4, CountOne DEF TrainerInv, TypeOK
<1>6. ready_for_service' = (statuses'["PASS"] >= QualifyingRate)
  BY <1>2, <1>3, Zenon DEF ReportBoot
<1> QED
  BY <1>4, <1>5, <1>6, Zenon

\* report() never puts a machine in service, or takes one out, on the strength
\* of fewer, more or other boots than those of the training at hand.
THEOREM QualificationCorrect == Spec => QualifiedByItsBoots
<1>1. TrainerInv /\ [Next]_vars =>
        [session' # session /\ ready_for_service' # ready_for_service
           => /\ SumOfStatuses(boots') = BootLoopCounts
              /\ ready_for_service' <=> (boots'["PASS"] >= QualifyingRate)]_vars
  BY QualifyStep
<1> QED
  BY <1>1, TrainerCorrect, PTL DEF Spec, QualifiedByItsBoots

\* With readable job templates every session keeps the reporting protocol.
LEMMA ReportedStep ==
  ASSUME UnreadableJobs = {}
  PROVE  TrainerInv /\ ReportedInv /\ [Next]_vars => ReportedInv'
<1> SUFFICES ASSUME TrainerInv, ReportedInv, [Next]_vars PROVE ReportedInv'
  OBVIOUS
<1> USE NoStatusesFacts
    DEF TrainerInv, ReportedInv, NextTaskFollowedByReport, BootLoopAfterRegistration
<1>1. CASE StartTraining
  BY <1>1 DEF StartTraining, NextTaskRegister, NextTaskBoot, NextTaskRaises,
              FromPath, ResetHistory, TypeOK, trainer, history
<1>2. CASE InService
  BY <1>2 DEF InService, Reset, ResetHistory
<1>3. CASE SessionEnd
  <2> USE <1>3
  <2>1. CASE ~is_active
    BY <2>1 DEF SessionEnd, trainer, history
  <2>2. CASE is_active
    <3>1. PICK status \in JobStatus : Report(status)
      BY <2>2 DEF SessionEnd
    <3>2. CASE ReportRegistration(status)
      <4>1. CASE status = "PASS"
        BY <2>2, <3>2, <4>1 DEF SessionEnd, ReportRegistration, trainer, CountsAreBoots
      <4>2. CASE status # "PASS"
        BY <2>2, <3>2, <4>2 DEF SessionEnd, ReportRegistration, Reset
      <4> QED
        BY <4>1, <4>2
    <3>3. CASE ReportBoot(status)
      <4>1. SumOfStatuses(statuses') = cur_loop /\ cur_loop' = cur_loop
        BY <2>2, <3>3, CountOne DEF SessionEnd, ReportBoot, TypeOK, JobAtHand
      <4>2. registered' = registered /\ cur_loop # 0 /\ session' = "init"
        BY <3>3 DEF ReportBoot, SessionEnd
      <4> QED
        BY <4>1, <4>2 DEF TypeOK
    <3> QED
      BY <3>1, <3>2, <3>3 DEF Report
  <2> QED
    BY <2>1, <2>2
<1>4. CASE EditReadiness
  BY <1>4 DEF EditReadiness, trainer, history
<1>5. CASE UNCHANGED vars
  BY <1>5 DEF vars, trainer, history
<1> QED
  BY <1>1, <1>2, <1>3, <1>4, <1>5 DEF Next, SessionInit

\* With readable job templates, the ValueError of next_task() is never raised.
THEOREM ReportProtocolKept ==
  ASSUME UnreadableJobs = {}
  PROVE  Spec => []NextTaskFollowedByReport
<1>1. ReportedInv => NextTaskFollowedByReport
  BY DEF ReportedInv
<1> QED
  BY <1>1, TrainerInit, TrainerStep, ReportedStep, PTL DEF Spec

\* With readable job templates, no machine enters the boot loop before it
\* registered itself.
THEOREM RegistrationFirst ==
  ASSUME UnreadableJobs = {}
  PROVE  Spec => []BootLoopAfterRegistration
<1>1. ReportedInv => BootLoopAfterRegistration
  BY DEF ReportedInv
<1> QED
  BY <1>1, TrainerInit, TrainerStep, ReportedStep, PTL DEF Spec
=============================================================================
