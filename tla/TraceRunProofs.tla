---------------------------- MODULE TraceRunProofs ----------------------------
(***************************************************************************)
(* That executions are posted with their frames, that jobs which report at *)
(* the same time report all their results, and that a job which passes     *)
(* replayed its traces, for any number of CI jobs, GPUs, traces, frames    *)
(* and failures.                                                           *)
(***************************************************************************)
EXTENDS TraceRun, WellFoundedInduction, TLAPS

\* Before the report, and from it on.
Early == {"idle", "cache", "run", "hung", "report"}
\* The results of an execution are reported, with the reports of others fetched.
ResultSteps == {"project", "find project", "commit", "find commit", "compatibility"}
Uploading == {"gather", "post", "fetch", "verdict", "done"} \cup ResultSteps
Steps == Early \cup Uploading
\* An execution was posted and is not through.
Reporting == {"fetch"} \cup ResultSteps

TraceTypes ==
  /\ pc \in [Processes -> Steps] /\ gpu \in [Processes -> Gpus]
  /\ code \in [Processes -> Nat] /\ faults \in Nat /\ reports \subseteq Report
  /\ todo \in [Processes -> SUBSET Traces] /\ traces \in [Processes -> SUBSET Traces]
  /\ folder \in [Processes -> [Traces -> [started : BOOLEAN, ok : BOOLEAN, frames : SUBSET Frames]]]
  /\ task \in [Processes -> [Items -> TaskStates \cup Processes]]
  /\ blob \in [Processes -> [Items -> {"none", "record", "data"}]]
  /\ fetched \in [Processes -> (SUBSET Report) \cup {None}]
  /\ ignored \in [Processes -> SUBSET Traces]
  /\ execs \subseteq Processes \X Traces \X BOOLEAN

\* No task fails, no execution is ignored and no job ends early, before a call failed.
NoFailureYet ==
  faults = 0 => \A p \in Processes :
    /\ ignored[p] = {} /\ \A i \in Items : task[p][i] # "failed"
    /\ pc[p] = "done" => fetched[p] # None

\* What is looked for, as it could not be created, is there.
FoundExists ==
  \A p \in Processes : /\ pc[p] = "find project" => "project" \in created
                       /\ pc[p] = "find commit" => "commit" \in created

\* A process makes a blob once, for the one task that it has for a frame; a task ends
\* with a blob that somebody made.
BlobOfTask ==
  \A p \in Processes : \A i \in Items :
    /\ pc[p] \in Early => task[p][i] = "none"
    /\ task[p][i] \in {"none", "queued", "record"} => blob[p][i] = "none"
    /\ task[p][i] = p => blob[p][i] = "data"
    /\ blob[p][i] = "record" => task[p][i] \in {"put", "failed"}
    /\ \A q \in Processes : task[p][i] = q => blob[q][i] # "none"

\* What is true of the execution at hand of a process, and of those that were posted.
Uploaded(p, t) == \A i \in Found(p, t) : task[p][i] \in Processes
AtHand(p) ==
  /\ pc[p] \in {"post"} \cup Reporting => Cur(p) \in Traces /\ Uploaded(p, Cur(p))
  /\ pc[p] \in Reporting => Posted(p, Cur(p))
ExecAtHand == \A p \in Processes : AtHand(p)
ExecsAreUploaded == \A e \in execs : pc[e[1]] \in Uploading /\ Uploaded(e[1], e[2])

\* Who reports has fetched the reports before, and so those it fetched are of others.
FetchedFirst ==
  /\ \A p \in Processes : pc[p] \in ResultSteps => fetched[p] # None
  /\ \A p \in Processes : pc[p] = "fetch" => fetched[p] = None
  /\ \A r \in reports : \E p \in Processes : /\ gpu[p] = r.gpu /\ Posted(p, r.trace)
                                              /\ fetched[p] # None
  /\ \A p \in Processes : fetched[p] # None =>
       /\ history # None
       /\ \A r \in fetched[p] : Reported(p)

\* The verdict is the last thing that a process does.
PassedIsDone == \A p \in Processes : code[p] = 0 => pc[p] = "done" /\ fetched[p] # None

\* Every task of a report is for a frame of an execution that is to come, was ignored, or
\* has its frames; and every trace is to come, was ignored or has its result reported.
\* A job that ended before its report has no task and fetched nothing.
Through(p, t) == Posted(p, t) /\ Result(p, t) \in reports
TaskAccounted(p, i) ==
  i \in Found(p, i[1]) /\ (i[1] \in todo[p] \cup ignored[p] \/ task[p][i] \in Processes)
Account(p) ==
  /\ pc[p] \in Early => fetched[p] = None
  /\ pc[p] \in Uploading => \A i \in Items : task[p][i] # "none" => TaskAccounted(p, i)
  /\ pc[p] \in Uploading /\ (pc[p] = "done" => fetched[p] # None) =>
       \A t \in traces[p] : t \in todo[p] \cup ignored[p] \/ Through(p, t)
  /\ pc[p] \in {"verdict", "done"} =>
       todo[p] = {} \/ (fetched[p] = None /\ \A i \in Items : task[p][i] = "none")
Accounts == \A p \in Processes : Account(p)

UploadInv ==
  /\ TraceTypes /\ NoFailureYet /\ BlobOfTask /\ ExecAtHand /\ ExecsAreUploaded
  /\ FetchedFirst /\ PassedIsDone /\ FoundExists /\ Accounts

-----------------------------------------------------------------------------
\* The smallest of some traces is one of them.
LEMMA MinIsMember ==
  ASSUME NEW S \in SUBSET Nat, S # {}
  PROVE  Min(S) \in S
<1> DEFINE R == {ss \in Nat \X Nat : ss[1] < ss[2]}
<1>0. IsWellFoundedOn(R, Nat)
  <2>1. R = OpToRel(<, Nat) BY Zenon DEF OpToRel
  <2> QED BY <2>1, NatLessThanWellFounded, Zenon
<1>1. PICK x \in S : \A y \in S : ~ (<<y, x>> \in R)
  <2> HIDE DEF R
  <2> QED BY <1>0, WFMin
<1>2. ASSUME NEW y \in S
      PROVE  x =< y
  <2>1. y < x => <<y, x>> \in R OBVIOUS
  <2>2. ~ (y < x) BY <1>1, <2>1, Zenon
  <2> QED BY <2>2
<1> QED BY <1>2 DEF Min

\* The trace at hand is one of those to do.
LEMMA CurIsTrace ==
  ASSUME NEW p \in Processes, todo[p] \in SUBSET Traces, todo[p] # {}
  PROVE  Cur(p) \in todo[p] /\ Cur(p) \in Traces
BY MinIsMember, TracesAreSizes DEF Cur

\* Where a process goes.
LEMMA GotoStep ==
  ASSUME pc \in [Processes -> Steps], NEW p \in Processes, NEW s \in Steps, Goto(p, s)
  PROVE  /\ pc' \in [Processes -> Steps] /\ pc'[p] = s
         /\ \A q \in Processes \ {p} : pc'[q] = pc[q]
BY DEF Goto

\* How a process ends.
LEMMA ExitStep ==
  ASSUME pc \in [Processes -> Steps], code \in [Processes -> Nat],
         NEW p \in Processes, NEW c \in Nat, Exit(p, c)
  PROVE  /\ pc' \in [Processes -> Steps] /\ pc'[p] = "done"
         /\ code' \in [Processes -> Nat] /\ code'[p] = c
         /\ \A q \in Processes \ {p} : pc'[q] = pc[q] /\ code'[q] = code[q]
<1>1. "done" \in Steps
  BY DEF Steps, Uploading
<1>2. Goto(p, "done") /\ code' = [code EXCEPT ![p] = c]
  BY DEF Exit
<1> QED BY <1>1, <1>2, GotoStep

-----------------------------------------------------------------------------
(* What a step keeps of the executions.                                     *)

\* A process that uploads goes on to do so, and keeps its frames and their blobs.
Keeps(q) ==
  pc[q] \in Uploading => /\ pc'[q] \in Uploading /\ folder'[q] = folder[q]
                         /\ \A i \in Items : task[q][i] \in Processes => task'[q][i] = task[q][i]

\* The frames of a trace are among those that the pool may upload.
LEMMA FoundIsItems ==
  ASSUME TraceTypes, NEW q \in Processes, NEW t \in Traces
  PROVE  Found(q, t) \subseteq Items
BY DEF TraceTypes, Found, Items

\* The frames of a trace stay uploaded.
LEMMA UploadedIsKept ==
  ASSUME TraceTypes, NEW q \in Processes, NEW t \in Traces,
         pc[q] \in Uploading, Keeps(q), Uploaded(q, t)
  PROVE  Uploaded(q, t)'
<1>1. Found(q, t)' = Found(q, t)
  BY DEF Keeps, Found
<1> QED BY <1>1, FoundIsItems DEF Keeps, Uploaded

\* The executions that were posted stay uploaded.
LEMMA ExecsAreKept ==
  ASSUME TraceTypes, ExecsAreUploaded, \A q \in Processes : Keeps(q)
  PROVE  \A e \in execs : pc'[e[1]] \in Uploading /\ Uploaded(e[1], e[2])'
<1> SUFFICES ASSUME NEW e \in execs
             PROVE  pc'[e[1]] \in Uploading /\ Uploaded(e[1], e[2])'
  OBVIOUS
<1> DEFINE q == e[1]
           t == e[2]
<1>1. q \in Processes /\ t \in Traces
  BY DEF TraceTypes
<1>2. pc[q] \in Uploading /\ Uploaded(q, t) /\ Keeps(q)
  BY <1>1 DEF ExecsAreUploaded
<1> HIDE DEF q, t
<1>3. pc'[q] \in Uploading /\ Uploaded(q, t)'
  BY <1>1, <1>2, UploadedIsKept DEF Keeps
<1> QED BY <1>3 DEF q, t

\* The execution at hand of a process that does not step.
LEMMA AtHandIsKept ==
  ASSUME TraceTypes, NEW q \in Processes, Keeps(q), AtHand(q),
         pc'[q] = pc[q], todo'[q] = todo[q], execs \subseteq execs'
  PROVE  AtHand(q)'
<1>1. Cur(q)' = Cur(q)
  BY DEF Cur
<1>2. ASSUME pc[q] \in {"post"} \cup Reporting
      PROVE  Cur(q) \in Traces /\ Uploaded(q, Cur(q))'
  <2> DEFINE t == Cur(q)
  <2>1. t \in Traces /\ Uploaded(q, t) /\ pc[q] \in Uploading
    BY <1>2 DEF AtHand, Reporting, Uploading
  <2> QED BY <2>1, <1>1, UploadedIsKept
<1>3. pc[q] \in Reporting => Posted(q, Cur(q))'
  BY <1>1 DEF AtHand, Posted
<1> QED BY <1>1, <1>2, <1>3 DEF AtHand

\* The account of a process that does not step.
LEMMA AccountIsKept ==
  ASSUME NEW q \in Processes, Account(q),
         pc'[q] = pc[q], todo'[q] = todo[q], traces'[q] = traces[q], folder'[q] = folder[q],
         task'[q] = task[q], fetched'[q] = fetched[q], ignored'[q] = ignored[q],
         gpu' = gpu, reports \subseteq reports', execs \subseteq execs'
  PROVE  Account(q)'
<1>1. \A t \in traces[q] : Through(q, t) => Through(q, t)'
  BY DEF Through, Posted, Result, HadSuccessfulExecution
<1>2. \A i \in Items : TaskAccounted(q, i)' = TaskAccounted(q, i)
  BY DEF TaskAccounted, Found
<1> QED BY <1>1, <1>2 DEF Account

-----------------------------------------------------------------------------
(* Until the report a process has no task, no execution and no verdict.     *)

\* p is not at the report yet, and its step does not touch the service.
EarlyStep(p) ==
  /\ pc[p] \in Early /\ pc' \in [Processes -> Steps]
  /\ \A q \in Processes \ {p} : pc'[q] = pc[q] /\ todo'[q] = todo[q] /\ folder'[q] = folder[q]
                                /\ code'[q] = code[q] /\ traces'[q] = traces[q]
  /\ pc'[p] \in Early \cup {"gather", "done"} /\ code'[p] # 0
  /\ pc'[p] = "gather" => todo'[p] = traces'[p]
  /\ (faults' = faults /\ pc'[p] # "done") \/ faults' = faults + 1
  /\ UNCHANGED <<gpu, blob, created, history, reports, execs, fetched, ignored>>

\* Such a step keeps the invariant, as long as it starts no task before the report.
LEMMA EarlySteps ==
  ASSUME UploadInv, NEW p \in Processes, EarlyStep(p), TraceTypes',
         \A q \in Processes \ {p} : task'[q] = task[q],
         \A i \in Items : /\ task'[p][i] \in {"none", "queued"}
                          /\ pc'[p] \in Early \cup {"done"} => task'[p][i] = "none"
                          /\ task'[p][i] # "none" => i[1] \in todo'[p] /\ i \in Found(p, i[1])'
  PROVE  UploadInv'
<1> USE DEF UploadInv
<1>1. NoFailureYet'
  <2>1. faults' = 0 => faults = 0
    BY DEF EarlyStep, TraceTypes
  <2>2. \A i \in Items : task'[p][i] # "failed"
    OBVIOUS
  <2>3. ignored' = ignored /\ fetched' = fetched
    BY DEF EarlyStep
  <2>4. faults' = 0 => pc'[p] # "done"
    BY DEF EarlyStep, TraceTypes
  <2> QED BY <2>1, <2>2, <2>3, <2>4 DEF NoFailureYet, EarlyStep
<1>2. BlobOfTask'
  <2> SUFFICES ASSUME NEW q \in Processes, NEW i \in Items
               PROVE  /\ pc'[q] \in Early => task'[q][i] = "none"
                      /\ task'[q][i] \in {"none", "queued", "record"} => blob'[q][i] = "none"
                      /\ task'[q][i] = q => blob'[q][i] = "data"
                      /\ blob'[q][i] = "record" => task'[q][i] \in {"put", "failed"}
                      /\ \A r \in Processes : task'[q][i] = r => blob'[r][i] # "none"
    BY DEF BlobOfTask
  <2>1. CASE q = p
    <3>1. task[p][i] = "none" /\ blob[p][i] = "none"
      BY DEF BlobOfTask, EarlyStep
    <3>2. task'[p][i] \notin Processes
      BY NamesAssumption DEF TaskStates
    <3> QED BY <2>1, <3>1, <3>2 DEF EarlyStep
  <2>2. CASE q # p
    BY <2>2 DEF BlobOfTask, EarlyStep
  <2> QED BY <2>1, <2>2
<1>3. \A q \in Processes : Keeps(q)
  BY DEF Keeps, EarlyStep, Early, Uploading, ResultSteps
<1>4. ExecAtHand'
  <2> SUFFICES ASSUME NEW q \in Processes
               PROVE  AtHand(q)'
    BY DEF ExecAtHand
  <2>1. CASE q = p
    BY <2>1 DEF EarlyStep, AtHand, Reporting, ResultSteps, Early
  <2>2. CASE q # p
    <3>1. pc'[q] = pc[q] /\ todo'[q] = todo[q] /\ execs \subseteq execs' /\ AtHand(q)
      BY <2>2 DEF EarlyStep, ExecAtHand
    <3> QED BY <3>1, <1>3, AtHandIsKept
  <2> QED BY <2>1, <2>2
<1>5. ExecsAreUploaded'
  BY <1>3, ExecsAreKept DEF ExecsAreUploaded, EarlyStep
<1>6. FetchedFirst'
  <2>1. \A q \in Processes : Reported(q)' = Reported(q)
    BY DEF Reported, Posted, EarlyStep
  <2> QED BY <2>1 DEF FetchedFirst, EarlyStep, Posted, ResultSteps, Early
<1>7. PassedIsDone' /\ FoundExists'
  BY DEF PassedIsDone, FoundExists, EarlyStep, Early
<1>8. Accounts'
  <2> SUFFICES ASSUME NEW q \in Processes
               PROVE  Account(q)'
    BY DEF Accounts
  <2>1. CASE q = p
    <3>1. fetched'[p] = None
      BY DEF EarlyStep, Accounts, Account
    <3>2. \A i \in Items : task'[p][i] # "none" => TaskAccounted(p, i)'
      BY DEF TaskAccounted
    <3>3. pc'[p] \in Uploading /\ (pc'[p] = "done" => fetched'[p] # None) => todo'[p] = traces'[p]
      BY <3>1 DEF EarlyStep, Early, Uploading, ResultSteps
    <3>4. pc'[p] \in {"verdict", "done"} => \A i \in Items : task'[p][i] = "none"
      BY DEF EarlyStep, Early
    <3> QED BY <2>1, <3>1, <3>2, <3>3, <3>4 DEF Account
  <2>2. CASE q # p
    <3>1. /\ pc'[q] = pc[q] /\ todo'[q] = todo[q] /\ traces'[q] = traces[q]
          /\ folder'[q] = folder[q] /\ task'[q] = task[q]
          /\ UNCHANGED <<gpu, fetched, ignored, reports, execs>>
      BY <2>2 DEF EarlyStep
    <3> QED BY <3>1, AccountIsKept DEF Accounts
  <2> QED BY <2>1, <2>2
<1> QED BY <1>1, <1>2, <1>4, <1>5, <1>6, <1>7, <1>8

\* What EarlySteps asks of a step that leaves the tasks alone.
LEMMA NoTaskYet ==
  ASSUME UploadInv, NEW p \in Processes, pc[p] \in Early, task' = task
  PROVE  /\ \A q \in Processes \ {p} : task'[q] = task[q]
         /\ \A i \in Items : task'[p][i] = "none"
BY DEF UploadInv, BlobOfTask

\* run_job() starts.
LEMMA StartStep ==
  ASSUME UploadInv, NEW p \in Processes, Start(p)
  PROVE  UploadInv'
<1>1. pc[p] = "idle" /\ Goto(p, "cache") /\ task' = task
  BY DEF Start
<1>2. /\ pc' \in [Processes -> Steps] /\ pc'[p] = "cache"
      /\ \A q \in Processes \ {p} : pc'[q] = pc[q]
  BY <1>1, GotoStep DEF UploadInv, TraceTypes, Steps, Early
<1>3. /\ todo' \in [Processes -> SUBSET Traces] /\ traces' \in [Processes -> SUBSET Traces]
      /\ \A q \in Processes \ {p} : todo'[q] = todo[q] /\ traces'[q] = traces[q]
  BY DEF UploadInv, TraceTypes, Start, TracesUnderGb
<1>4. TraceTypes'
  BY <1>2, <1>3 DEF UploadInv, TraceTypes, Start, service
<1>5. EarlyStep(p)
  BY <1>1, <1>2, <1>3 DEF UploadInv, PassedIsDone, Start, service, EarlyStep, Early
<1> QED BY <1>1, <1>4, <1>5, NoTaskYet, EarlySteps DEF EarlyStep

\* A trace is cached, or the download fails.
LEMMA CacheTraceStep ==
  ASSUME UploadInv, NEW p \in Processes, CacheTrace(p)
  PROVE  UploadInv'
<1>1. pc[p] = "cache" /\ task' = task
  BY DEF CacheTrace
<1>2. /\ pc' \in [Processes -> Steps] /\ pc'[p] \in {"cache", "run", "done"}
      /\ code' \in [Processes -> Nat] /\ code'[p] # 0
      /\ \A q \in Processes \ {p} : pc'[q] = pc[q] /\ code'[q] = code[q]
  <2>0. code[p] # 0
    BY <1>1 DEF UploadInv, PassedIsDone
  <2>1. CASE Goto(p, "run") /\ code' = code
    BY <2>0, <2>1, GotoStep DEF UploadInv, TraceTypes, Steps, Early
  <2>2. CASE UNCHANGED <<pc, code>>
    BY <2>0, <2>2, <1>1 DEF UploadInv, TraceTypes
  <2>3. CASE Exit(p, 1)
    BY <2>3, ExitStep DEF UploadInv, TraceTypes
  <2> QED BY <2>1, <2>2, <2>3 DEF CacheTrace, Crash
<1>3. /\ todo' \in [Processes -> SUBSET Traces]
      /\ \A q \in Processes \ {p} : todo'[q] = todo[q]
  BY DEF UploadInv, TraceTypes, CacheTrace
<1>4. /\ faults' \in Nat
      /\ (faults' = faults /\ pc'[p] # "done") \/ faults' = faults + 1
  BY <1>1 DEF UploadInv, TraceTypes, CacheTrace, Crash, Fault, Goto
<1>5. TraceTypes'
  BY <1>2, <1>3, <1>4 DEF UploadInv, TraceTypes, CacheTrace, service
<1>6. EarlyStep(p)
  BY <1>1, <1>2, <1>3, <1>4 DEF CacheTrace, service, EarlyStep, Early
<1> QED BY <1>1, <1>5, <1>6, NoTaskYet, EarlySteps DEF EarlyStep

\* The script of a trace is run.
LEMMA ReplayStep ==
  ASSUME UploadInv, NEW p \in Processes, Replay(p)
  PROVE  UploadInv'
<1>1. pc[p] = "run" /\ UNCHANGED <<pc, code, task, todo>>
  BY DEF Replay
<1>2. /\ folder' \in [Processes ->
                      [Traces -> [started : BOOLEAN, ok : BOOLEAN, frames : SUBSET Frames]]]
      /\ \A q \in Processes \ {p} : folder'[q] = folder[q]
  <2> DEFINE Files == [started : BOOLEAN, ok : BOOLEAN, frames : SUBSET Frames]
  <2>1. PICK f \in Files : folder' = [folder EXCEPT ![p][Min(Pending(p))] = f]
    BY DEF Replay
  <2>2. folder \in [Processes -> [Traces -> Files]]
    BY DEF UploadInv, TraceTypes
  <2> HIDE DEF Files
  <2>3. /\ folder' \in [Processes -> [Traces -> Files]]
        /\ \A q \in Processes \ {p} : folder'[q] = folder[q]
    BY <2>1, <2>2
  <2> QED BY <2>3 DEF Files
<1>3. TraceTypes'
  BY <1>2 DEF UploadInv, TraceTypes, Replay, service
<1>4. EarlyStep(p)
  BY <1>1, <1>2 DEF UploadInv, TraceTypes, PassedIsDone, Replay, service, EarlyStep, Early
<1> QED BY <1>1, <1>3, <1>4, NoTaskYet, EarlySteps DEF EarlyStep

\* The job of the executor ends.
LEMMA JobEndsStep ==
  ASSUME UploadInv, NEW p \in Processes, JobEnds(p)
  PROVE  UploadInv'
<1>1. pc[p] = "run" /\ Goto(p, "report") /\ task' = task
  BY DEF JobEnds, local
<1>2. /\ pc' \in [Processes -> Steps] /\ pc'[p] = "report"
      /\ \A q \in Processes \ {p} : pc'[q] = pc[q]
  BY <1>1, GotoStep DEF UploadInv, TraceTypes, Steps, Early
<1>3. faults' \in Nat /\ (faults' = faults \/ faults' = faults + 1)
  BY DEF UploadInv, TraceTypes, JobEnds, Fault
<1>4. TraceTypes'
  BY <1>2, <1>3 DEF UploadInv, TraceTypes, JobEnds, service, local
<1>5. EarlyStep(p)
  BY <1>1, <1>2, <1>3 DEF UploadInv, PassedIsDone, JobEnds, service, local, EarlyStep, Early
<1> QED BY <1>1, <1>4, <1>5, NoTaskYet, EarlySteps DEF EarlyStep

\* The client of the executor has to wait.
LEMMA HangStep ==
  ASSUME UploadInv, NEW p \in Processes, Hang(p)
  PROVE  UploadInv'
<1>1. pc[p] = "run" /\ Goto(p, "hung") /\ task' = task
  BY DEF Hang, local
<1>2. /\ pc' \in [Processes -> Steps] /\ pc'[p] = "hung"
      /\ \A q \in Processes \ {p} : pc'[q] = pc[q]
  BY <1>1, GotoStep DEF UploadInv, TraceTypes, Steps, Early
<1>3. faults' \in Nat /\ faults' = faults + 1
  BY DEF UploadInv, TraceTypes, Hang, Fault
<1>4. TraceTypes'
  BY <1>2, <1>3 DEF UploadInv, TraceTypes, Hang, service, local
<1>5. EarlyStep(p)
  BY <1>1, <1>2, <1>3 DEF UploadInv, PassedIsDone, Hang, service, local, EarlyStep, Early
<1> QED BY <1>1, <1>4, <1>5, NoTaskYet, EarlySteps DEF EarlyStep

\* The report is made, and the tasks are given to the pool.
LEMMA ScheduleStep ==
  ASSUME UploadInv, NEW p \in Processes, Schedule(p)
  PROVE  UploadInv'
<1>1. pc[p] = "report"
  BY DEF Schedule
<1>2. /\ pc' \in [Processes -> Steps] /\ pc'[p] \in {"gather", "done"}
      /\ code' \in [Processes -> Nat] /\ code'[p] # 0
      /\ \A q \in Processes \ {p} : pc'[q] = pc[q] /\ code'[q] = code[q]
  <2>1. CASE Goto(p, "gather") /\ code' = code
    BY <1>1, <2>1, GotoStep DEF UploadInv, PassedIsDone, TraceTypes, Steps, Uploading
  <2>2. CASE Exit(p, 1)
    BY <2>2, ExitStep DEF UploadInv, TraceTypes
  <2> QED BY <2>1, <2>2 DEF Schedule, Crash
<1>3. /\ todo' \in [Processes -> SUBSET Traces]
      /\ \A q \in Processes \ {p} : todo'[q] = todo[q]
  BY DEF UploadInv, TraceTypes, Schedule
<1>4. /\ faults' \in Nat
      /\ (faults' = faults /\ pc'[p] # "done") \/ faults' = faults + 1
  BY DEF UploadInv, TraceTypes, Schedule, Crash, Fault, Goto
<1>5. /\ task' \in [Processes -> [Items -> TaskStates \cup Processes]]
      /\ \A q \in Processes \ {p} : task'[q] = task[q]
      /\ \A i \in Items : /\ task'[p][i] \in {"none", "queued"}
                          /\ pc'[p] = "done" => task'[p][i] = "none"
                          /\ task'[p][i] # "none" => i[1] \in todo'[p] /\ i \in Found(p, i[1])
  <2> DEFINE Tasks == [i \in Items |->
                         IF i[1] \in traces[p] /\ i \in Found(p, i[1]) THEN "queued" ELSE "none"]
  <2>1. Tasks \in [Items -> TaskStates \cup Processes]
    BY DEF TaskStates
  <2>2. \A i \in Items : /\ Tasks[i] \in {"none", "queued"}
                         /\ Tasks[i] # "none" => i[1] \in traces[p] /\ i \in Found(p, i[1])
    OBVIOUS
  <2>3. \/ task' = [task EXCEPT ![p] = Tasks] /\ todo'[p] = traces[p] /\ pc'[p] # "done"
        \/ task' = task
    BY DEF UploadInv, TraceTypes, Schedule, Goto
  <2>4. task \in [Processes -> [Items -> TaskStates \cup Processes]]
    BY DEF UploadInv, TraceTypes
  <2>5. \A i \in Items : task[p][i] = "none"
    BY <1>1 DEF UploadInv, BlobOfTask, Early
  <2> HIDE DEF Tasks
  <2> QED BY <2>1, <2>2, <2>3, <2>4, <2>5
<1>6. TraceTypes'
  BY <1>2, <1>3, <1>4, <1>5 DEF UploadInv, TraceTypes, Schedule, service
<1>7. EarlyStep(p)
  <2>1. pc'[p] = "gather" => todo'[p] = traces'[p]
    BY DEF UploadInv, TraceTypes, Schedule, Crash, Exit, Goto
  <2>2. UNCHANGED <<gpu, traces, folder, fetched, ignored, blob, created, history, reports, execs>>
    BY DEF Schedule, service
  <2> QED BY <1>1, <1>2, <1>3, <1>4, <2>1, <2>2 DEF EarlyStep, Early
<1>8. pc'[p] \notin Early
  BY <1>2 DEF Early
<1>9. \A i \in Items : Found(p, i[1])' = Found(p, i[1])
  BY DEF Found, Schedule
<1> QED BY <1>5, <1>6, <1>7, <1>8, <1>9, EarlySteps

-----------------------------------------------------------------------------
(* The pool: a task goes its way, and the blob that a frame has stays.      *)

\* Of all the tasks and the blobs that of p for the frame i is changed.
WorkerStep(p, i) ==
  /\ pc[p] \notin Early /\ task[p][i] \notin Processes \cup {"none"}
  /\ \A q \in Processes, j \in Items :
       q # p \/ j # i => task'[q][j] = task[q][j] /\ blob'[q][j] = blob[q][j]
  /\ task'[p][i] \in {"none", "queued", "record"} => blob'[p][i] = "none"
  /\ task'[p][i] = p => blob'[p][i] = "data"
  /\ blob'[p][i] = "record" => task'[p][i] \in {"put", "failed"}
  /\ \A q \in Processes : task'[p][i] = q => blob'[q][i] # "none"
  /\ blob[p][i] # "none" => blob'[p][i] # "none"
  /\ \/ faults' = faults /\ task'[p][i] # "failed"
     \/ faults' = faults + 1
  /\ UNCHANGED <<pc, gpu, code, todo, traces, folder, fetched, ignored, created, history, reports,
                 execs>>

\* Such a step keeps the invariant.
LEMMA WorkerSteps ==
  ASSUME UploadInv, NEW p \in Processes, NEW i \in Items, WorkerStep(p, i), TraceTypes'
  PROVE  UploadInv'
<1> USE DEF UploadInv
<1>1. NoFailureYet'
  <2>1. faults' = 0 => faults = 0 /\ task'[p][i] # "failed"
    BY DEF WorkerStep, TraceTypes
  <2>2. \A q \in Processes, j \in Items : q # p \/ j # i => task'[q][j] = task[q][j]
    BY DEF WorkerStep
  <2>3. UNCHANGED <<pc, fetched, ignored>>
    BY DEF WorkerStep
  <2> QED BY <2>1, <2>2, <2>3 DEF NoFailureYet
<1>2. BlobOfTask'
  <2>1. ASSUME NEW q \in Processes, NEW j \in Items, q # p \/ j # i
        PROVE  /\ pc'[q] \in Early => task'[q][j] = "none"
               /\ task'[q][j] \in {"none", "queued", "record"} => blob'[q][j] = "none"
               /\ task'[q][j] = q => blob'[q][j] = "data"
               /\ blob'[q][j] = "record" => task'[q][j] \in {"put", "failed"}
    <3>1. task'[q][j] = task[q][j] /\ blob'[q][j] = blob[q][j] /\ pc' = pc
      BY <2>1 DEF WorkerStep
    <3> QED BY <3>1 DEF BlobOfTask
  <2>2. \A q \in Processes, j \in Items : blob[q][j] # "none" => blob'[q][j] # "none"
    BY DEF WorkerStep
  <2>3. ASSUME NEW q \in Processes, NEW j \in Items, q # p \/ j # i,
               NEW r \in Processes, task'[q][j] = r
        PROVE  blob'[r][j] # "none"
    BY <2>2, <2>3 DEF BlobOfTask, WorkerStep
  <2>4. /\ pc'[p] \notin Early
        /\ task'[p][i] \in {"none", "queued", "record"} => blob'[p][i] = "none"
        /\ task'[p][i] = p => blob'[p][i] = "data"
        /\ blob'[p][i] = "record" => task'[p][i] \in {"put", "failed"}
        /\ \A q \in Processes : task'[p][i] = q => blob'[q][i] # "none"
    BY DEF WorkerStep
  <2> QED BY <2>1, <2>3, <2>4 DEF BlobOfTask
<1>3. \A q \in Processes : Keeps(q)
  BY DEF Keeps, WorkerStep
<1>4. ExecAtHand'
  <2> SUFFICES ASSUME NEW q \in Processes
               PROVE  AtHand(q)'
    BY DEF ExecAtHand
  <2>1. pc'[q] = pc[q] /\ todo'[q] = todo[q] /\ execs \subseteq execs' /\ AtHand(q)
    BY DEF WorkerStep, ExecAtHand
  <2> QED BY <2>1, <1>3, AtHandIsKept
<1>5. ExecsAreUploaded'
  BY <1>3, ExecsAreKept DEF ExecsAreUploaded, WorkerStep
<1>6. FetchedFirst'
  BY DEF FetchedFirst, Reported, Posted, WorkerStep
<1>7. PassedIsDone' /\ FoundExists'
  BY DEF PassedIsDone, FoundExists, WorkerStep
<1>8. Accounts'
  <2> SUFFICES ASSUME NEW q \in Processes
               PROVE  Account(q)'
    BY DEF Accounts
  <2>1. /\ UNCHANGED <<pc, gpu, todo, traces, folder, fetched, ignored, reports, execs>>
        /\ Account(q) /\ Account(p)
    BY DEF WorkerStep, Accounts
  <2>2. \A t \in traces[q] : Through(q, t)' = Through(q, t)
    BY <2>1 DEF Through, Posted, Result, HadSuccessfulExecution
  <2>3. ASSUME NEW j \in Items, pc[q] \in Uploading, task'[q][j] # "none"
        PROVE  TaskAccounted(q, j)'
    <3>1. Found(q, j[1])' = Found(q, j[1])
      BY <2>1 DEF Found
    <3>2. CASE q # p \/ j # i
      BY <2>1, <2>3, <3>1, <3>2 DEF TaskAccounted, WorkerStep, Account
    <3>3. CASE q = p /\ j = i
      BY <2>1, <2>3, <3>1, <3>3 DEF TaskAccounted, WorkerStep, Account
    <3> QED BY <3>2, <3>3
  <2>4. (\A j \in Items : task[q][j] = "none") => \A j \in Items : task'[q][j] = "none"
    BY DEF WorkerStep
  <2> QED BY <2>1, <2>2, <2>3, <2>4 DEF Account
<1> QED BY <1>1, <1>2, <1>4, <1>5, <1>6, <1>7, <1>8

\* What SetTask changes.
LEMMA SetTaskStep ==
  ASSUME TraceTypes, NEW p \in Processes, NEW i \in Items, NEW s \in TaskStates \cup Processes,
         SetTask(p, i, s)
  PROVE  /\ task' \in [Processes -> [Items -> TaskStates \cup Processes]] /\ task'[p][i] = s
         /\ \A q \in Processes, j \in Items : q # p \/ j # i => task'[q][j] = task[q][j]
BY DEF TraceTypes, SetTask

\* A blob is made or filled.
SetBlob(p, i, b) == blob' = [blob EXCEPT ![p][i] = b]

\* What SetBlob changes.
LEMMA SetBlobStep ==
  ASSUME TraceTypes, NEW p \in Processes, NEW i \in Items, NEW b \in {"none", "record", "data"},
         SetBlob(p, i, b)
  PROVE  /\ blob' \in [Processes -> [Items -> {"none", "record", "data"}]] /\ blob'[p][i] = b
         /\ \A q \in Processes, j \in Items : q # p \/ j # i => blob'[q][j] = blob[q][j]
<1> DEFINE B == {"none", "record", "data"}
<1>1. blob \in [Processes -> [Items -> B]] /\ b \in B
  BY DEF TraceTypes
<1> HIDE DEF B
<1>2. /\ blob' \in [Processes -> [Items -> B]] /\ blob'[p][i] = b
      /\ \A q \in Processes, j \in Items : q # p \/ j # i => blob'[q][j] = blob[q][j]
  BY <1>1 DEF SetBlob
<1> QED BY <1>2 DEF B

\* The state of a task is not the process whose blob a frame has.
LEMMA NotAProcess ==
  ASSUME NEW s \in TaskStates
  PROVE  s \notin Processes
BY NamesAssumption

\* _upload_frame_blob() looks for the image.
LEMMA CheckImageStep ==
  ASSUME UploadInv, NEW p \in Processes, NEW i \in Items, CheckImage(p, i)
  PROVE  UploadInv'
<1>1. task[p][i] = "queued" /\ pc[p] \notin Early /\ blob[p][i] = "none"
  BY DEF UploadInv, BlobOfTask, CheckImage
<1>2. UNCHANGED <<pc, gpu, code, todo, traces, folder, fetched, ignored, blob, created, history,
                  reports, execs>>
  BY DEF CheckImage, service
<1>3. PICK s \in {"record", "failed"} \cup Processes :
        /\ SetTask(p, i, s) /\ s # p
        /\ \A q \in Processes : s = q => blob[q][i] # "none"
        /\ \/ faults' = faults /\ s # "failed"
           \/ faults' = faults + 1
  <2>1. CASE \E q \in Processes : blob[q][i] # "none" /\ SetTask(p, i, q) /\ faults' = faults
    <3>1. PICK q \in Processes : blob[q][i] # "none" /\ SetTask(p, i, q) /\ faults' = faults
      BY <2>1
    <3>2. q # p /\ q # "failed"
      BY <3>1, <1>1, NotAProcess DEF TaskStates
    <3> QED BY <3>1, <3>2
  <2>2. CASE SetTask(p, i, "record") /\ faults' = faults
    BY <2>2, NotAProcess DEF TaskStates
  <2>3. CASE SetTask(p, i, "failed") /\ Fault
    BY <2>3, NotAProcess DEF Fault, TaskStates
  <2> QED BY <2>1, <2>2, <2>3 DEF CheckImage
<1>4. /\ task' \in [Processes -> [Items -> TaskStates \cup Processes]] /\ task'[p][i] = s
      /\ \A q \in Processes, j \in Items : q # p \/ j # i => task'[q][j] = task[q][j]
  BY <1>3, SetTaskStep DEF UploadInv, TaskStates
<1>5. TraceTypes'
  BY <1>2, <1>3, <1>4 DEF UploadInv, TraceTypes
<1>6. task[p][i] \notin Processes \cup {"none"} /\ task'[p][i] # p
  BY <1>1, <1>3, <1>4, NotAProcess DEF TaskStates
<1>7. WorkerStep(p, i)
  BY <1>1, <1>2, <1>3, <1>4, <1>6 DEF WorkerStep
<1> QED BY <1>5, <1>7, WorkerSteps

\* _upload_blob() makes a blob.
LEMMA MakeBlobStep ==
  ASSUME UploadInv, NEW p \in Processes, NEW i \in Items, MakeBlob(p, i)
  PROVE  UploadInv'
<1>1. task[p][i] = "record" /\ pc[p] \notin Early /\ blob[p][i] = "none"
  BY DEF UploadInv, BlobOfTask, MakeBlob
<1>2. UNCHANGED <<pc, gpu, code, todo, traces, folder, fetched, ignored, created, history, reports,
                  execs>>
  BY DEF MakeBlob
<1>3. PICK s \in {"put", "failed"} :
        /\ SetTask(p, i, s) /\ (blob' = [blob EXCEPT ![p][i] = "record"] \/ blob' = blob)
        /\ \/ faults' = faults /\ s # "failed"
           \/ faults' = faults + 1
  BY DEF MakeBlob, Fault
<1>4. /\ task' \in [Processes -> [Items -> TaskStates \cup Processes]] /\ task'[p][i] = s
      /\ \A q \in Processes, j \in Items : q # p \/ j # i => task'[q][j] = task[q][j]
  BY <1>3, SetTaskStep DEF UploadInv, TaskStates
<1>5. /\ blob' \in [Processes -> [Items -> {"none", "record", "data"}]]
      /\ \A q \in Processes, j \in Items : q # p \/ j # i => blob'[q][j] = blob[q][j]
  <2>1. CASE blob' = [blob EXCEPT ![p][i] = "record"]
    BY <2>1, SetBlobStep DEF UploadInv, SetBlob
  <2>2. CASE blob' = blob
    BY <2>2 DEF UploadInv, TraceTypes
  <2> QED BY <1>3, <2>1, <2>2
<1>6. TraceTypes'
  BY <1>2, <1>3, <1>4, <1>5 DEF UploadInv, TraceTypes
<1>7. task[p][i] \notin Processes \cup {"none"} /\ task'[p][i] \notin Processes
  BY <1>1, <1>3, <1>4, NotAProcess DEF TaskStates
<1>8. WorkerStep(p, i)
  BY <1>1, <1>2, <1>3, <1>4, <1>5, <1>7 DEF WorkerStep
<1> QED BY <1>6, <1>8, WorkerSteps

\* _upload_blob() fills it.
LEMMA PutBlobStep ==
  ASSUME UploadInv, NEW p \in Processes, NEW i \in Items, PutBlob(p, i)
  PROVE  UploadInv'
<1>1. task[p][i] = "put" /\ pc[p] \notin Early
  BY DEF UploadInv, BlobOfTask, PutBlob
<1>2. UNCHANGED <<pc, gpu, code, todo, traces, folder, fetched, ignored, created, history, reports,
                  execs>>
  BY DEF PutBlob
<1>3. ASSUME blob' = [blob EXCEPT ![p][i] = "data"]
      PROVE  /\ blob' \in [Processes -> [Items -> {"none", "record", "data"}]]
             /\ blob'[p][i] = "data"
             /\ \A q \in Processes, j \in Items : q # p \/ j # i => blob'[q][j] = blob[q][j]
  <2>1. SetBlob(p, i, "data")
    BY <1>3 DEF SetBlob
  <2> QED BY <2>1, SetBlobStep DEF UploadInv
<1>4. PICK s \in {p, "failed"} :
        /\ SetTask(p, i, s)
        /\ \/ faults' = faults /\ s = p /\ blob' = [blob EXCEPT ![p][i] = "data"]
           \/ /\ faults' = faults + 1 /\ s = "failed"
              /\ blob' = blob \/ blob' = [blob EXCEPT ![p][i] = "data"]
  BY DEF PutBlob, Fault
<1>5. /\ task' \in [Processes -> [Items -> TaskStates \cup Processes]] /\ task'[p][i] = s
      /\ \A q \in Processes, j \in Items : q # p \/ j # i => task'[q][j] = task[q][j]
  BY <1>4, SetTaskStep DEF UploadInv, TaskStates
<1>6. /\ blob' \in [Processes -> [Items -> {"none", "record", "data"}]]
      /\ \A q \in Processes, j \in Items : q # p \/ j # i => blob'[q][j] = blob[q][j]
      /\ s = p => blob'[p][i] = "data"
      /\ blob'[p][i] = "data" \/ (s = "failed" /\ blob'[p][i] = blob[p][i])
  <2>1. CASE blob' = [blob EXCEPT ![p][i] = "data"]
    BY <2>1, <1>3
  <2>2. CASE s = "failed" /\ blob' = blob
    BY <2>2, NotAProcess DEF UploadInv, TraceTypes, TaskStates
  <2> QED BY <1>4, <2>1, <2>2
<1>7. TraceTypes'
  BY <1>2, <1>4, <1>5, <1>6 DEF UploadInv, TraceTypes
<1>8. /\ task[p][i] \notin Processes \cup {"none"} /\ task'[p][i] \notin {"none", "queued", "record"}
      /\ s = p => s # "failed"
      /\ \A q \in Processes : s = q => q = p
  BY <1>1, <1>4, <1>5, NotAProcess DEF TaskStates
<1>9. WorkerStep(p, i)
  BY <1>1, <1>2, <1>4, <1>5, <1>6, <1>8 DEF WorkerStep
<1> QED BY <1>7, <1>9, WorkerSteps

-----------------------------------------------------------------------------
(* The report: an execution is posted once its frames are uploaded, and     *)
(* what is reported of it then is reported by one that was posted.          *)

\* An execution that is through was ignored, or has its frames and is reported; at the
\* verdict all are through.  What is looked for was created.
GoesThrough(p) ==
  /\ reports \subseteq reports' /\ created \subseteq created' /\ ignored[p] \subseteq ignored'[p]
  /\ \A t \in todo[p] \ todo'[p] : t \in ignored'[p] \/ (Uploaded(p, t) /\ Through(p, t)')
  /\ pc'[p] \in {"verdict", "done"} => todo'[p] = {}
  /\ pc'[p] = "find project" => "project" \in created'
  /\ pc'[p] = "find commit" => "commit" \in created'

\* p goes through its executions, and leaves the frames and the others alone.
ReportStep(p) ==
  /\ pc[p] \in Uploading \ {"done"} /\ pc'[p] \in Uploading
  /\ \A q \in Processes \ {p} : /\ pc'[q] = pc[q] /\ todo'[q] = todo[q]
                                /\ fetched'[q] = fetched[q] /\ ignored'[q] = ignored[q]
  /\ \/ /\ faults' = faults /\ (ignored'[p] = ignored[p] \/ \E i \in Items : task[p][i] = "failed")
        /\ pc'[p] = "done" => fetched'[p] # None
     \/ faults' = faults + 1
  /\ UNCHANGED <<gpu, traces, folder, task, blob>>
  /\ execs \subseteq execs' /\ GoesThrough(p)
  /\ \A q \in Processes \ {p} : code'[q] = code[q]
  /\ code'[p] = code[p] \/ (pc'[p] = "done" /\ (code'[p] = 0 => fetched'[p] # None))

\* Such a step keeps what does not depend on where p goes.
LEMMA ReportSteps ==
  ASSUME UploadInv, NEW p \in Processes, ReportStep(p)
  PROVE  /\ NoFailureYet' /\ BlobOfTask' /\ PassedIsDone' /\ FoundExists' /\ Accounts'
         /\ \A q \in Processes : Keeps(q)
         /\ \A q \in Processes \ {p} : AtHand(q)'
         /\ \A e \in execs : pc'[e[1]] \in Uploading /\ Uploaded(e[1], e[2])'
<1> USE DEF UploadInv
<1>1. NoFailureYet'
  <2> SUFFICES ASSUME faults' = 0, NEW q \in Processes
               PROVE  /\ ignored'[q] = {} /\ \A i \in Items : task'[q][i] # "failed"
                      /\ pc'[q] = "done" => fetched'[q] # None
    BY DEF NoFailureYet
  <2>1. faults = 0 /\ faults' = faults
    BY DEF ReportStep, TraceTypes
  <2>2. ignored[q] = {} /\ ignored[p] = {}
    BY <2>1 DEF NoFailureYet
  <2>3. \A i \in Items : task[q][i] # "failed" /\ task[p][i] # "failed"
    BY <2>1 DEF NoFailureYet
  <2>4. ignored'[p] = ignored[p]
    BY <2>1, <2>3 DEF ReportStep, TraceTypes
  <2>5. pc'[q] = "done" => fetched'[q] # None
    <3>1. CASE q = p
      <4>1. faults' # faults + 1
        BY <2>1
      <4> QED BY <3>1, <4>1 DEF ReportStep
    <3>2. CASE q # p
      <4>1. pc'[q] = pc[q] /\ fetched'[q] = fetched[q]
        BY <3>2 DEF ReportStep
      <4> QED BY <2>1, <4>1 DEF NoFailureYet
    <3> QED BY <3>1, <3>2
  <2> QED BY <2>2, <2>3, <2>4, <2>5 DEF ReportStep
<1>2. BlobOfTask'
  <2>1. \A q \in Processes : pc'[q] \in Early => pc[q] \in Early
    BY DEF ReportStep, Early, Uploading, ResultSteps
  <2> QED BY <2>1 DEF BlobOfTask, ReportStep
<1>3. PassedIsDone' /\ FoundExists'
  BY DEF PassedIsDone, FoundExists, ReportStep, GoesThrough
<1>4. \A q \in Processes : Keeps(q)
  BY DEF Keeps, ReportStep
<1>5. ASSUME NEW q \in Processes \ {p}
      PROVE  AtHand(q)'
  <2>1. pc'[q] = pc[q] /\ todo'[q] = todo[q] /\ execs \subseteq execs' /\ AtHand(q)
    BY DEF ReportStep, ExecAtHand
  <2> QED BY <2>1, <1>4, AtHandIsKept
<1>6. ASSUME NEW q \in Processes \ {p}
      PROVE  Account(q)'
  <2>1. Account(q)
    BY DEF Accounts
  <2> QED BY <2>1, AccountIsKept DEF ReportStep, GoesThrough
<1>7. Account(p)'
  <2>1. pc[p] \in Uploading \ {"done"} /\ pc'[p] \notin Early /\ Account(p)
    BY DEF ReportStep, Early, Uploading, ResultSteps, Accounts
  <2>2. ASSUME NEW i \in Items, task'[p][i] # "none"
        PROVE  TaskAccounted(p, i)'
    <3>1. task' = task /\ Found(p, i[1])' = Found(p, i[1])
      BY DEF ReportStep, Found
    <3>2. TaskAccounted(p, i)
      BY <2>1, <2>2, <3>1 DEF Account
    <3> QED BY <3>1, <3>2 DEF TaskAccounted, ReportStep, GoesThrough, Uploaded
  <2>3. ASSUME NEW t \in traces'[p]
        PROVE  t \in todo'[p] \cup ignored'[p] \/ Through(p, t)'
    <3>1. t \in todo[p] \cup ignored[p] \/ Through(p, t)
      BY <2>1 DEF Account, ReportStep
    <3>2. Through(p, t) => Through(p, t)'
      BY DEF Through, Posted, Result, HadSuccessfulExecution, ReportStep, GoesThrough
    <3> QED BY <3>1, <3>2 DEF ReportStep, GoesThrough
  <2>4. pc'[p] \in {"verdict", "done"} => todo'[p] = {}
    BY DEF ReportStep, GoesThrough
  <2> QED BY <2>1, <2>2, <2>3, <2>4 DEF Account
<1>8. Accounts'
  BY <1>6, <1>7 DEF Accounts
<1> QED BY <1>1, <1>2, <1>3, <1>4, <1>5, <1>8, ExecsAreKept

\* What Ignore changes: the execution at hand is left out, and the next one is up.
LEMMA IgnoreStep ==
  ASSUME TraceTypes, NEW p \in Processes, Cur(p) \in Traces, Ignore(p)
  PROVE  /\ pc' \in [Processes -> Steps] /\ pc'[p] = "gather"
         /\ todo' \in [Processes -> SUBSET Traces] /\ todo'[p] = todo[p] \ {Cur(p)}
         /\ ignored' \in [Processes -> SUBSET Traces] /\ ignored'[p] = ignored[p] \cup {Cur(p)}
         /\ \A q \in Processes \ {p} : /\ pc'[q] = pc[q] /\ todo'[q] = todo[q]
                                       /\ ignored'[q] = ignored[q]
<1>1. Goto(p, "gather") /\ "gather" \in Steps
  BY DEF Ignore, NextExec, Steps, Uploading
<1>2. /\ todo' = [todo EXCEPT ![p] = @ \ {Cur(p)}]
      /\ ignored' = [ignored EXCEPT ![p] = @ \cup {Cur(p)}]
  BY DEF Ignore, NextExec
<1> QED BY <1>1, <1>2, GotoStep DEF TraceTypes

\* An execution that p goes on with.
LEMMA AtHandGoesOn ==
  ASSUME UploadInv, NEW p \in Processes, ReportStep(p),
         pc[p] \in {"post"} \cup Reporting, todo'[p] = todo[p], Posted(p, Cur(p))'
  PROVE  AtHand(p)'
<1>1. Cur(p)' = Cur(p)
  BY DEF Cur
<1> DEFINE t == Cur(p)
<1>2. t \in Traces /\ Uploaded(p, t) /\ pc[p] \in Uploading
  BY DEF UploadInv, ExecAtHand, AtHand, Reporting, ResultSteps, Uploading
<1>3. Keeps(p) /\ TraceTypes
  BY ReportSteps DEF UploadInv
<1>4. Uploaded(p, Cur(p))'
  BY <1>1, <1>2, <1>3, UploadedIsKept
<1> QED BY <1>1, <1>2, <1>4 DEF AtHand

\* Where p goes, it has or has not fetched the reports.
FetchedOn(p) ==
  /\ pc'[p] \in ResultSteps => fetched'[p] # None
  /\ pc'[p] = "fetch" => fetched'[p] = None

\* What p posts has its frames, and what it reports was posted.
NewExecs(p) ==
  /\ execs \subseteq execs' /\ execs' \subseteq Processes \X Traces \X BOOLEAN
  /\ \A e \in execs' \ execs : e[1] = p /\ Uploaded(p, e[2])
NewReports(p) ==
  /\ reports \subseteq reports' /\ reports' \subseteq Report
  /\ \A r \in reports' \ reports : r.gpu = gpu[p] /\ Posted(p, r.trace) /\ fetched[p] # None

\* A step that posts, or reports, nothing.
LEMMA NothingNew ==
  ASSUME UploadInv, NEW p \in Processes
  PROVE  (execs' = execs => NewExecs(p)) /\ (reports' = reports => NewReports(p))
BY DEF UploadInv, TraceTypes, NewExecs, NewReports

\* A step that fetches nothing.
LEMMA FetchedStays ==
  ASSUME UploadInv, NEW p \in Processes, ReportStep(p), FetchedOn(p), NewReports(p),
         UNCHANGED <<fetched, history>>
  PROVE  FetchedFirst'
<1>1. \A q \in Processes, t \in Traces : Posted(q, t) => Posted(q, t)'
  BY DEF Posted, ReportStep
<1>2. \A q \in Processes : Reported(q) => Reported(q)'
  BY <1>1 DEF Reported, ReportStep
<1>3. \A r \in reports' : r.trace \in Traces
  BY DEF NewReports, Report
<1>4. \A r \in reports' : \E q \in Processes :
        gpu'[q] = r.gpu /\ Posted(q, r.trace)' /\ fetched'[q] # None
  BY <1>1, <1>3 DEF UploadInv, FetchedFirst, ReportStep, NewReports
<1> QED BY <1>2, <1>4 DEF UploadInv, FetchedFirst, FetchedOn, ReportStep

\* The steps of the report, once the execution at hand is known to be fine.
LEMMA ReportGoesOn ==
  ASSUME UploadInv, NEW p \in Processes, ReportStep(p), TraceTypes', AtHand(p)', FetchedFirst',
         NewExecs(p)
  PROVE  UploadInv'
<1>1. ExecAtHand'
  BY ReportSteps DEF ExecAtHand
<1>2. ExecsAreUploaded'
  <2> SUFFICES ASSUME NEW e \in execs'
               PROVE  pc'[e[1]] \in Uploading /\ Uploaded(e[1], e[2])'
    BY DEF ExecsAreUploaded
  <2>1. CASE e \in execs
    BY <2>1, ReportSteps
  <2>2. CASE e \notin execs
    <3>1. e[1] = p /\ Uploaded(p, e[2])
      BY <2>2 DEF NewExecs
    <3>2. Uploaded(p, e[2])' = Uploaded(p, e[2])
      BY DEF Uploaded, Found, ReportStep
    <3> QED BY <3>1, <3>2 DEF ReportStep
  <2> QED BY <2>1, <2>2
<1> QED BY <1>1, <1>2, ReportSteps DEF UploadInv

\* p gives the execution at hand up.
LEMMA IgnoreSteps ==
  ASSUME UploadInv, NEW p \in Processes, pc[p] \in {"gather", "post"} \cup Reporting,
         Cur(p) \in Traces, Ignore(p),
         \/ faults' = faults /\ \E i \in Items : task[p][i] = "failed"
         \/ Fault,
         NewExecs(p), NewReports(p), created \subseteq created',
         UNCHANGED <<gpu, code, traces, folder, task, fetched, blob, history>>
  PROVE  UploadInv'
<1>1. /\ pc' \in [Processes -> Steps] /\ pc'[p] = "gather"
      /\ todo' \in [Processes -> SUBSET Traces] /\ todo'[p] = todo[p] \ {Cur(p)}
      /\ ignored' \in [Processes -> SUBSET Traces] /\ ignored'[p] = ignored[p] \cup {Cur(p)}
      /\ \A q \in Processes \ {p} : /\ pc'[q] = pc[q] /\ todo'[q] = todo[q]
                                    /\ ignored'[q] = ignored[q]
  BY IgnoreStep DEF UploadInv
<1>2. pc[p] \in Uploading \ {"done"} /\ pc'[p] \in Uploading
  BY <1>1 DEF Uploading, Reporting, ResultSteps
<1>3. ReportStep(p)
  BY <1>1, <1>2 DEF ReportStep, GoesThrough, Fault, NewExecs, NewReports
<1>4. TraceTypes'
  BY <1>1 DEF UploadInv, TraceTypes, Fault, NewExecs, NewReports
<1>5. AtHand(p)' /\ FetchedOn(p)
  BY <1>1 DEF AtHand, Reporting, ResultSteps, FetchedOn
<1>6. FetchedFirst'
  BY <1>3, <1>5, FetchedStays
<1> QED BY <1>3, <1>4, <1>5, <1>6, ReportGoesOn

\* The uploads of an execution are waited for.
LEMMA GatherStep ==
  ASSUME UploadInv, NEW p \in Processes, Gather(p)
  PROVE  UploadInv'
<1>1. pc[p] = "gather" /\ Cur(p) \in Traces
  BY CurIsTrace DEF UploadInv, TraceTypes, Gather
<1>2. /\ UNCHANGED <<gpu, code, traces, folder, task, fetched, blob, created, history, reports, execs>>
      /\ NewExecs(p) /\ NewReports(p)
  BY NothingNew DEF Gather, service
<1>3. CASE (\E i \in Found(p, Cur(p)) : task[p][i] = "failed") /\ Ignore(p) /\ faults' = faults
  <2>1. \E i \in Items : task[p][i] = "failed"
    BY <1>1, <1>3, FoundIsItems DEF UploadInv
  <2> QED BY <1>1, <1>2, <1>3, <2>1, IgnoreSteps
<1>4. CASE /\ \A i \in Found(p, Cur(p)) : task[p][i] \in Processes
           /\ Goto(p, "post") /\ UNCHANGED <<todo, ignored, faults>>
  <2>1. /\ pc' \in [Processes -> Steps] /\ pc'[p] = "post"
        /\ \A q \in Processes \ {p} : pc'[q] = pc[q]
    BY <1>4, GotoStep DEF UploadInv, TraceTypes, Steps, Uploading
  <2>2. TraceTypes'
    BY <1>2, <1>4, <2>1 DEF UploadInv, TraceTypes
  <2>3. ReportStep(p)
    BY <1>1, <1>2, <1>4, <2>1 DEF ReportStep, GoesThrough, Uploading
  <2>4. AtHand(p)'
    BY <1>1, <1>2, <1>4, <2>1 DEF AtHand, Reporting, ResultSteps, Uploaded, Cur, Found
  <2>5. FetchedFirst'
    BY <1>2, <2>1, <2>3, FetchedStays DEF FetchedOn, ResultSteps
  <2> QED BY <1>2, <2>2, <2>3, <2>4, <2>5, ReportGoesOn
<1>5. CASE Fault /\ Ignore(p)
  BY <1>1, <1>2, <1>5, IgnoreSteps
<1> QED BY <1>3, <1>4, <1>5 DEF Gather

\* An execution is posted, with what was uploaded for it.
LEMMA PostExecStep ==
  ASSUME UploadInv, NEW p \in Processes, PostExec(p)
  PROVE  UploadInv'
<1>1. pc[p] = "post" /\ Cur(p) \in Traces /\ Uploaded(p, Cur(p))
  BY DEF UploadInv, ExecAtHand, AtHand, PostExec
<1>2. /\ UNCHANGED <<gpu, code, traces, folder, task, fetched, blob, created, history, reports>>
      /\ NewReports(p)
  BY NothingNew DEF PostExec
<1>0. ASSUME NEW b \in BOOLEAN, execs' = execs \cup {<<p, Cur(p), b>>}
      PROVE  NewExecs(p)
  BY <1>0, <1>1 DEF UploadInv, TraceTypes, NewExecs
<1>3. CASE Fault /\ Ignore(p) /\ execs' \in {execs, execs \cup {<<p, Cur(p), FALSE>>}}
  <2>1. NewExecs(p)
    BY <1>0, <1>3, NothingNew
  <2> QED BY <1>1, <1>2, <1>3, <2>1, IgnoreSteps
<1>4. CASE /\ \E a \in Assessments : execs' = execs \cup {<<p, Cur(p), Acceptability(a)>>}
           /\ faults' = faults
           /\ Goto(p, IF fetched[p] = None THEN "fetch" ELSE "project")
           /\ UNCHANGED <<todo, ignored>>
  <2> DEFINE next == IF fetched[p] = None THEN "fetch" ELSE "project"
  <2>1. PICK a \in Assessments : execs' = execs \cup {<<p, Cur(p), Acceptability(a)>>}
    BY <1>4
  <2>2. next \in Steps
    BY DEF Steps, Uploading, ResultSteps
  <2>3. /\ pc' \in [Processes -> Steps] /\ pc'[p] = next
        /\ \A q \in Processes \ {p} : pc'[q] = pc[q]
    <3> HIDE DEF next
    <3>1. Goto(p, next) BY <1>4 DEF next
    <3> QED BY <2>2, <3>1, GotoStep DEF UploadInv, TraceTypes
  <2>4. Acceptability(a) \in BOOLEAN
    BY DEF Acceptability
  <2>5. TraceTypes'
    BY <1>1, <1>2, <1>4, <2>1, <2>3, <2>4 DEF UploadInv, TraceTypes
  <2>6. ReportStep(p)
    BY <1>1, <1>2, <1>4, <2>1, <2>3 DEF ReportStep, GoesThrough, Uploading, ResultSteps
  <2>7. Posted(p, Cur(p))'
    <3>1. Cur(p)' = Cur(p)
      BY <1>4 DEF Cur
    <3>2. \E e \in execs' : e[1] = p /\ e[2] = Cur(p)
      <4> DEFINE e == <<p, Cur(p), Acceptability(a)>>
      <4>1. e \in execs'
        BY <2>1
      <4>2. e[1] = p /\ e[2] = Cur(p)
        OBVIOUS
      <4> HIDE DEF e
      <4> QED BY <4>1, <4>2
    <3> QED BY <3>1, <3>2 DEF Posted
  <2>8. AtHand(p)'
    BY <1>1, <1>4, <2>6, <2>7, AtHandGoesOn
  <2>9. FetchedFirst'
    BY <1>2, <2>3, <2>6, FetchedStays DEF FetchedOn, ResultSteps
  <2>10. NewExecs(p)
    BY <1>0, <2>1, <2>4
  <2> QED BY <2>5, <2>6, <2>8, <2>9, <2>10, ReportGoesOn
<1> QED BY <1>3, <1>4 DEF PostExec

\* The next step of the report, for an execution that was posted.
LEMMA ReportingGoesOn ==
  ASSUME UploadInv, NEW p \in Processes, pc[p] \in Reporting, NEW s \in ResultSteps, Goto(p, s),
         fetched[p] # None, created \subseteq created',
         s = "find project" => "project" \in created', s = "find commit" => "commit" \in created',
         UNCHANGED <<gpu, code, todo, traces, folder, task, fetched, ignored, blob, history,
                     reports, execs, faults>>
  PROVE  UploadInv'
<1>1. /\ pc' \in [Processes -> Steps] /\ pc'[p] = s
      /\ \A q \in Processes \ {p} : pc'[q] = pc[q]
  BY GotoStep DEF UploadInv, TraceTypes, Steps, Uploading
<1>2. TraceTypes'
  BY <1>1 DEF UploadInv, TraceTypes
<1>3. /\ pc[p] \in Uploading \ {"done"} /\ pc'[p] \in Uploading \ {"fetch", "verdict", "done"}
      /\ NewExecs(p) /\ NewReports(p)
  BY <1>1, NothingNew DEF Uploading, Reporting, ResultSteps
<1>4. ReportStep(p)
  BY <1>1, <1>3 DEF ReportStep, GoesThrough
<1>5. Posted(p, Cur(p))'
  BY DEF UploadInv, ExecAtHand, AtHand, Posted, Cur
<1>6. AtHand(p)'
  BY <1>4, <1>5, AtHandGoesOn
<1>7. FetchedFirst'
  BY <1>1, <1>3, <1>4, FetchedStays DEF FetchedOn
<1> QED BY <1>2, <1>3, <1>4, <1>6, <1>7, ReportGoesOn

\* project_get_or_create() and commit_get_or_create(): what cannot be created is found.
LEMMA GetOrCreateSteps ==
  ASSUME UploadInv, NEW p \in Processes, pc[p] \in ResultSteps,
         NEW kind \in {"project", "commit"}, NEW find \in ResultSteps, NEW next \in ResultSteps,
         find = "find project" => kind = "project", find = "find commit" => kind = "commit",
         next \notin {"find project", "find commit"},
         pc[p] = find => kind \in created,
         Create(p, kind, find, next) \/ (pc[p] = find /\ Find(p, kind, next)),
         UNCHANGED <<gpu, code, traces, folder, task, fetched, blob, history, reports, execs>>
  PROVE  UploadInv'
<1>1. fetched[p] # None /\ Cur(p) \in Traces /\ pc[p] \in Reporting
  BY DEF UploadInv, FetchedFirst, ExecAtHand, AtHand, Reporting
<1>2. NewExecs(p) /\ NewReports(p)
  BY NothingNew
<1>3. created \subseteq created'
  BY DEF Create, Find
<1>4. CASE Fault /\ Ignore(p)
  BY <1>1, <1>2, <1>3, <1>4, IgnoreSteps
<1>5. CASE Goto(p, next) /\ UNCHANGED <<todo, ignored, faults>>
  BY <1>1, <1>3, <1>5, ReportingGoesOn
<1>6. CASE Goto(p, find) /\ kind \in created /\ UNCHANGED <<todo, ignored, faults>>
  BY <1>1, <1>3, <1>6, ReportingGoesOn
<1> QED BY <1>4, <1>5, <1>6 DEF Create, Find

\* The project and the commit.
LEMMA GetOrCreateStep ==
  ASSUME UploadInv, NEW p \in Processes, Project(p) \/ Commit(p)
  PROVE  UploadInv'
<1>0. FoundExists
  BY DEF UploadInv
<1>1. CASE Project(p)
  <2>1. /\ UNCHANGED <<gpu, code, traces, folder, task, fetched, blob, history, reports, execs>>
        /\ pc[p] \in ResultSteps /\ "find project" \in ResultSteps /\ "commit" \in ResultSteps
        /\ \/ Create(p, "project", "find project", "commit")
           \/ pc[p] = "find project" /\ Find(p, "project", "commit")
    BY <1>1 DEF Project, ResultSteps
  <2>2. pc[p] = "find project" => "project" \in created
    BY <1>0 DEF FoundExists
  <2> QED BY <2>1, <2>2, GetOrCreateSteps
<1>2. CASE Commit(p)
  <2>1. /\ UNCHANGED <<gpu, code, traces, folder, task, fetched, blob, history, reports, execs>>
        /\ pc[p] \in ResultSteps /\ "find commit" \in ResultSteps /\ "compatibility" \in ResultSteps
        /\ \/ Create(p, "commit", "find commit", "compatibility")
           \/ pc[p] = "find commit" /\ Find(p, "commit", "compatibility")
    BY <1>2 DEF Commit, ResultSteps
  <2>2. pc[p] = "find commit" => "commit" \in created
    BY <1>0 DEF FoundExists
  <2> QED BY <2>1, <2>2, GetOrCreateSteps
<1> QED BY <1>1, <1>2

\* Reports are fetched once; the job finds those of others.
LEMMA FetchStep ==
  ASSUME UploadInv, NEW p \in Processes, ReportStep(p), Fetch(p), fetched[p] = None,
         pc'[p] # "fetch", UNCHANGED <<reports, execs>>
  PROVE  /\ fetched' \in [Processes -> (SUBSET Report) \cup {None}]
         /\ FetchedFirst'
<1> USE DEF UploadInv
<1>1. /\ fetched' \in [Processes -> (SUBSET Report) \cup {None}]
      /\ fetched'[p] = {r \in reports : r.gpu = gpu[p]} /\ fetched'[p] # None
      /\ \A q \in Processes \ {p} : fetched'[q] = fetched[q]
  BY NamesAssumption DEF TraceTypes, Fetch
<1>2. history' # None /\ (history # None => history' = history)
  BY NamesAssumption DEF Fetch
<1>3. \A q \in Processes : Reported(q)' = Reported(q)
  BY DEF Reported, Posted, ReportStep
<1>4. ASSUME NEW r \in reports, r.gpu = gpu[p]
      PROVE  Reported(p)
  <2>1. PICK q \in Processes : gpu[q] = r.gpu /\ Posted(q, r.trace) /\ fetched[q] # None
    BY DEF FetchedFirst
  <2>2. q # p /\ r.trace \in Traces
    BY <2>1 DEF TraceTypes, Report
  <2> QED BY <1>4, <2>1, <2>2 DEF Reported
<1>5. \A q \in Processes : pc'[q] \in ResultSteps => fetched'[q] # None
  BY <1>1 DEF FetchedFirst, ReportStep
<1>6. \A q \in Processes : pc'[q] = "fetch" => fetched'[q] = None
  BY <1>1 DEF FetchedFirst, ReportStep
<1>7. \A r \in reports' : \E q \in Processes :
        gpu'[q] = r.gpu /\ Posted(q, r.trace)' /\ fetched'[q] # None
  BY <1>1 DEF FetchedFirst, ReportStep, Posted
<1>8. \A q \in Processes : fetched'[q] # None =>
        history' # None /\ \A r \in fetched'[q] : Reported(q)'
  BY <1>1, <1>2, <1>3, <1>4 DEF FetchedFirst
<1> QED BY <1>1, <1>5, <1>6, <1>7, <1>8 DEF FetchedFirst

\* The reports are fetched during the upload.
LEMMA FetchReportsStep ==
  ASSUME UploadInv, NEW p \in Processes, FetchReports(p)
  PROVE  UploadInv'
<1>1. /\ pc[p] = "fetch" /\ pc[p] \in Reporting /\ fetched[p] = None
      /\ Cur(p) \in Traces /\ Posted(p, Cur(p))
  BY DEF UploadInv, ExecAtHand, AtHand, FetchedFirst, FetchReports, Reporting
<1>2. /\ UNCHANGED <<gpu, code, traces, folder, task, blob, created, reports, execs>>
      /\ NewExecs(p) /\ NewReports(p)
  BY NothingNew DEF FetchReports
<1>3. CASE Fault /\ Ignore(p) /\ UNCHANGED <<fetched, history>>
  BY <1>1, <1>2, <1>3, IgnoreSteps
<1>4. CASE Fetch(p) /\ Goto(p, "project") /\ UNCHANGED <<todo, ignored, faults>>
  <2>1. /\ pc' \in [Processes -> Steps] /\ pc'[p] = "project"
        /\ \A q \in Processes \ {p} : pc'[q] = pc[q]
    BY <1>4, GotoStep DEF UploadInv, TraceTypes, Steps, Uploading, ResultSteps
  <2>2. \A q \in Processes \ {p} : fetched'[q] = fetched[q]
    BY <1>4 DEF Fetch, UploadInv, TraceTypes
  <2>3. ReportStep(p)
    BY <1>1, <1>2, <1>4, <2>1, <2>2 DEF ReportStep, GoesThrough, Uploading, ResultSteps
  <2>4. fetched' \in [Processes -> (SUBSET Report) \cup {None}] /\ FetchedFirst'
    BY <1>1, <1>2, <1>4, <2>1, <2>3, FetchStep
  <2>5. TraceTypes'
    BY <1>2, <1>4, <2>1, <2>4 DEF UploadInv, TraceTypes
  <2>6. Posted(p, Cur(p))'
    BY <1>1, <1>2, <1>4 DEF Posted, Cur
  <2>7. AtHand(p)'
    BY <1>1, <1>4, <2>3, <2>6, AtHandGoesOn
  <2> QED BY <1>2, <2>3, <2>4, <2>5, <2>7, ReportGoesOn
<1> QED BY <1>3, <1>4 DEF FetchReports

\* The execution at hand is reported.
LEMMA ReportCompatibilityStep ==
  ASSUME UploadInv, NEW p \in Processes, ReportCompatibility(p)
  PROVE  UploadInv'
<1>1. /\ pc[p] = "compatibility" /\ pc[p] \in Reporting /\ fetched[p] # None
      /\ Cur(p) \in Traces /\ Posted(p, Cur(p))
  BY DEF UploadInv, ExecAtHand, AtHand, FetchedFirst, ReportCompatibility, Reporting, ResultSteps
<1>2. /\ UNCHANGED <<gpu, code, traces, folder, task, fetched, blob, created, history, execs>>
      /\ NewExecs(p)
  BY NothingNew DEF ReportCompatibility
<1>0. ASSUME reports' = reports \cup {Result(p, Cur(p))}
      PROVE  NewReports(p)
  <2>1. HadSuccessfulExecution(p, Cur(p)) \in BOOLEAN
    BY DEF HadSuccessfulExecution
  <2>2. gpu[p] \in Gpus /\ reports \subseteq Report
    BY DEF UploadInv, TraceTypes
  <2>3. /\ Result(p, Cur(p)) \in Report
        /\ Result(p, Cur(p)).gpu = gpu[p] /\ Result(p, Cur(p)).trace = Cur(p)
    BY <1>1, <2>1, <2>2 DEF Report, Result
  <2> QED BY <1>0, <1>1, <2>2, <2>3 DEF NewReports
<1>3. CASE Fault /\ Ignore(p) /\ reports' \in {reports, reports \cup {Result(p, Cur(p))}}
  <2>1. NewReports(p)
    BY <1>0, <1>3, NothingNew
  <2> QED BY <1>1, <1>2, <1>3, <2>1, IgnoreSteps
<1>4. CASE /\ reports' = reports \cup {Result(p, Cur(p))}
           /\ NextExec(p) /\ UNCHANGED <<ignored, faults>>
  <2>1. /\ pc' \in [Processes -> Steps] /\ pc'[p] = "gather"
        /\ \A q \in Processes \ {p} : pc'[q] = pc[q]
    BY <1>4, GotoStep DEF UploadInv, TraceTypes, NextExec, Steps, Uploading
  <2>2. /\ todo' \in [Processes -> SUBSET Traces] /\ todo'[p] = todo[p] \ {Cur(p)}
        /\ \A q \in Processes \ {p} : todo'[q] = todo[q]
    BY <1>4 DEF UploadInv, TraceTypes, NextExec
  <2>3. Uploaded(p, Cur(p)) /\ NewReports(p)
    BY <1>0, <1>1, <1>4 DEF UploadInv, ExecAtHand, AtHand
  <2>4. \A t \in {Cur(p)} : Through(p, t)'
    BY <1>1, <1>2, <1>4 DEF Through, Posted, Result, HadSuccessfulExecution
  <2>5. ReportStep(p)
    <3>1. \A t \in todo[p] \ todo'[p] : Uploaded(p, t) /\ Through(p, t)'
      BY <2>2, <2>3, <2>4
    <3> QED BY <1>1, <1>2, <1>4, <2>1, <2>2, <2>3, <3>1
            DEF ReportStep, GoesThrough, Uploading, ResultSteps, NewReports
  <2>6. TraceTypes'
    BY <1>2, <1>4, <2>1, <2>2, <2>3 DEF UploadInv, TraceTypes, NewReports
  <2>7. AtHand(p)' /\ FetchedOn(p)
    BY <2>1 DEF AtHand, Reporting, ResultSteps, FetchedOn
  <2>8. FetchedFirst'
    BY <1>2, <2>3, <2>5, <2>7, FetchedStays
  <2> QED BY <1>2, <2>5, <2>6, <2>7, <2>8, ReportGoesOn
<1> QED BY <1>3, <1>4 DEF ReportCompatibility

\* The reports are fetched if nobody did, and the job ends.
LEMMA VerdictStep ==
  ASSUME UploadInv, NEW p \in Processes, Verdict(p)
  PROVE  UploadInv'
<1>1. /\ pc[p] \in {"gather", "verdict"} /\ todo[p] = {} /\ NewExecs(p) /\ NewReports(p)
      /\ UNCHANGED <<gpu, todo, traces, folder, task, ignored, blob, created, reports, execs>>
  BY NothingNew DEF Verdict
<1>2. CASE fetched[p] = None /\ Fetch(p) /\ Goto(p, "verdict") /\ UNCHANGED <<code, faults>>
  <2>1. /\ pc' \in [Processes -> Steps] /\ pc'[p] = "verdict"
        /\ \A q \in Processes \ {p} : pc'[q] = pc[q]
    BY <1>2, GotoStep DEF UploadInv, TraceTypes, Steps, Uploading
  <2>2. \A q \in Processes \ {p} : fetched'[q] = fetched[q]
    BY <1>2 DEF Fetch, UploadInv, TraceTypes
  <2>3. ReportStep(p)
    BY <1>1, <1>2, <2>1, <2>2 DEF ReportStep, GoesThrough, Uploading, ResultSteps
  <2>4. fetched' \in [Processes -> (SUBSET Report) \cup {None}] /\ FetchedFirst'
    BY <1>1, <1>2, <2>1, <2>3, FetchStep
  <2>5. TraceTypes'
    BY <1>1, <1>2, <2>1, <2>4 DEF UploadInv, TraceTypes
  <2>6. AtHand(p)'
    BY <2>1 DEF AtHand, Reporting, ResultSteps
  <2> QED BY <1>1, <2>3, <2>4, <2>5, <2>6, ReportGoesOn
<1>3. ASSUME NEW c \in Nat, Exit(p, c), c = 0 => fetched[p] # None,
             (faults' = faults /\ fetched[p] # None) \/ faults' = faults + 1,
             UNCHANGED <<fetched, history>>
      PROVE  UploadInv'
  <2>1. /\ pc' \in [Processes -> Steps] /\ pc'[p] = "done"
        /\ code' \in [Processes -> Nat] /\ code'[p] = c
        /\ \A q \in Processes \ {p} : pc'[q] = pc[q] /\ code'[q] = code[q]
    BY <1>3, ExitStep DEF UploadInv, TraceTypes
  <2>2. ReportStep(p)
    BY <1>1, <1>3, <2>1 DEF ReportStep, GoesThrough, Uploading, ResultSteps
  <2>3. TraceTypes'
    BY <1>1, <1>3, <2>1 DEF UploadInv, TraceTypes
  <2>4. AtHand(p)' /\ FetchedOn(p)
    BY <2>1 DEF AtHand, Reporting, ResultSteps, FetchedOn
  <2>5. FetchedFirst'
    BY <1>1, <1>3, <2>2, <2>4, FetchedStays
  <2> QED BY <1>1, <2>2, <2>3, <2>4, <2>5, ReportGoesOn
<1>4. CASE fetched[p] # None /\ Exit(p, IF IsSuccess(p) THEN 0 ELSE 1)
           /\ UNCHANGED <<fetched, history, faults>>
  BY <1>3, <1>4
<1>5. CASE Crash(p) /\ UNCHANGED <<fetched, history>>
  BY <1>3, <1>5 DEF Crash, Fault
<1> QED BY <1>2, <1>4, <1>5 DEF Verdict

-----------------------------------------------------------------------------
(* The theorems.                                                            *)

\* It holds initially that nothing was done.
LEMMA UploadInit ==
  ASSUME Init
  PROVE  UploadInv
<1>1. TraceTypes
  <2>1. /\ pc \in [Processes -> Steps] /\ gpu \in [Processes -> Gpus] /\ code \in [Processes -> Nat]
        /\ todo \in [Processes -> SUBSET Traces] /\ traces \in [Processes -> SUBSET Traces]
        /\ faults \in Nat
    BY DEF Init, Steps, Early
  <2>2. folder \in [Processes ->
                     [Traces -> [started : BOOLEAN, ok : BOOLEAN, frames : SUBSET Frames]]]
    BY DEF Init, Clean
  <2>3. /\ task \in [Processes -> [Items -> TaskStates \cup Processes]]
        /\ blob \in [Processes -> [Items -> {"none", "record", "data"}]]
    BY DEF Init, TaskStates
  <2>4. fetched \in [Processes -> (SUBSET Report) \cup {None}]
    BY DEF Init
  <2>5. /\ ignored \in [Processes -> SUBSET Traces]
        /\ reports \subseteq Report /\ execs \subseteq Processes \X Traces \X BOOLEAN
    BY DEF Init
  <2> QED BY <2>1, <2>2, <2>3, <2>4, <2>5 DEF TraceTypes
<1>2. NoFailureYet /\ BlobOfTask
  BY NotAProcess DEF Init, NoFailureYet, BlobOfTask, TaskStates
<1>3. ExecAtHand /\ ExecsAreUploaded
  BY DEF Init, ExecAtHand, AtHand, Reporting, ResultSteps, ExecsAreUploaded
<1>4. FetchedFirst /\ PassedIsDone /\ FoundExists
  BY DEF Init, FetchedFirst, PassedIsDone, FoundExists, ResultSteps
<1>5. Accounts
  BY DEF Init, Accounts, Account, Uploading, ResultSteps
<1> QED BY <1>1, <1>2, <1>3, <1>4, <1>5 DEF UploadInv

\* Every step keeps the invariant.
LEMMA UploadNext ==
  ASSUME UploadInv, [Next]_vars
  PROVE  UploadInv'
<1>1. CASE UNCHANGED vars
  <2>1. UNCHANGED <<pc, gpu, code, todo, traces, folder, task, fetched, ignored, blob, created,
                    history, reports, execs, faults>>
    BY <1>1 DEF vars, local, service
  <2>0. TraceTypes /\ NoFailureYet /\ BlobOfTask /\ PassedIsDone /\ FoundExists
    BY DEF UploadInv
  <2>2. TraceTypes' /\ NoFailureYet' /\ BlobOfTask' /\ PassedIsDone' /\ FoundExists'
    <3>1. TraceTypes' /\ NoFailureYet'
      BY <2>0, <2>1 DEF TraceTypes, NoFailureYet
    <3>2. PassedIsDone' /\ FoundExists'
      BY <2>0, <2>1 DEF PassedIsDone, FoundExists
    <3>3. BlobOfTask'
      <4>1. UNCHANGED <<pc, task, blob>>
        BY <2>1
      <4> QED BY <2>0, <4>1 DEF BlobOfTask
    <3> QED BY <3>1, <3>2, <3>3
  <2>3. ExecAtHand' /\ ExecsAreUploaded'
    BY <2>1 DEF UploadInv, ExecAtHand, AtHand, ExecsAreUploaded, Uploaded, Found, Posted, Cur
  <2>4. FetchedFirst'
    BY <2>1 DEF UploadInv, FetchedFirst, Posted, Reported
  <2>5. Accounts'
    BY <2>1, AccountIsKept DEF UploadInv, Accounts
  <2> QED BY <2>2, <2>3, <2>4, <2>5 DEF UploadInv
<1>2. ASSUME NEW p \in Processes, Process(p)
      PROVE  UploadInv'
  BY <1>2, StartStep, CacheTraceStep, ReplayStep, JobEndsStep, HangStep, ScheduleStep, GatherStep,
     PostExecStep, FetchReportsStep, GetOrCreateStep, ReportCompatibilityStep, VerdictStep
     DEF Process
<1>3. ASSUME NEW p \in Processes, NEW i \in Items, Worker(p, i)
      PROVE  UploadInv'
  BY <1>3, CheckImageStep, MakeBlobStep, PutBlobStep DEF Worker
<1> QED BY <1>1, <1>2, <1>3 DEF Next

\* An execution is posted only once each of its frames has a blob (_upload_frame_blob() and
\* the results that Report.upload() waits for): one that has its data, or one that was made
\* by another job, which fills it before it is over or else ignored its own execution.
THEOREM ExecsHaveTheirFrames == Spec => []FramesAreUploaded
<1>1. Init => UploadInv
  BY UploadInit
<1>2. UploadInv /\ [Next]_vars => UploadInv'
  BY UploadNext
<1>3. UploadInv => FramesAreUploaded
  <2> SUFFICES ASSUME UploadInv, NEW e \in execs, NEW i \in Found(e[1], e[2])
               PROVE  \E q \in Processes :
                        /\ task[e[1]][i] = q
                        /\ \/ blob[q][i] = "data"
                           \/ q # e[1] /\ (pc[q] # "done" \/ i[1] \in ignored[q])
    BY DEF FramesAreUploaded
  <2>1. e[1] \in Processes /\ e[2] \in Traces
    BY DEF UploadInv, TraceTypes
  <2>2. i \in Items
    BY <2>1, FoundIsItems DEF UploadInv
  <2>3. PICK q \in Processes : task[e[1]][i] = q
    BY DEF UploadInv, ExecsAreUploaded, Uploaded
  <2>4. blob[q][i] # "none" /\ (q = e[1] => blob[q][i] = "data")
    BY <2>1, <2>2, <2>3 DEF UploadInv, BlobOfTask
  <2>5. CASE blob[q][i] = "record" /\ pc[q] = "done"
    <3>1. task[q][i] \in {"put", "failed"}
      BY <2>2, <2>5 DEF UploadInv, BlobOfTask
    <3>2. task[q][i] \notin Processes /\ task[q][i] # "none"
      BY <3>1, NotAProcess DEF TaskStates
    <3>3. Account(q) /\ pc[q] \in Uploading
      BY <2>5 DEF UploadInv, Accounts, Uploading
    <3>4. todo[q] = {} /\ TaskAccounted(q, i)
      BY <2>2, <2>5, <3>2, <3>3 DEF Account
    <3> QED BY <2>3, <2>4, <2>5, <3>2, <3>4 DEF TaskAccounted
  <2>6. blob[q][i] \in {"none", "record", "data"}
    BY <2>2 DEF UploadInv, TraceTypes
  <2> QED BY <2>3, <2>4, <2>5, <2>6
<1> QED BY <1>1, <1>2, <1>3, PTL DEF Spec

\* Every trace of a job that comes to its verdict was ignored after a failure, or its
\* execution was posted and whether it works was reported (Report.upload()): jobs that
\* report a commit at the same time, and race to create its project
\* (project_get_or_create()), do not cost each other a result.
THEOREM ResultsReported == Spec => []ResultsAreReported
<1>1. Init => UploadInv
  BY UploadInit
<1>2. UploadInv /\ [Next]_vars => UploadInv'
  BY UploadNext
<1>3. UploadInv => ResultsAreReported
  <2> SUFFICES ASSUME UploadInv PROVE ResultsAreReported
    OBVIOUS
  <2>1. ASSUME NEW p \in Processes, pc[p] = "done", fetched[p] # None,
               NEW t \in traces[p] \ ignored[p]
        PROVE  Posted(p, t) /\ Result(p, t) \in reports
    <3>1. Account(p) /\ pc[p] \in Uploading
      BY <2>1 DEF UploadInv, Accounts, Uploading
    <3>2. todo[p] = {}
      BY <2>1, <3>1 DEF Account
    <3> QED BY <2>1, <3>1, <3>2 DEF Account, Through
  <2>2. faults = 0 => \A p \in Processes :
          ignored[p] = {} /\ (pc[p] = "done" => fetched[p] # None)
    BY DEF UploadInv, NoFailureYet
  <2> QED BY <2>1, <2>2 DEF ResultsAreReported
<1> QED BY <1>1, <1>2, <1>3, PTL DEF Spec

-----------------------------------------------------------------------------
(* What a verdict rests on does not change once it is there.                *)

\* What was replayed by q, what it posted and the history stay.
Settled(q) ==
  /\ traces'[q] = traces[q] /\ folder'[q] = folder[q] /\ code'[q] = code[q]
  /\ execs \subseteq execs' /\ history' = history /\ gpu' = gpu

\* The steps of the others, once q is done and the history is chosen.
LEMMA DoneIsSettled ==
  ASSUME UploadInv, [Next]_vars, NEW q \in Processes, pc[q] = "done", history # None
  PROVE  Settled(q)
<1> USE DEF UploadInv, TraceTypes, Settled
<1>1. CASE UNCHANGED vars
  BY <1>1 DEF vars, local, service
<1>2. ASSUME NEW p \in Processes, Start(p) \/ CacheTrace(p) \/ Replay(p) \/ JobEnds(p) \/ Hang(p)
      PROVE  Settled(q)
  <2>1. CASE Start(p)
    BY <2>1 DEF Start, service
  <2>2. CASE CacheTrace(p)
    BY <2>2 DEF CacheTrace, Crash, Exit, service
  <2>3. CASE Replay(p)
    BY <2>3 DEF Replay, service
  <2>4. CASE JobEnds(p)
    BY <2>4 DEF JobEnds, local, service
  <2>5. CASE Hang(p)
    BY <2>5 DEF Hang, local, service
  <2> QED BY <1>2, <2>1, <2>2, <2>3, <2>4, <2>5
<1>3. ASSUME NEW p \in Processes, Schedule(p) \/ Gather(p) \/ PostExec(p) \/ FetchReports(p)
      PROVE  Settled(q)
  <2>1. CASE Schedule(p)
    BY <2>1 DEF Schedule, Crash, Exit, service
  <2>2. CASE Gather(p)
    BY <2>2 DEF Gather, service
  <2>3. CASE PostExec(p)
    BY <2>3 DEF PostExec
  <2>4. CASE FetchReports(p)
    BY <2>4 DEF FetchReports, Fetch
  <2> QED BY <1>3, <2>1, <2>2, <2>3, <2>4
<1>4. ASSUME NEW p \in Processes,
             Project(p) \/ Commit(p) \/ ReportCompatibility(p) \/ Verdict(p)
      PROVE  Settled(q)
  <2>1. CASE Project(p)
    BY <2>1 DEF Project
  <2>2. CASE Commit(p)
    BY <2>2 DEF Commit
  <2>3. CASE ReportCompatibility(p)
    BY <2>3 DEF ReportCompatibility
  <2>4. CASE Verdict(p)
    BY <2>4 DEF Verdict, Fetch, Crash, Exit
  <2> QED BY <1>4, <2>1, <2>2, <2>3, <2>4
<1>5. ASSUME NEW p \in Processes, NEW i \in Items, Worker(p, i)
      PROVE  Settled(q)
  BY <1>5 DEF Worker, CheckImage, MakeBlob, PutBlob, service
<1> QED BY <1>1, <1>2, <1>3, <1>4, <1>5 DEF Next, Process

\* A job passes at the verdict only, with the reports that it fetched.
Passes(q) ==
  /\ fetched[q] # None /\ IsSuccess(q)
  /\ UNCHANGED <<gpu, traces, folder, fetched, history, execs>>

\* No other step lets a job pass.
LEMMA PassesAtTheVerdict ==
  ASSUME UploadInv, [Next]_vars, NEW q \in Processes, code[q] # 0, code'[q] = 0
  PROVE  Passes(q)
<1> USE DEF UploadInv, TraceTypes
<1>1. PICK p \in Processes : code' # code /\ Process(p)
  <2>1. code' # code
    OBVIOUS
  <2>2. Next
    BY <2>1 DEF vars
  <2>3. ASSUME NEW p \in Processes, NEW i \in Items, Worker(p, i)
        PROVE  FALSE
    BY <2>1, <2>3 DEF Worker, CheckImage, MakeBlob, PutBlob
  <2> QED BY <2>1, <2>2, <2>3 DEF Next
<1>2. ~ Exit(p, 1)
  BY DEF Exit
<1>3. ~ Start(p) /\ ~ CacheTrace(p) /\ ~ Replay(p) /\ ~ JobEnds(p) /\ ~ Hang(p) /\ ~ Schedule(p)
  BY <1>1, <1>2 DEF Start, CacheTrace, Replay, JobEnds, Hang, Schedule, Crash
<1>4. ~ Gather(p) /\ ~ PostExec(p) /\ ~ FetchReports(p) /\ ~ Project(p) /\ ~ Commit(p)
      /\ ~ ReportCompatibility(p)
  BY <1>1 DEF Gather, PostExec, FetchReports, Project, Commit, ReportCompatibility
<1>5. Verdict(p)
  BY <1>1, <1>3, <1>4 DEF Process
<1>6. fetched[p] # None /\ Exit(p, IF IsSuccess(p) THEN 0 ELSE 1) /\ UNCHANGED <<fetched, history>>
  BY <1>1, <1>2, <1>5 DEF Verdict, Crash
<1>7. p = q /\ IsSuccess(p)
  BY <1>2, <1>6 DEF Exit
<1> QED BY <1>5, <1>6, <1>7 DEF Passes, Verdict

\* A trace of a job that passes: the frames that were found were posted, and it was
\* replayed if the history wants it to and nobody reported it before.
Replayed(p, t) ==
  /\ folder[p][t].frames # {} => <<p, t, TRUE>> \in execs
  /\ ~ Reported(p) /\ history = {[working |-> TRUE, count |-> 21]}
       => folder[p][t].ok /\ folder[p][t].frames = Frames

\* The verdict is about what was replayed.
LEMMA SuccessMeansReplayed ==
  ASSUME UploadInv, NEW p \in Processes, fetched[p] # None, IsSuccess(p), NEW t \in traces[p]
  PROVE  Replayed(p, t)
<1>1. t \in Traces /\ folder[p][t].frames \subseteq Frames
  BY DEF UploadInv, TraceTypes
<1>2. folder[p][t].frames # {} => <<p, t, TRUE>> \in execs
  BY <1>1 DEF IsSuccess, Acceptable
<1>3. ASSUME ~ Reported(p), history = {[working |-> TRUE, count |-> 21]}
      PROVE  folder[p][t].ok /\ folder[p][t].frames = Frames
  <2>1. fetched[p] = {}
    BY <1>3 DEF UploadInv, TraceTypes, FetchedFirst
  <2>2. Applicable(p, t) = history
    BY <2>1 DEF Applicable
  <2>3. ExpectedToWork(p, t)
    BY <1>3, <2>2 DEF ExpectedToWork, MIN_ACCEPTABLE_AGREEMENT_COUNT
  <2> QED BY <2>3 DEF IsSuccess, HadSuccessfulExecution
<1> QED BY <1>2, <1>3 DEF Replayed

\* A job passes only if what its GPU is expected to replay was replayed to the end, and
\* the frames that were found were posted and known (generate_junit_result(),
\* Report.is_success), whatever failed on the way, for any number of jobs and failures.
THEOREM PassedMeansReplayed == Spec => []GreenMeansReplayed
<1>1. Init => UploadInv /\ GreenMeansReplayed
  <2>1. Init => GreenMeansReplayed
    BY DEF Init, GreenMeansReplayed
  <2> QED BY <2>1, UploadInit
<1>2. UploadInv /\ GreenMeansReplayed /\ [Next]_vars => UploadInv' /\ GreenMeansReplayed'
  <2> SUFFICES ASSUME UploadInv, GreenMeansReplayed, [Next]_vars
               PROVE  GreenMeansReplayed'
    BY UploadNext
  <2> SUFFICES ASSUME NEW p \in Processes, code'[p] = 0, NEW t \in traces'[p]
               PROVE  Replayed(p, t)'
    BY DEF GreenMeansReplayed, Replayed
  <2>1. CASE code[p] = 0
    <3>1. pc[p] = "done" /\ history # None
      BY <2>1 DEF UploadInv, PassedIsDone, FetchedFirst
    <3>2. Settled(p)
      BY <3>1, DoneIsSettled
    <3>3. Replayed(p, t)
      BY <2>1, <3>2 DEF GreenMeansReplayed, Replayed, Settled
    <3>4. Reported(p) => Reported(p)'
      BY <3>2 DEF Reported, Posted, Settled
    <3> QED BY <3>2, <3>3, <3>4 DEF Replayed, Settled
  <2>2. CASE code[p] # 0
    <3>1. Passes(p)
      BY <2>2, PassesAtTheVerdict
    <3>2. Replayed(p, t)
      BY <3>1, SuccessMeansReplayed DEF Passes
    <3>3. Reported(p)' = Reported(p)
      BY <3>1 DEF Reported, Posted, Passes
    <3> QED BY <3>1, <3>2, <3>3 DEF Replayed, Passes
  <2> QED BY <2>1, <2>2
<1> QED BY <1>1, <1>2, PTL DEF Spec
=============================================================================
