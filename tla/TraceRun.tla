------------------------------- MODULE TraceRun -------------------------------
(***************************************************************************)
(* valvetraces: run_job() caches the traces in the farm's MinIO, has a     *)
(* test machine replay them (exec_script()), and report_results() uploads  *)
(* the frames in a pool of processes, posts the executions to the traces   *)
(* service, and decides whether the CI job passes.                         *)
(*                                                                         *)
(* A process here is one CI job of a commit.  The job of a GPU may be run  *)
(* again once it ended; jobs of different GPUs run at the same time.  The  *)
(* service is external, and each call to it may fail.  A trace is named by *)
(* its size.                                                               *)
(***************************************************************************)
EXTENDS Naturals, FiniteSets, FiniteSetsExt

CONSTANTS
  Traces,        \* sizes
  Frames,        \* the frames to capture of every trace
  Processes, Gpus,
  Limits,        \* values of --max-trace-db-size-gb
  None,          \* not fetched yet
  MaxFaults,     \* bound: calls and downloads that fail
  MaxTraces      \* bound: traces of all the jobs together

ASSUME TracesAreSizes == Traces \subseteq Nat \ {0} /\ IsFiniteSet(Traces)

VARIABLES
  pc, gpu, code,    \* process |-> its step, its GPU, its exit code
  todo,             \* process |-> the traces it has yet to go through
  traces,           \* process |-> traces_to_cache
  cache,            \* trace |-> what MinIO has of it
  folder,           \* process |-> trace |-> the files of its job folder
  task,             \* process |-> frame |-> the pool's task to upload it, or the
                    \* process whose blob the frame has in the end
  blob,             \* service: process |-> frame |-> the blob it made
  created,          \* service: is there the project, and the commit?
  history,          \* service: the reports of a trace for the commits before; chosen
                    \* when they are first asked for
  reports,          \* service: the reports for this commit
  execs,            \* service: process, trace, are its frames acceptable?
  fetched,          \* process |-> the reports it fetched
  ignored,          \* process |-> the executions that it gave up
  faults

service == <<blob, created, history, reports, execs>>
local == <<todo, traces, folder, task, fetched, ignored>>
vars == <<pc, gpu, code, local, cache, service, faults>>

Items == Traces \X Frames
MIN_ACCEPTABLE_AGREEMENT_COUNT == 20
Histories ==
  {{}, {[working |-> TRUE, count |-> 20]}, {[working |-> TRUE, count |-> 21]},
       {[working |-> FALSE, count |-> 21]}}
Report == [gpu : Gpus, trace : Traces, working : BOOLEAN]
Clean == [started |-> FALSE, ok |-> FALSE, frames |-> {}]
TaskStates == {"none", "queued", "record", "put", "failed"}

ASSUME NamesAssumption ==
  /\ Processes \cap TaskStates = {}
  /\ \A s \in SUBSET Report : s # None
  /\ \A h \in Histories : h # None

Posted(p, t) == \E e \in execs : e[1] = p /\ e[2] = t

TypeOK ==
  /\ pc \in [Processes -> {"idle", "cache", "run", "hung", "report", "gather", "post", "fetch",
                            "project", "find project", "commit", "find commit", "compatibility",
                            "verdict", "done"}]
  /\ gpu \in [Processes -> Gpus] /\ code \in [Processes -> 0 .. 2]
  /\ todo \in [Processes -> SUBSET Traces] /\ traces \in [Processes -> SUBSET Traces]
  /\ cache \in [Traces -> {"absent", "truncated", "complete"}]
  /\ folder \in [Processes -> [Traces -> [started : BOOLEAN, ok : BOOLEAN, frames : SUBSET Frames]]]
  /\ task \in [Processes -> [Items -> TaskStates \cup Processes]]
  /\ blob \in [Processes -> [Items -> {"none", "record", "data"}]]
  /\ created \subseteq {"project", "commit"} /\ reports \subseteq Report
  /\ history \in Histories \cup {None}
  /\ execs \subseteq Processes \X Traces \X BOOLEAN
  /\ fetched \in [Processes -> (SUBSET Report) \cup {None}]
  /\ ignored \in [Processes -> SUBSET Traces] /\ faults \in 0 .. MaxFaults

FirstProcess == CHOOSE p \in Processes : TRUE
Init ==
  /\ pc = [p \in Processes |-> "idle"] /\ gpu \in [Processes -> Gpus]
  /\ gpu[FirstProcess] = CHOOSE g \in Gpus : TRUE    \* by symmetry
  /\ code = [p \in Processes |-> 2]
  /\ todo = [p \in Processes |-> {}] /\ traces = [p \in Processes |-> {}]
  /\ cache = [t \in Traces |-> "absent"]
  /\ folder = [p \in Processes |-> [t \in Traces |-> Clean]]
  /\ task = [p \in Processes |-> [i \in Items |-> "none"]]
  /\ blob = [p \in Processes |-> [i \in Items |-> "none"]]
  /\ created = {} /\ reports = {} /\ execs = {}
  /\ history = None
  /\ fetched = [p \in Processes |-> None] /\ ignored = [p \in Processes |-> {}]
  /\ faults = 0

Goto(p, s) == pc' = [pc EXCEPT ![p] = s]
Exit(p, c) == Goto(p, "done") /\ code' = [code EXCEPT ![p] = c]
Cur(p) == Min(todo[p])
\* A call that fails, once the retries of the session are used up.  It may have done what
\* it was to do, and only the answer be lost.
Fault == faults < MaxFaults /\ faults' = faults + 1
\* An exception that nothing catches.
Crash(p) == Fault /\ Exit(p, 1)

-----------------------------------------------------------------------------
(* run_job()                                                                *)

\* traces_under_gb(): from the smallest on, as long as they fit.
TracesUnderGb(limit) ==
  {t \in Traces : SumSet({u \in Traces : u <= t}) < limit}

\* list_traces(), and the limit.
Start(p) == \E limit \in Limits :
  /\ pc[p] = "idle" /\ (p = FirstProcess \/ pc[FirstProcess] # "idle")    \* by symmetry
  /\ \A q \in Processes \ {p} : gpu[q] = gpu[p] => pc[q] \in {"idle", "done"}
  /\ traces' = [traces EXCEPT ![p] = TracesUnderGb(limit)]
  /\ Cardinality({e \in Processes \X Traces : e[2] \in traces'[e[1]]}) <= MaxTraces
  /\ todo' = [todo EXCEPT ![p] = TracesUnderGb(limit)]
  /\ Goto(p, "cache")
  /\ UNCHANGED <<gpu, code, cache, folder, task, service, fetched, ignored, faults>>

\* cache_all_traces_to_local_minio(): an object of the right size is kept.  A
\* download that breaks off raises, or ends early and is stored as it is.  After
\* the last one the job folder is made anew, with a script for every trace.
CacheTrace(p) ==
  /\ pc[p] = "cache"
  /\ \/ todo[p] = {} /\ Goto(p, "run") /\ UNCHANGED <<code, todo, cache, faults>>
     \/ /\ todo[p] # {} /\ UNCHANGED <<pc, code>>
        /\ todo' = [todo EXCEPT ![p] = @ \ {Cur(p)}]
        /\ \/ cache' = [cache EXCEPT ![Cur(p)] = "complete"] /\ faults' = faults
           \/ cache[Cur(p)] # "complete" /\ cache' = [cache EXCEPT ![Cur(p)] = "truncated"] /\ Fault
     \/ /\ todo[p] # {} /\ cache[Cur(p)] # "complete" /\ Crash(p) /\ UNCHANGED <<todo, cache>>
  /\ UNCHANGED <<gpu, traces, folder, task, service, fetched, ignored>>

\* Mutant: the script does not note that it started.
ExecScriptUnmarked(t, f) ==
  /\ f.ok => f.started
  /\ cache[t] = "truncated" => ~ f.ok /\ f.frames = {}

\* exec.sh of trace t, and the files f that it leaves: .started, the frames that
\* were captured, and .done with the exit code, which is missing if the machine
\* hangs.
ExecScript(t, f) ==
  /\ f.started
  /\ cache[t] = "truncated" => ~ f.ok /\ f.frames = {}

\* valvetraces-run.sh runs the scripts of the traces that were not started, again
\* after every reboot.
Pending(p) == {t \in traces[p] : ~ folder[p][t].started}
Replay(p) ==
  /\ pc[p] = "run" /\ Pending(p) # {}
  /\ \E f \in [started : BOOLEAN, ok : BOOLEAN, frames : SUBSET Frames] :
       /\ ExecScript(Min(Pending(p)), f)
       /\ folder' = [folder EXCEPT ![p][Min(Pending(p))] = f]
  /\ UNCHANGED <<pc, gpu, code, todo, traces, task, fetched, ignored, cache, service, faults>>

\* The executor's job ends: the traces are through, or it was given up.
JobEnds(p) ==
  /\ pc[p] = "run" /\ Goto(p, "report")
  /\ IF Pending(p) = {} THEN faults' = faults ELSE Fault
  /\ UNCHANGED <<gpu, code, local, cache, service>>

\* The executor's client is told to wait (-w) for a machine: if it has to, it hangs
\* (JobRequests).
Hang(p) ==
  /\ pc[p] = "run" /\ Pending(p) = traces[p] /\ Goto(p, "hung") /\ Fault
  /\ UNCHANGED <<gpu, code, local, cache, service>>

-----------------------------------------------------------------------------
(* report_results() and Report.upload()                                     *)

\* The report is valid if gfxinfo.json and glxinfo could be read; the job is made,
\* and the executions posted for it are listed.  The uploads of all the frames are
\* given to the pool: no execution counts as posted before, as the driver in the
\* service's answer is a dict, and no GpuDriver is equal to it.
Found(p, t) == {t} \X folder[p][t].frames
Schedule(p) ==
  /\ pc[p] = "report"
  /\ \/ /\ Goto(p, "gather") /\ todo' = [todo EXCEPT ![p] = traces[p]]
        /\ task' = [task EXCEPT ![p] = [i \in Items |->
                       IF i[1] \in traces[p] /\ i \in Found(p, i[1]) THEN "queued" ELSE "none"]]
        /\ UNCHANGED <<code, faults>>
     \/ Crash(p) /\ UNCHANGED <<todo, task>>
  /\ UNCHANGED <<gpu, traces, folder, fetched, ignored, cache, service>>

SetTask(p, i, s) == task' = [task EXCEPT ![p][i] = s]
Pool(p) == pc[p] # "done"

\* _upload_frame_blob(): the blob of the same image, if the service knows one.
CheckImage(p, i) ==
  /\ Pool(p) /\ task[p][i] = "queued"
  /\ \/ \E q \in Processes : blob[q][i] # "none" /\ SetTask(p, i, q) /\ faults' = faults
     \/ (\A q \in Processes : blob[q][i] = "none") /\ SetTask(p, i, "record") /\ faults' = faults
     \/ SetTask(p, i, "failed") /\ Fault
  /\ UNCHANGED <<pc, gpu, code, todo, traces, folder, fetched, ignored, cache, service>>

\* _upload_blob(): the service makes a blob, then the file is sent to its URL.
MakeBlob(p, i) ==
  /\ Pool(p) /\ task[p][i] = "record"
  /\ \/ /\ SetTask(p, i, "put") /\ faults' = faults
        /\ blob' = [blob EXCEPT ![p][i] = "record"]
     \/ SetTask(p, i, "failed") /\ Fault /\ blob' \in {blob, [blob EXCEPT ![p][i] = "record"]}
  /\ UNCHANGED <<pc, gpu, code, todo, traces, folder, fetched, ignored, cache,
                 created, history, reports, execs>>

PutBlob(p, i) ==
  /\ Pool(p) /\ task[p][i] = "put"
  /\ \/ /\ SetTask(p, i, p) /\ faults' = faults
        /\ blob' = [blob EXCEPT ![p][i] = "data"]
     \/ SetTask(p, i, "failed") /\ Fault /\ blob' \in {blob, [blob EXCEPT ![p][i] = "data"]}
  /\ UNCHANGED <<pc, gpu, code, todo, traces, folder, fetched, ignored, cache,
                 created, history, reports, execs>>

\* The next execution; what its uploads or calls raise is printed, and the
\* execution ignored.
NextExec(p) == todo' = [todo EXCEPT ![p] = @ \ {Cur(p)}] /\ Goto(p, "gather")
Ignore(p) == NextExec(p) /\ ignored' = [ignored EXCEPT ![p] = @ \cup {Cur(p)}]

\* Mutant: the uploads are not waited for.
GatherReady(p) ==
  /\ pc[p] = "gather" /\ todo[p] # {}
  /\ IF \E i \in Found(p, Cur(p)) : task[p][i] = "failed" THEN Ignore(p)
     ELSE Goto(p, "post") /\ UNCHANGED <<todo, ignored>>
  /\ UNCHANGED <<gpu, code, traces, folder, task, fetched, cache, service, faults>>

\* The results of the tasks are waited for, and after them that of the task that uploads
\* the log, which may fail as well.
Gather(p) ==
  /\ pc[p] = "gather" /\ todo[p] # {}
  /\ \/ (\E i \in Found(p, Cur(p)) : task[p][i] = "failed") /\ Ignore(p) /\ faults' = faults
     \/ /\ \A i \in Found(p, Cur(p)) : task[p][i] \in Processes
        /\ \/ Goto(p, "post") /\ UNCHANGED <<todo, ignored, faults>>
           \/ Fault /\ Ignore(p)
  /\ UNCHANGED <<gpu, code, traces, folder, task, fetched, cache, service>>

\* What the service knows of a frame that was seen before: was it assessed, and
\* what do the statistics of the GPU's last runs say of it?  The one of a trace that
\* is the least acceptable decides.
Assessments == [is_acceptable : BOOLEAN \cup {None},
                output : {"missing", "released", "unstable", "stable"}]

\* TraceExecFrameOutput.acceptability: a known frame is fine even if it was found to
\* be unacceptable; an unknown one, if released code has it or the output varies.
Acceptability(a) == a.is_acceptable # None \/ a.output \in {"released", "unstable"}

\* report_trace_execution(): the answer tells what is known of the frames, unless it is
\* lost.
PostExec(p) ==
  /\ pc[p] = "post"
  /\ \/ /\ \E a \in Assessments : execs' = execs \cup {<<p, Cur(p), Acceptability(a)>>}
        /\ faults' = faults
        /\ Goto(p, IF fetched[p] = None THEN "fetch" ELSE "project")
        /\ UNCHANGED <<todo, ignored>>
     \/ Fault /\ Ignore(p) /\ execs' \in {execs, execs \cup {<<p, Cur(p), FALSE>>}}
  /\ UNCHANGED <<gpu, code, traces, folder, task, fetched, cache,
                 blob, created, history, reports>>

\* trace_list_compatibly_reports(), once per report: for this GPU.
Fetch(p) ==
  /\ fetched' = [fetched EXCEPT ![p] = {r \in reports : r.gpu = gpu[p]}]
  /\ IF history = None THEN history' \in Histories ELSE history' = history
FetchReports(p) ==
  /\ pc[p] = "fetch"
  /\ \/ Fetch(p) /\ Goto(p, "project") /\ UNCHANGED <<todo, ignored, faults>>
     \/ Fault /\ Ignore(p) /\ UNCHANGED <<fetched, history>>
  /\ UNCHANGED <<gpu, code, traces, folder, task, cache, blob, created, reports, execs>>

\* Mutant: what exists already is not looked for.
CreateAnew(p, kind, find, next) ==
  \/ kind \in created /\ Ignore(p) /\ UNCHANGED <<created, faults>>
  \/ kind \notin created /\ created' = created \cup {kind} /\ Goto(p, next) /\ UNCHANGED <<todo, ignored, faults>>
  \/ Fault /\ Ignore(p) /\ created' \in {created, created \cup {kind}}

\* project_get_or_create() and commit_get_or_create(): try to create it; if this is
\* refused (409), it is looked for, and if it is not found, a ValueError is raised.
Create(p, kind, find, next) ==
  \/ /\ IF kind \in created THEN Goto(p, find) ELSE Goto(p, next)
     /\ created' = created \cup {kind} /\ UNCHANGED <<todo, ignored, faults>>
  \/ Fault /\ Ignore(p) /\ created' \in {created, created \cup {kind}}
Find(p, kind, next) ==
  /\ \/ kind \in created /\ Goto(p, next) /\ UNCHANGED <<todo, ignored, faults>>
     \/ kind \notin created /\ Ignore(p) /\ faults' = faults
     \/ Fault /\ Ignore(p)
  /\ created' = created

Project(p) ==
  /\ \/ pc[p] = "project" /\ Create(p, "project", "find project", "commit")
     \/ pc[p] = "find project" /\ Find(p, "project", "commit")
  /\ UNCHANGED <<gpu, code, traces, folder, task, fetched, cache,
                 blob, history, reports, execs>>
Commit(p) ==
  /\ \/ pc[p] = "commit" /\ Create(p, "commit", "find commit", "compatibility")
     \/ pc[p] = "find commit" /\ Find(p, "commit", "compatibility")
  /\ UNCHANGED <<gpu, code, traces, folder, task, fetched, cache,
                 blob, history, reports, execs>>

HadSuccessfulExecution(p, t) == folder[p][t].ok /\ folder[p][t].frames = Frames

\* What p reports of a trace.
Result(p, t) == [gpu |-> gpu[p], trace |-> t, working |-> HadSuccessfulExecution(p, t)]

\* A new report for HEAD.  Existing ones are not re-used: the applicable reports
\* are looked up by the name of the project, and kept by its repository.
ReportCompatibility(p) ==
  /\ pc[p] = "compatibility"
  /\ \/ /\ reports' = reports \cup {Result(p, Cur(p))}
        /\ NextExec(p) /\ UNCHANGED <<ignored, faults>>
     \/ Fault /\ Ignore(p) /\ reports' \in {reports, reports \cup {Result(p, Cur(p))}}
  /\ UNCHANGED <<gpu, code, traces, folder, task, fetched, cache,
                 blob, created, history, execs>>

-----------------------------------------------------------------------------
(* The verdict: generate_junit_result() and Report.is_success.              *)

\* applicable_compatibility_reports: those of HEAD hide the ones of the commits
\* below, and nobody but this GPU's jobs agreed with them.
Applicable(p, t) ==
  LET head == {r \in fetched[p] : r.trace = t} IN
  IF head # {} THEN {[working |-> r.working, count |-> 1] : r \in head} ELSE history

\* Mutant: one more agreement is asked for.
ExpectedToWorkMore(p, t) ==
  /\ Applicable(p, t) # {}
  /\ \A r \in Applicable(p, t) : r.working /\ r.count > MIN_ACCEPTABLE_AGREEMENT_COUNT + 1

ExpectedToWork(p, t) ==
  /\ Applicable(p, t) # {}
  /\ \A r \in Applicable(p, t) : r.working /\ r.count > MIN_ACCEPTABLE_AGREEMENT_COUNT

\* TraceExec.frames: a frame that was found has to be uploaded and acceptable, one
\* that was not found is missed if the trace is expected to work.
Acceptable(p, t, f) ==
  IF f \in folder[p][t].frames THEN <<p, t, TRUE>> \in execs
                               ELSE ~ ExpectedToWork(p, t)

IsSuccess(p) ==
  \A t \in traces[p] : /\ HadSuccessfulExecution(p, t) \/ ~ ExpectedToWork(p, t)
                       /\ \A f \in Frames : Acceptable(p, t, f)

\* Reports that no upload fetched are fetched now.
Verdict(p) ==
  /\ pc[p] \in {"gather", "verdict"} /\ todo[p] = {}
  /\ \/ /\ fetched[p] = None /\ Fetch(p) /\ Goto(p, "verdict") /\ UNCHANGED <<code, faults>>
     \/ /\ fetched[p] # None /\ Exit(p, IF IsSuccess(p) THEN 0 ELSE 1)
        /\ UNCHANGED <<fetched, history, faults>>
     \/ Crash(p) /\ UNCHANGED <<fetched, history>>
  /\ UNCHANGED <<gpu, todo, traces, folder, task, ignored, cache, blob, created, reports, execs>>

-----------------------------------------------------------------------------
Process(p) ==
  \/ Start(p) \/ CacheTrace(p) \/ Replay(p) \/ JobEnds(p) \/ Hang(p)
  \/ Schedule(p) \/ Gather(p) \/ PostExec(p)
  \/ FetchReports(p) \/ Project(p) \/ Commit(p) \/ ReportCompatibility(p)
  \/ Verdict(p)

Worker(p, i) == CheckImage(p, i) \/ MakeBlob(p, i) \/ PutBlob(p, i)

Next == \E p \in Processes : Process(p) \/ \E i \in Items : Worker(p, i)

\* The processes, the machine and the workers of the pool go on.  A client that hangs
\* does not.
Spec ==
  /\ Init /\ [][Next]_vars
  /\ \A p \in Processes : WF_vars(Process(p)) /\ \A i \in Items : WF_vars(Worker(p, i))

-----------------------------------------------------------------------------
(* Properties.                                                              *)

Reported(p) == \E q \in Processes \ {p}, t \in Traces : gpu[q] = gpu[p] /\ Posted(q, t)

\* The first job of a commit on a GPU passes only if every trace that more than 20
\* earlier reports agree upon was replayed to the end with all its frames, and every
\* frame that was captured is known, and was posted: whatever crashed, failed to
\* upload or was ignored on the way.
GreenMeansReplayed ==
  \A p \in Processes : code[p] = 0 =>
    \A t \in traces[p] :
      /\ folder[p][t].frames # {} => <<p, t, TRUE>> \in execs
      /\ ~ Reported(p) /\ history = {[working |-> TRUE, count |-> 21]}
           => folder[p][t].ok /\ folder[p][t].frames = Frames

\* An execution is posted with a blob for each of its frames: one that this job filled,
\* or one that another job had made before, which may be announced only
\* (_upload_frame_blob()); but once that job is over the blob has its data, unless the
\* job ignored the execution it was for.
FramesAreUploaded ==
  \A e \in execs : \A i \in Found(e[1], e[2]) :
    \E q \in Processes :
      /\ task[e[1]][i] = q
      /\ blob[q][i] = "data" \/ (q # e[1] /\ (pc[q] # "done" \/ i[1] \in ignored[q]))

\* A job that comes to its verdict has reported, for every trace, whether it works, after
\* it posted its execution, unless the execution was ignored; and it takes a call that
\* failed to ignore one or to end before: jobs that report a commit at the same time,
\* and create its project at once, do not cost each other a result.
ResultsAreReported ==
  /\ \A p \in Processes : pc[p] = "done" /\ fetched[p] # None =>
       \A t \in traces[p] \ ignored[p] : Posted(p, t) /\ Result(p, t) \in reports
  /\ faults = 0 => \A p \in Processes :
       ignored[p] = {} /\ (pc[p] = "done" => fetched[p] # None)

\* Every job that starts ends, also if traces hang the machine when they are replayed, but for one
\* whose client had to wait for a machine.
EveryJobEnds ==
  \A p \in Processes : (pc[p] # "idle") ~> (pc[p] = "done" \/ [](pc[p] = "hung"))
=============================================================================
