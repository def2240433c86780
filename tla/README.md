# Valve CI infrastructure: TLA+ specifications and proofs

A CI gateway runs jobs on test machines (DUTs). For every machine, an *executor* takes a
job from the REST API, powers the machine through a PDU, relays its serial console between
SALAD and the client of the job, watches the output for patterns and timeouts, and reboots
or gives up. A machine that is not ready for service is trained by *SergentHartman* until
it proves that it boots reliably. *MaRS* keeps the database of the machines and exposes them
as GitLab runners, *SALAD* relays their consoles, *BOOTS* hands out their boot scripts, the
*client* queues a job and follows it, and *valvetraces* is a client that replays traces of
games and decides whether a CI job passes.

Paths below are relative to `src/executor/server/src/valve_gfx_ci/executor/server/` unless
they start with `src/`.

## Inventory

| Part | State | Operations | Talks to | What makes it correct |
|---|---|---|---|---|
| SergentHartman (`executor.py`) | is_active, cur_loop, statuses | next_task, report, reset | Executor; MaRS (ready_for_service) | registration first; a verdict on exactly the boots that ran; every training settles |
| Executor thread (`executor.py`) | state, job_config, job_console, job_bucket, three events | start_job (REST threads), cancel (REST threads), session_init, execute_job, session_end, main loop | all the others | one coherent job per session; power cut when nobody watches; nothing left behind by a failure; the machine is freed; it stops when told to |
| JobConsole thread (`executor.py`) | `_state`, two sockets, ConsoleState | set_state (two threads), match_console_patterns, run, start, close | SALAD, client, Executor | released in the end; a matched end of session is seen; the client is told before it is closed |
| Boot cycles (`executor.py`, `job.py`) | Timeouts, Watchdog, ConsoleState | execute_job, process_line, expired_list, retry, reset | PDU, JobConsole | boots bounded by retries; every reboot accounted; the job ends |
| Artifact cache (`executor.py`, `minioclient.py`) | URL mapping, one object per machine | _cache_remote_artifact(s), save_boot_artifact | MinIO, BOOTS | a boot gets the artifact of its deployment, whatever earlier jobs left |
| Job bucket (`executor.py`, `minioclient.py`) | bucket, users, policies | create_owner_credentials, setup, remove, `__del__` | MinIO | a job keeps its bucket; nothing leaks but what a failed removal leaves |
| Job description (`job.py`) | none | parsing, templating | | refuses what execute_job cannot handle |
| Job requests (`app.py`) | none | REST endpoints, choice of a machine | Executor, MaRS | validated before anything is changed; a machine that was taken is given back |
| Message protocol (`message.py`) | stream position | send, recv, next_message | socket | messages are shown whole and in order however TCP cuts them |
| MaRS (`mars.py`) | MarsDB objects, their file, machines, discovery | sync, save, add_or_update_machine, update_fields, remove, inotify | files, Executor, GitLab | memory and file agree in the end; no machine stays on a replaced database |
| GitLab runners (`mars.py`, `gitlab.py`) | tokens | expose, unexpose, verify | GitLab | a retired machine is not exposed; tokens are not lost without a failure |
| PDU (`pdu/`) | last_shutdown, per port object | set, state | PDU devices | minimum off time, and on in the end, although the object is replaced |
| BOOTS (`boots.py`) | files | ipxe_boot_script, write_network_config | dnsmasq, iPXE | the boot script is the one of the job |
| Client (`src/executor/client`) | socket, status | run | REST, JobConsole | the status is the job's; it returns |
| SALAD (`src/salad`) | machines, consoles, sockets | select loop, REST | serial ports, JobConsole | one client per machine, kept; everyone is served |
| valvetraces (`src/valvetraces`) | job folder, frames, reports | run_job, report_results, enroll | MinIO, executor, traces service | green means that what is expected to work did; what is posted is uploaded |
| Others | | machine registration, gfxinfo, iPXE boot server, vPDU, dashboard, ansible roles, vivian | | |

The hard behaviours:

* **No locks.** `Executor`'s fields are written by the executor's thread and by Flask's
  threads (`start_job`, `cancel_job`); `JobConsole._state` by the executor's thread and by
  the console's; `MarsDB` by everybody; SALAD's table of machines by its thread and by
  Flask's.
* **Exceptions anywhere.** PDU, SALAD, MinIO and the client's endpoint can all raise in the
  middle of a session, before or after they took effect; one `finally` cleans up.
* **Waits without a timeout.** `send()` to a client, the download of an artifact, SALAD's write to
  a console and its `send()` to an executor wait for as long as the other end likes.
* **Time.** Seven timeouts, some with retries; output that is processed after the boot that
  printed it; values read before a power cut and read again after it.
* **Objects that are replaced.** A reload makes new `MarsDB`, `ConfigDUT` and `PDUPort`
  objects while other threads still use the old ones; a relay of SALAD is replaced by
  another one for the same machine.
* **Streams.** TCP cuts messages anywhere; file descriptors are selected, and served later.
* **Long sequences.** The outcome of a session (an event left set, a counter not reset)
  changes the next one.

`PROJECT.json` lists each hazard that a module covers with its line and the properties about it, and says
where these except it. The discovery and dnsmasq's hosts file are exposed to races too, and are not
modelled (see the end).

## Modules

| Module | Models | Instantiated for TLC by |
|---|---|---|
| `SergentHartman` | the trainer, and what the executor's sessions do with it | itself |
| `Executor` | the executor's thread, REST threads, MaRS edits, console and timeouts as outcomes; instantiates `SergentHartman` | itself |
| `JobConsole` | both threads inside `set_state()`, the console's select loop, sockets and peers; its variables and invariants are in `JobConsoleState` | itself (no constants) |
| `BootCycle` | `execute_job()` with timeouts, watchdog, patterns and late output | `MCBootCycle` |
| `Mars` | MaRS and the GitLab runners: the Mars thread's syncs, the threads that update and register machines, the file, GitLab | itself |
| `PowerUp` | the way to a running kernel: artifact cache, boot configuration, PDU ports that are replaced, boot script, machine; its constants, variables and safety properties are in `PowerUpState` | itself |
| `JobRequests` | `post_job()` and the bucket of a job, by several clients against a MinIO that fails | itself |
| `Client` | the client and the framing of messages, for both protocol versions | itself |
| `Salad` | SALAD's thread, its REST threads, executors and consoles | itself |
| `TraceRun` | `run_job()` and `report_results()` of concurrent CI jobs, the pool of uploads, the traces service | itself |
| `SergentHartmanProofs`, `ExecutorProofs`, `BootCycleProofs`, `JobRequestsProofs`, `TraceRunProofs`, `ClientProofs` | theorems about the module of that name, and the inductive invariants they need | |
| `ConsoleProofs` | theorems about the two ends of a console: of `Salad`, which it extends, and of `JobConsole`, whose state it extends and whose actions are those of the instance `Job` | |
| `MachineProofs` | theorems about the machines: of `Mars`, which it extends, and of `PowerUp`, in the same way (the instance `Power`) | |

Variables keep the names of the code's fields. Definitions whose comment starts with
"Mutant:" are plausible bugs; `PROJECT.json` says which property each one breaks.

### SergentHartman

`next_task()` is split by its branches (`NextTaskRegister`, `NextTaskBoot`, `NextTaskRaises`),
`report()` by its two (`ReportRegistration`, `ReportBoot`). `StartTraining` and `InService` are the
two ways through `session_init()`. `registered` and `boots` are history variables. `UnreadableJobs`
are the templates whose loading may raise: `is_available` (`IsAvailable`) only asks that one of the
two paths is set (`HasToTrain` is the test of `session_init()`), and loading happens after the
trainer changed its state. The status of a job is nondeterministic, and anybody may edit
`ready_for_service` at any time.

### Executor

An action ends where another thread can interfere in a way that matters. `start_job()` is
five steps (the state check, the creation of the bucket, the queueing, the console, the
event), each of which may raise when `"failures"` is in `Environment`. The main loop is
`LoopExit`/`ResetConfig`, then `session_init()` (`ResetConsole` to `ConsoleStart`),
`execute_job()` (`Setup` to `ClientDone`, with a boot in the steps `Boot`, `PowerOn`, `BootStarted` and
`Inner`) and `session_end()` (`SessionEnd`, `SessionDrop`), where `SessionEnd` is the `finally`
clause every failure leads to.

`log()` writes to the client between those steps, and is part of them: while the client does not
read, the step is disabled (`LogBlocks`); if the session was given a console that was never started,
it raises (`LogRaises`). A call to the PDU that raises may have taken effect.
`VersionZero` are the requests of clients of protocol version 0, which is falsy in Python: the
console treats them as if there were no client (`HasClient`).

`Environment` says what may happen around: `"concurrent"` (clients that do not wait for one
another), `"edit"` (of MaRS DB), `"unfit"` (a job takes the machine out of service),
`"cancel"`, `"stop"`, `"failures"` (of PDU, SALAD, MinIO, client), `"unsaved"` (the verdict
of a job cannot be applied to, or saved in, MaRS DB), `"stall"` (a client stops reading for good,
and does not hang up).

`SergentHartman` is instantiated twice: once to call its methods on the executor's
variables, and once, under a refinement mapping, as the abstract specification that the
executor implements (`DrivesSergentHartman`): a session of the trainer lasts from the choice
of the job to its report, and a user's job is invisible to it.

### JobConsole

`set_state()` is four steps (compare, write, effect, notification), and both threads may be
in it at once. The console thread's loop chooses file descriptors, checks them, selects
and serves them one by one, matches patterns, forwards to the client, and
ends the session it matched. Peers (SALAD, the client) may go away at any time, or stop reading,
after which a `send()` to them blocks (`SendBlocks`, `SaladBlocks`) until the connection is shut down by
the other thread or by them. A training has no client. The executor is reduced to the calls it makes.

### BootCycle

Every step of `execute_job()` between two places where the console thread or the clock can
interfere: `Loop` (its test, then `reset_per_boot_state`), `PowerUp`, `Inner` (the wait), `Update`,
`Cut` (power off), `Account` (expired timeouts), `Reboot` (a requested one), `Decide`. Time is a
count of ticks: a timeout's `age` saturates at the first tick past its limit, which is all that
`has_expired` can tell apart. A line is printed during one boot (`DutPrints`) and processed
(`ConsoleLine`) at any later time, even after the next power-up. A line is named after the pattern
it matches. There is at most one watchdog. The downloads of the setup need not end, and a client may
stop reading (`ClientStalls`), which holds the executor's thread where it logs and the console's
where it forwards. `Retries` are integers, as the code accepts negative ones.

### Mars

A `MarsDB` is an object of `heap`, numbered by age; `Load` puts a new one in front and drops those
nobody refers to. A `Machine` knows the object its `ConfigDUT` is stored in (`home`) and the
database that `ConfigDUT` refers to (`db`), which differ when a registration straddles a reload; a
`ConfigDUT` that is in no database is an object of its own. A save is three steps, `Truncate`,
`Dump` and `ResetTaint`: a reload between the first two reads an empty file, a change between the
last two is forgotten. A registration is the code's statements one by one: `Register`, `RegisterGet`
(which database is the current one, and is the machine known), `RegisterUpdate`, `RegisterStore`,
`RegisterSave`, or `RegisterRaises`. The Mars thread's steps are the loops of `sync_machines()`:
`UpdateMachine` and `StoreMachine`, `RemoveMachine`, `ExposeGateway`, `Expose`, and its save; an
exception anywhere (`SyncRaises`, `LoopRaises`: a dictionary that grew while it was iterated) ends
the sync, which is tried again. `Due` is the loop's test: a change that was seen, or the periodic
sync. GitLab may refuse every call, or its answer may be lost after it registered a runner
(`RegisterUnanswered`). An administrator may edit or replace the file, and the process may be killed
and started again (`Restart`).

What is not told apart: a machine that is removed and created again within one call is taken for the same
one, as are two `Machine` objects that a sync and a registration create at once; the look-up of a
machine is one step with the reading of `mars_db`. `Machine.remove()` is taken to return, which
`StopEndsTheThread` shows with two exceptions.

### PowerUp

`PDUPort` objects live in three slots: the one the machine has, the one an executor's `set()` holds,
the one `update_config()` just made. Each counts the ticks since the shutdown it knows of. The
executor caches the artifact (`CacheRemoteArtifact`, `SaveBootArtifact`), and goes through `Off`,
`Config`, `On`, `Cut` for every boot. Any of these calls may raise before or after it took effect
(`Raises`); a shutdown that raised is one that no port knows of (`CutPower`, `LeftBehind`). The
machine asks for its script (`Query`), then loads what it names (`Load`): the object in the cache at
that time. One artifact stands for kernel and initramfs, which the code treats alike.

### JobRequests

A request goes through `Parse`, `CheckMinioCredentials`, `Find`, and the steps of `start_job()` up
to `Queue`; then `TearDown`, and the removal in `JobBucket.__del__()`, which gives up at the first
call that fails. `failed` records what kind of call failed, so that `NothingLeaks` can say exactly
what each failure may leave behind. Jobs may ask for the same name. A machine is busy with a job,
with a training or the wait for its configuration (`Train`), or retired. A client with `-w` that is
answered 409 posts its request again without a body, and hangs until its user stops it (`GiveUp`).

### Client

The stream is a sequence of messages; `Recv` takes any number of the bytes that are there.
`rcv` is `recv()`'s buffer with its `cur` and its view, which is sliced by all that was received
so far and not by the last piece (`Advance`): after two pieces the view may be shorter than
what is missing (`TooShort`), and `RecvRaises`. The user may press CTRL+C in the middle of a
message, after which the stream is misread (`Desynchronized`). Forwarding a key may fail (`SendFails`).
`PostAgain` is the loop of `-w`, in which the second post has no body left. At the end of a
version 0 session (`EndV0`) what the machine printed may be taken for the status.

### Salad

A round notes the file descriptors (`Select`), and serves them in the order of the code's `if`
chain; each may by then be closed or belong to another client. `Accept`, `ServeClient`,
`ServeConsole` and `NetAccept` are its branches, `SaladCreates` and `Send` the two steps of relaying
a chunk, `Get` and `GetCreates` the unlocked look-up and creation by a REST thread. What an executor
typed is written to the console, and the thread waits until that takes it (`Written`). `Die` is the
exception that nothing catches: of a closed device, of a table that changed while it was read, or of
`comports()`.

### TraceRun

`Start` to `JobEnds` are `run_job()`, `Schedule` to `ReportCompatibility` are
`Report.upload()`, `Verdict` is `is_success`. The frames are uploaded by workers
(`CheckImage`, `MakeBlob`, `PutBlob`) while the process gathers their results, and that of the task
that uploads the log. Project and commit are each created, or, if that is refused as another job did it,
looked for. Any call to the service may fail, in a worker, in the loop that ignores it, or where
nothing catches it, and may have done what it was to do. The executor's client, which is started with
`-w`, may hang (`Hang`).

## Runs

### Passing

| Run | Checks | Shows |
|---|---|---|
| training | BootLoopAfterRegistration, NextTaskFollowedByReport, QualifiedByItsBoots, TrainingSettles, TypeOK | with readable templates the trainer registers the machine first, has every task reported, decides on exactly the boots it ran, and settles, although readiness is edited meanwhile |
| executor | SessionIsCoherent, NoOrphanConsole, PoweredOnlyWhileBooting, DrivesSergentHartman, MachineFreedAgain, TypeOK | with clients that wait for one another, failures (unreadable templates included), cancellations and clients that stop reading leave no console behind, no power on and no session with parts of two jobs; the trainer is driven as it expects, through a boot loop of two boots; the machine is freed, unless the thread is held for good by a download or by a client that does not read |
| executor_stop | StopEndsTheThread | `Machine.remove()` and `Mars.stop()`, which join the thread, return, although entries are edited and verdicts cannot be saved, unless the thread is held by one of those two |
| console | OverMeansClosed, MatchedEndIsSeen, EventuallyReleased, ConsoleTypeOK | whatever the two threads overwrite, a matched end is not lost, and connections and thread are released whatever SALAD does, unless the client stops reading and keeps its connection; a console thread that is held by SALAD is released by the executor's close |
| boots | BootsAreAccounted, BootsAreBounded, RetriesFitBoots, JobEnds, TypeOK | a job without a watchdog boots at most once plus once per retry, spends one retry of a timeout per boot (two of `boot_cycle`), and ends whatever the machine does, unless a download never ends or the client stops reading |
| mars | NoStaleMachine, EventuallyInSync, RetiredIsUnregistered | whatever is edited, registered and reloaded in between, and although the process may be killed, no sync leaves a machine that did not register meanwhile on a replaced database, memory and file agree in the end, and a machine that stays retired loses its runner, even if GitLab refused at first; each runner that is left was lost by something that went wrong before |
| power_up | BootsItsKernel, OffLongEnough, PoweredUp | the machine loads the kernel of the start deployment, stays off for the minimum time unless the port does not know of the shutdown (it was replaced, or the call that cut the power raised), and is powered up in the end although the port is replaced again and again |
| requests | JobOwnsItsBucket, NothingLeaks, RequestsEnd | no failing call, and no earlier job of the same name, takes the users from a job, nor its bucket unless a bucket could not be made; what is left behind is exactly what a failed call explains; a machine that was taken is idle again in the end, and every request ends but that of a client that was told to wait |
| client | FramesInOrder, StatusIsEarned, ClientReturns | messages are shown whole and in order however they are cut, the status of a job is the one that was sent, returned with the bucket of the job downloaded, and the client of a version 1 server returns; a client that had to wait for a machine hangs |
| salad | SessionKept, WaitsOnlyForANewcomer, ServesEveryone | no executor loses its session to another one or to a stale file descriptor; the thread waits for the input of no client but one accepted in the same round; everyone is served, unless the thread is held by an executor or a console that does not read, or died of a device that was closed or could not be listed or of its tables |
| traces | GreenMeansReplayed, FramesAreUploaded, ResultsAreReported, EveryJobEnds | the first job of a commit on a GPU is green only if what is expected to work did; posted executions have their frames, and the empty blobs among these are of jobs that still run or gave up; jobs that create the project at once do not cost each other a result; every job ends but one whose client had to wait |

Every module has a type invariant. The runs list it for the first four; of the other six modules it
holds under the same configurations.

### Disagreements between the code and its comments, messages or tests

The run `executor_lost_job` ends with TLC's counterexample to `AcceptedJobKept`, and `findings`
in `PROJECT.json` quotes the line that is contradicted: a job accepted as the wait for a job
times out is wiped by `session_end()`.

The modules keep five more formulas that state what the code says of itself and that TLC
refutes, in a section of that name. They have no run of their own:

| Formula | Seen with | What TLC shows |
|---|---|---|
| `Executor.QueuedOnlyWhenIdle` | two requests, Environment {"concurrent"} | two requests pass the idle check (`executor.py:543`); the second replaces the first |
| `Executor.TrainingIsNotCancelled` | Environment with "cancel" | a late or repeated cancellation stays set during the training that follows |
| `JobConsole.ClientKeptUntilItCloses` | as in the run `console` | the console thread finds SALAD's socket closed by the tear down and closes the client's too |
| `BootCycle.FirstActivityIsOfThisBoot` | as in the run `boots` | output of the last boot disarms `first_console_activity` of the next |
| `BootCycle.UnfitOnlyIfMatched` | Patterns with "machine_unfit_for_service" | defining the pattern is enough to take the machine out of service |

With a watchdog (`MCRetriesWatchdog`, and lines that start, reset and stop it)
`BootsAreAccounted` fails as well: a reset line processed after the power cut makes the
watchdog's expiry disappear, and the reboot is for free.

### Other observations

Met while modelling, and the reason for an assumption or for the form of a property; no run
is kept for them:

* `next_task()` changes its state before it loads the job's template. If the registration's
  template cannot be loaded, the next call starts the boot loop; if the boot loop's cannot,
  every later call raises "The previous next_task() call was not followed by a call to
  report()" (`executor.py:354`). Setting `UnreadableJobs` in `SergentHartman.cfg` shows both,
  and two theorems assume that it is empty.
* `set_state()` compares and writes without a lock, so that `_state` can go backwards when
  both threads are in it (`executor.py:134`). The properties of the run `console` say what
  survives: the connections are closed all the same and a matched end is seen.
* A boot whose `boot_cycle` timeout expired and whose machine asked for a reboot spends two
  retries of `boot_cycle` (`executor.py:749`): `BootsAreBounded` is a bound, not an equality, and
  `RetriesFitBoots` allows `boot_cycle` two per boot.
* `client_sock.send()` (`executor.py:141`, `179`, `224`, `274`) has no timeout. A client that stops
  reading and does not hang up holds the executor's thread in `log()`, and the console's while it
  forwards: the machine is not freed, and neither `overall` nor `stop_event` is looked at. The same
  holds of the download of an artifact (`minioclient.py:104`), as `infra_setup` is only looked at
  after it. `MachineFreedAgain`, `StopEndsTheThread`, `EventuallyReleased` and `JobEnds` name
  these waits, and show that there are no others.
* A session that was given another console than it started (`"concurrent"` or `"edit"`) has a
  `client_sock` of None: `log()` raises AttributeError, and after `set(ON)` (`executor.py:713`) this
  leaves the machine powered. `PoweredOnlyWhileBooting` is false in those environments.
* The job of a version 0 client is never connected to it, as the version is tested for truth
  (`executor.py:115`, `148`, `156`, `177`, `219`).
* When `overall` runs out during the setup or between two boots, the loop ends with an
  ACTIVE console and the tear down is skipped (`executor.py:768`): the job ends, but the
  client is not told.

* `session_end()` reports the verdict of a training before it closes the console
  (`executor.py:653`). If the verdict cannot be saved in MaRS DB, `report()` raises, the console of
  that boot is replaced by the next one's and its thread stays connected to SALAD. It takes a boot
  loop of two boots and `"unsaved"` in `Environment` to see `NoOrphanConsole` fail; the proof of
  `NoConsoleIsOrphaned` led to it, and assumes that verdicts are saved.
* `start_job()` checks that the machine is idle (`executor.py:543`) and queues the job later. If
  `ready_for_service` is edited in between, `session_init()` starts a training
  (`executor.py:617`), and the job replaces its configuration and console. It takes `"edit"` in
  `Environment` to see `SessionIsCoherent`, `NoOrphanConsole` and `DrivesSergentHartman` fail;
  the theorems about sessions assume that there is no such edit.

MaRS and GitLab:

* A sync that reads the file while it is truncated removes every machine, and waits for its
  executors; the sync after it makes them anew. A `Machine` or `ConfigDUT` of the old
  database that is saved later overwrites what was edited since. `EventuallyInSync` says
  that memory and file agree in the end, not that an edit survives.
* A sync that fails after it registered runners loses their tokens, as does an answer of GitLab that
  is lost; the next sync registers again, and the old runner stays for good: `Orphans` in
  `RetiredIsUnregistered`, whose number is bounded by what went wrong. `verify_runner_token()`
  raises when GitLab cannot be reached, although its comment (`gitlab.py:53`) says that it wants to
  keep the token then.
* A token that was revoked is renewed only if the runner it replaces can be unregistered.
* A change made between the dump of a save and its `reset_taint()` (`mars.py:222`) is not saved.
* A registration that straddles a sync leaves its machine with a `ConfigDUT` that is in no database, or
  of the replaced one, until the next sync: the exception in `NoStaleMachine`.
* A file that is replaced (and not written in place) ends the inotify watch; the periodic sync
  remains.

Power and artifacts:

* `_cache_remote_artifacts()` uses `deployment_start` twice (`executor.py:595`): an artifact that
  only the continue deployment has is never cached. The boot configuration then has no kernel,
  or the one that an earlier job's mapping names, whose object holds another kernel by now.
  `BootsItsKernel` is therefore about the start deployment.
* A port object made before the power was cut through another one does not know of that
  shutdown, and may turn the machine on too early; so may one whose call cut the power and then
  raised, as `last_shutdown` is noted after it (`pdu/__init__.py:55`). These are the exceptions in
  `OffLongEnough`.

Requests and client:

* A `JobBucket` whose `make_bucket()` raised removes, in `__del__`, the existing bucket of that
  name. The retry under a unique name (`executor.py:498`) keeps the job itself out of it. With three
  requests for one name it does not keep the others out: the bucket may belong to a job on another
  machine by the time the half-made object is collected (`executor.py:424`), or when the one that was
  kept is replaced (`executor.py:547`). Found when `JobOwnsItsBucket` turned out not to be
  inductive; hence its exception for a bucket that could not be made.
* A bucket that is missing when it is removed leaks its users; a failing `add_user_to_group()`
  leaks the user and its policy.
* After a 409 a client with `-w` ("Wait for a machine to become available if all are busy",
  `src/executor/client/README.md:14`) posts the same `MultipartEncoder` again
  (`src/executor/client/src/valve_gfx_ci/executor/client/client.py:82`), of which nothing is left: the
  server waits for a body that does not come, and the client for an answer. valvetraces uses `-w`.
  `RequestsEnd` and `EveryJobEnds` except that client.
* A retired machine that is asked for by its ID answers 409 like one that trains; by tags it is 406.
* A part that arrives in three pieces or more makes `recv()` raise `ValueError`
  (`message.py:72`), and the client returns INCOMPLETE.
* A v0 client spins on a connection that was closed without a status. It takes the first match in all
  that it received for the status (`client.py:179`), and thus the machine's output: the exception in
  `StatusIsEarned`.

SALAD and traces:

* A new connection is refused if the end of the previous one was not read yet. A serial device that
  was closed by an empty read, or a machine that a REST thread adds during the comprehension at
  `salad.py:83`, ends the thread, as does a `comports()` that raises (`salad.py:55`). An executor
  that does not read blocks it, and so does a console that does not take what is written to it
  (`salad.py:136`).
* A chunk goes to the machine announced last in it, as a whole.
* The applicable reports are looked up by name in a dictionary that is keyed by repository
  (`valvetraces/__init__.py:1342`): a new report for HEAD is made every time, and a job that is
  run again finds only that. A regression found by the first run is green in the second, hence
  "the first job" in `GreenMeansReplayed`.
* An execution that was posted before is never recognised, as its driver is a dictionary there.
  A blob that was announced and not filled is re-used by its checksum: `FramesAreUploaded` says
  when.

### Bounds, and why they are enough

* `SergentHartman`: three boots, two of which must pass, so that a verdict is reached in
  every combination; the theorems hold for any integers.
* `Executor`: two requests, because every race found is between two jobs, or a job and a training;
  two boots in the boot loop, so that a session follows one of the same kind. `"unsaved"` is not in
  the run `executor` (see above) but in `executor_stop`. A request is served once. One of the two is
  of a version 0 client. `executor_stop` has one request since what matters is where the thread is
  when it is stopped.
* `JobConsole`: no bound; one job from its start to its end.
* `BootCycle`: limits of 1, 2 and 4 ticks order the timeouts as in real jobs (activity, then boot,
  then job); a boot has a limit, so that `boot_cycle` runs out in boots whose late output asks for a
  reboot (without that limit, which is the default, the same properties hold, and only `overall`
  ends the job of a machine that keeps talking); one retry of two timeouts allows three boots, and
  `MaxBoots` is above that, so that it cuts nothing that `BootsAreBounded` allows; one line in
  flight, which may be of the previous boot. In the runs that end with a counterexample the bound
  only limits the search.

* `Mars`: two machines and one thread beside the Mars thread, two updates, edits, failures or
  refusals in all: enough for an update of a replaced object, a reload of a truncated file,
  and a failure in between. Two tokens per owner allow one renewal.
* `PowerUp`: two remote kernels and a local one, so that a job can find the artifact of another
  one; off time of one tick; one failing call. No bound on the number of jobs, boots or
  replaced ports.
* `JobRequests`: two requests for one machine, one failing call of any kind, one machine retired
  or activated, or training.
* `Client`: header and body of three bytes, since three pieces are what breaks `recv()`; one
  message before the end of the session; two keys.
* `Salad`: two machines, two executors, one serial device and one netconsole, three relays: a
  replaced relay and one for the other machine. One chunk and one input.
* `TraceRun`: two jobs, of one GPU or two, two traces between them, one frame, one failing call.

Deadlock is checked where the executor's thread goes on forever; it is not where the thread,
the console or the job comes to its end.

### Fairness

Weak fairness of a thread means that the operating system schedules it and that it polls: the
executor's waits are loops of 0.1 s or `wait(1)`, the console's `select` has a timeout.
`OverallExpires` and `Tick` are fair because time passes; by default `overall` is 6 hours and
`infra_teardown` 10 minutes, so they always have a limit. `FairSpec` of `Executor` also assumes that
a machine that has no PDU port gets one in the end: without it the executor waits in
`WAIT_FOR_CONFIG` by design. `SergentHartman` assumes that every job ends, which is what `JobEnds`
shows of `BootCycle`, with its two exceptions.

Services of the farm (the PDU, the farm's MinIO, SALAD's REST API, and GitLab for the Mars thread)
are assumed to answer or to fail, in whichever order. Clients, consoles, machines and the servers
artifacts are downloaded from are not: a step that waits for one of them is not fair (`Run /\
~Downloading` in `Executor`, everything but the setup in `BootCycle`), or is disabled while it
blocks (`LogBlocks`, `SendBlocks`, `SaladBlocks`). The properties then say what may never end, with
`[]` of that wait.

In `Mars` the thread's steps and the calls under way are fair, while edits, refusals and new calls are
not. In `PowerUp` time, the executor and the threads in `update_config()` go on. `Client` assumes that
the executor ends its session, which `MachineFreedAgain` shows of a client that reads, as this one
does. `JobRequests` assumes that jobs end; no client has to ask again, or to give up. In `Salad` only the
thread and the REST requests go on: nobody has to type, read or close, and no console has to take what is
written. `TraceRun` assumes that the executor's job ends (its timeouts), and that the pool's workers
do; a client that hangs stays so.

## Proofs

TLAPS proves, for every value of the constants:

* `SergentHartmanProofs`: `TrainerTypeCorrect`, `TrainerCorrect`, `QualificationCorrect`,
  `ReportProtocolKept`, `RegistrationFirst`. The inductive invariant relates `cur_loop`,
  `statuses` and the boots that really ran to where the session is: between two sessions
  they agree, during a job of the boot loop `cur_loop` is one ahead. The property alone is
  not inductive, because `report()` relies on `statuses` having been counted since the
  last reset. The protocol theorems assume readable templates; without them they are false,
  as noted above.
* `ExecutorProofs`, for any set of requests (whose names are not those of the training's jobs):
  * `PowerIsCut`, without `"concurrent"` and `"edit"`. The only step that powers the DUT leads to the
    wait for its boot, and every way out of that wait goes through `set(OFF)`, which succeeds or is a
    failure of the PDU. Between the two the client is told of the boot, and `log()` must not raise: it
    takes `SessionInv` below to know that the console of the session is the one that was started.
  * `TypeIsCorrect`, in any environment.
  * `SessionsAreCoherent`, without `"concurrent"` and `"edit"`: with them it is false (see the
    disagreements above). `SessionInv` says why the check of `state` in `start_job()` is enough
    then: one request at a time has the floor (`ClientsTakeTurns`), `state` tells the truth about
    where the thread is (`StateIsTrue`), job, console and bucket come and go together
    (`JobIsWhole`), and the console of a request lives no longer than its session
    (`RequestConsoles`).
  * `NoConsoleIsOrphaned`, without `"unsaved"` either: `RequestConsoles` extends to the consoles of
    trainings (`LiveInSession`) only if `session_end()` gets as far as closing them.
  * `ExecutorDrivesSergentHartman`, the refinement, without `"concurrent"` and `"edit"`:
    initial states map to initial states, and under `SessionInv` every step is a step of
    `SergentHartman` or leaves its view unchanged.
  * `ExecutorQualifiesByBoots`, `ExecutorReportsEveryTask`, `ExecutorRegistersFirst`: what is proved of
    `SergentHartman` holds of the trainer inside the whole executor. They follow from the
    refinement and the theorems of `SergentHartmanProofs`, instantiated with the same mapping; no
    invariant of the executor is proved for them. They assume what the refinement does, and the
    last two readable templates as well.
* `ConsoleProofs`:
  * of `Salad`, for any number of machines, executors, consoles and relays: `SaladTypeCorrect`,
    `WaitsForNewcomersOnly` and the action property `SessionIsKept`, from `SaladInv` (theorem
    `SaladCorrect`). Relays are numbered as they are made, the port that an executor was told is of
    the machine it asked for, and a client is an executor that connected to the port of its relay
    (`RelayInv`): hence a relay has one client and a client one relay, and what happens to one
    client leaves the others alone. A round's file descriptors are old by the time they are served;
    `ReadyClients` says what is left of `select()`'s answer: a client that was selected is gone, has
    something to read, or was accepted in this round. `RoundTypes` adds that a chunk is sent to a
    relay that was made before, and `WaitsOnlyForANewcomer` is inductive together with these.
  * of `JobConsole`: `ConsoleTypeCorrect`, `OverIsClosed`, `MatchedEndIsNotLost`, from `ConsoleInv`
    (theorem `ConsoleCorrect`), without any assumption. The state alone does not say enough, since a
    thread may have written it and not applied its effect: whoever wrote OVER is about to close
    (`OverIsBeingClosed`), no call under way goes back before DUT_DONE once the console runs
    (`NoWayBack`), and an end that was matched is written or about to be (`MatchedIsReported`).
* `BootCycleProofs`: `BootsBounded`, `BootsAccounted`, from the inductive invariant `BootsInv`
  (theorem `BootsCorrect`), for every job whose lines do not match a watchdog's patterns. Its parts:
  which timeouts run where (`TimersInPlace`); the reason why a boot ended still holds when it is
  accounted, in spite of what the console thread processes meanwhile (`CutHasACause`); how many
  boots are paid for at each step (`Paid`); no timeout is past its retries unless the job is given
  up (`RetriesKept`). `CutHasACause` is exactly what a watchdog breaks, hence the assumption.
  `RetriesFit`, from `FitInv`, holds for every job, watchdogs included: the retries of a timeout
  that were spent, and those that the boot at hand may still spend (`Pending`), are at most the
  number of boots, twice that for `boot_cycle`. `BootsTypeCorrect` holds with a watchdog too; its
  invariant bounds the age of every timeout.
* `MachineProofs`:
  * of `Mars`, for any number of machines, threads, events and tokens: `MarsTypeCorrect` and
    `NoMachineIsStale`, from `MarsInv`. A machine on a replaced database is one that the loop at
    hand will still come to (`StaleIsDue`), which needs that the loop goes through entries of the
    new database (`TodoIsThere`); the entry a machine reads is there (`HomesHaveEntries`), also
    while a call that found the machine before the sync goes on with it (`CallsAreFounded`). A
    machine that registers may be given a `ConfigDUT` of another database by any of its statements,
    and is excepted until the next reload (`registered`). A reload renumbers the databases that are
    still referred to by their age; most lemmas are about that: the numbers of those that are kept
    are distinct, without gaps, and name the same database as before, so that every reference still
    names what it did (`ReloadKeepsObjects`).
  * of `PowerUp`, for any URLs and any minimum off time (a natural number): `StaysOffLongEnough`, an
    action property, from `OffInv`: no port object counts more time since the shutdown than passed,
    but those that the shutdown left behind (`NoPortIsAhead`): the ones that were there, or being
    made, when the power was cut through another one or by a call that raised (`LeftBehind`).
    `JobGetsItsKernel`, from `KernelInv`: once the artifact is prepared, mapping and cache are those
    of the job at hand (`ArtifactOfJob`); a machine that is off has no script and no kernel
    (`OffMeansNothingRuns`); script and kernel are those of the boot configuration (`BootOfConfig`).
* `JobRequestsProofs`, for any number of requests, machines and failures:
  * `BucketsAreOwned`, from `BucketInv`: a machine has one user (`OneUser`) and at most one
    `JobBucket` of a `start_job()` that raised (`OneLeftover`); together with the form of the
    names (`NamesOfRequests`) they show that a removal is of another bucket than the ones in use
    (`BucketIsOwn`, `UsersAreThere`).
  * `NothingIsLeaked`, from `BucketInv` and `LeakInv`, which notes for every bucket, user and policy
    the `JobBucket` that will remove it, in every intermediate state of its creation and removal.
* `TraceRunProofs`, for any number of CI jobs, GPUs, traces, frames and failures:
  `ExecsHaveTheirFrames` and `ResultsReported` from `UploadInv`, which follows a frame from the task
  that uploads it to the blob (`BlobOfTask`) and an execution from its frames to its report
  (`ExecAtHand`, `ExecsAreUploaded`, `FetchedFirst`), knows that what a creation refuses exists
  (`FoundExists`), and accounts for every trace: it is still to do, through, or ignored because of a
  failure (`Accounts`); `PassedMeansReplayed`, which is inductive together with `UploadInv`, as what
  a job that passed relied on does not change any more.
* `ClientProofs`, for headers and bodies of any positive length, any number of messages and keys:
  * `MessagesInOrder`, from `ClientInv`: the buffer holds the bytes of the stream that follow the part's
    first one, and the view of `recv()` is never behind what was received (`PartIsFilled`), so that
    its wrong slice can raise but not misplace a byte; what was shown is as long as what was read
    (`ReadSoFar`), which needs a few lemmas on multiples of a frame's length.
  * `StatusComesFromTheExecutor`, from `StatusInv` besides: a status is the last message of a stream
    that was closed after it (`EndIsLast`). With version 0 of the protocol it may be the machine's.

Every inductive invariant was checked by TLC, as an invariant of the module's run, before it was
proved. The assumptions on constants are named in the modules that declare them, and say that names are
distinct, that lengths, times and bounds are natural numbers, that `Mars` has a machine at all
(without one its properties are about nothing), and that sets are of the right kind.

Every safety invariant and action property that a passing run checks is proved, under the
assumptions named above. Only model-checked are the liveness properties (`TrainingSettles`,
`MachineFreedAgain`, `StopEndsTheThread`, `EventuallyReleased`, `JobEnds`, `EventuallyInSync`,
`RetiredIsUnregistered`, `PoweredUp`, `RequestsEnd`, `ClientReturns`, `ServesEveryone`,
`EveryJobEnds`): fairness is out of the prover's reach.

## Not modelled

* The text of messages and logs, rendering of templates, HTTP, YAML.
* More than one watchdog per job; a job that changes its console patterns.
* The discovery of machines (`app.py:187`): which machine is behind a port is not part of any
  module's state, and whichever registers first is given the port.
* dnsmasq's files and its process (`boots.py`): of two threads that add an address one may lose its
  entry, until the next sync writes it again.
* The protocols of the PDU drivers; of them, only that a call may fail.
* valvetraces' enrolment of traces, its parsing of drivers and GPUs, and the layout of JUnit
  files.
* gfxinfo, machine registration, the iPXE boot server, the dashboard, vPDU and the ansible
  roles: tables, scripts that run once, user interfaces and provisioning.

## Plan

In this order:

1. Composition of `Mars` with `Executor` through `Stop`, `EditReadiness` and `AssignPduPort`.
2. Discovery beside `PowerUp`, and the hosts file of dnsmasq.

The project keeps at most a dozen runs, so that all of them are run on every change: a new one
takes the place of the least important.
