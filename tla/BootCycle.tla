------------------------------ MODULE BootCycle ------------------------------
(***************************************************************************)
(* execute_job() of the Executor thread (executor.py), with the timeouts,  *)
(* the console patterns and the watchdog of a job (job.py).                *)
(*                                                                         *)
(* The console thread processes the machine's output whenever it gets it:  *)
(* a line is printed during one boot and may be processed during the next. *)
(* Time is a number of ticks.  A timeout holds for how long it has been    *)
(* active, counted up to the first tick past its limit.  What follows the  *)
(* end of execute_job() is in module Executor.                             *)
(***************************************************************************)
EXTENDS Integers

CONSTANTS
  Limit,          \* timeout |-> Timeout.timeout
  Unlimited,      \* the timeouts that the job leaves at timedelta.max
  Retries,        \* timeout |-> Timeout.retries
  Lines,          \* what the machine may print
  Patterns,       \* the optional patterns that the job defines
  OffTime,        \* the PDU port's min_off_time
  MaxBoots        \* bound on the power cycles that are explored

Timers == {"overall", "infra_setup", "infra_teardown", "boot_cycle",
           "console_activity", "first_console_activity", "watchdog"}

\* overall and infra_teardown have a limit by default, and Timeouts.__init__() refuses
\* retries of these.
ASSUME TimeoutsAssumption ==
  /\ Unlimited \subseteq Timers \ {"overall", "infra_teardown"}
  /\ Limit \in [Timers -> Nat]
  /\ Retries \in [Timers -> Int]
  /\ Retries["overall"] = 0 /\ Retries["infra_teardown"] = 0
ASSUME BoundsAssumption == OffTime \in Nat /\ MaxBoots \in Nat \ {0}

\* A line matches the pattern, or the watchdog's pattern, of its name.
PatternNames == {"session_end", "session_reboot", "job_success", "machine_unfit_for_service"}
WatchdogLines == {"start", "reset", "stop"}
ASSUME LinesAssumption ==
  /\ Lines \subseteq PatternNames \cup WatchdogLines \cup {"other"}
  /\ Patterns \subseteq PatternNames

VARIABLES
  pc,             \* execute_job()
  age,            \* timeout |-> Timeout.active_for, Stopped if it is not started
  retried,        \* timeout |-> Timeout.retried
  abort,
  console,        \* job_console.state
  client_version, \* is there a client?
  stalled,        \* did the client stop reading for good, without hanging up?
  matched,        \* ConsoleState._matched
  needs_reboot,   \* JobConsole.needs_reboot
  last_activity,  \* how long ago was last_activity_from_machine, Stopped for None
  ready_for_service, cancel_job, power,
  off_for,        \* for how long the power has been off
  boots,          \* history: the number of power cycles
  line,           \* the line on its way to the console thread, and its boot
  spoke           \* history: output of the current boot was processed

patterns == <<matched, needs_reboot, last_activity>>
client == <<client_version, stalled>>
clocks == <<age, retried>>
dut == <<power, off_for, boots, line, spoke>>
vars == <<pc, clocks, abort, console, client, patterns, ready_for_service,
          cancel_job, dut>>

Stopped == -1
NoLine == [text |-> "none", boot |-> 0]

TypeOK ==
  /\ pc \in {"setup", "loop", "power_up", "inner", "update", "cut", "account", "reboot",
              "decide", "over", "teardown", "client", "end"}
  /\ age \in [Timers -> Int] /\ \A t \in Timers : age[t] \in Stopped .. Limit[t] + 1
  /\ retried \in [Timers -> Nat]
  /\ console \in {"ACTIVE", "DUT_DONE", "TEAR_DOWN", "OVER"}
  /\ matched \subseteq PatternNames
  /\ last_activity \in Stopped .. Limit["console_activity"] + 1
  /\ power \in {"ON", "OFF"} /\ off_for \in 0 .. OffTime /\ boots \in 0 .. MaxBoots
  /\ {abort, client_version, stalled, needs_reboot, ready_for_service, cancel_job, spoke}
       \subseteq BOOLEAN
  /\ line \in [text : Lines \cup {"none"}, boot : 0 .. MaxBoots]

Init ==
  /\ pc = "setup"
  /\ age = [t \in Timers |-> IF t \in {"overall", "infra_setup"} THEN 0 ELSE Stopped]
  /\ retried = [t \in Timers |-> 0]
  /\ abort = FALSE
  /\ console = "ACTIVE" /\ client_version \in BOOLEAN /\ stalled = FALSE
  /\ matched = {} /\ needs_reboot = FALSE /\ last_activity = Stopped
  /\ ready_for_service = client_version   \* a training has no client
  /\ cancel_job = FALSE
  /\ power = "OFF" /\ off_for = 0 /\ boots = 0 /\ line = NoLine /\ spoke = FALSE

-----------------------------------------------------------------------------
(* Timeout and Timeouts.                                                    *)

HasExpired(t) == t \notin Unlimited /\ age[t] > Limit[t]
ExpiredList == {t \in Timers : HasExpired(t)}
Set(ts, value) == [t \in Timers |-> IF t \in ts THEN value ELSE age[t]]

\* Timeout.retry(), for every timeout of a set.
Retry(ts) ==
  /\ age' = Set(ts, Stopped)
  /\ retried' = [t \in Timers |-> IF t \in ts THEN retried[t] + 1 ELSE retried[t]]
  /\ abort' = (abort \/ \E t \in ts : retried[t] + 1 > Retries[t])

Older(a, limit) == IF a = Stopped \/ a > limit THEN a ELSE a + 1

\* Time passes, unless nothing waits for it.
Tick ==
  /\ pc # "end"
  /\ age' = [t \in Timers |-> IF t \in Unlimited THEN age[t] ELSE Older(age[t], Limit[t])]
  /\ last_activity' = Older(last_activity, Limit["console_activity"])
  /\ off_for' = IF power = "OFF" /\ off_for < OffTime THEN off_for + 1 ELSE off_for
  /\ UNCHANGED <<pc, retried, abort, console, client, matched, needs_reboot,
                 ready_for_service, cancel_job, power, boots, line, spoke>>

\* log() to a client that stopped reading: client_sock.send() never returns.  Once the
\* console is torn down, or over, it raises instead.
LogBlocks == stalled /\ console \in {"ACTIVE", "DUT_DONE"}

-----------------------------------------------------------------------------
(* The machine, the console thread, the client and the cancel_job endpoint. *)

\* The machine prints a line, once the previous one was processed.
DutPrints ==
  /\ power = "ON" /\ line = NoLine /\ pc # "end"
  /\ \E text \in Lines : line' = [text |-> text, boot |-> boots]
  /\ UNCHANGED <<pc, clocks, abort, console, client, patterns, ready_for_service,
                 cancel_job, power, off_for, boots, spoke>>

\* set_state(DUT_DONE), which is OVER at once without a client.
DutDone == IF client_version THEN "DUT_DONE" ELSE "OVER"

\* Watchdog.process_line()
WatchdogLine(text) ==
  age' = CASE age["watchdog"] = Stopped /\ text = "start" -> Set({"watchdog"}, 0)
           [] age["watchdog"] # Stopped /\ text = "reset" -> Set({"watchdog"}, 0)
           [] age["watchdog"] # Stopped /\ text = "stop" -> Set({"watchdog"}, Stopped)
           [] OTHER -> age

\* ConsoleState.process_line() and match_console_patterns(); the end of the session
\* is looked for after each of them.  A console thread that cannot forward a line to
\* its client gets no further.
ConsoleLine ==
  /\ ~LogBlocks
  /\ line # NoLine /\ console \in {"ACTIVE", "DUT_DONE"} /\ pc # "end"
  /\ matched' = matched \cup ({line.text} \cap (Patterns \cup {"session_end"}))
  /\ WatchdogLine(line.text)
  /\ needs_reboot' = ("session_reboot" \in matched')
  /\ last_activity' = 0
  /\ console' = IF "session_end" \in matched' /\ console = "ACTIVE" THEN DutDone ELSE console
  /\ spoke' = (spoke \/ line.boot = boots)
  /\ line' = NoLine
  /\ UNCHANGED <<pc, retried, abort, client, ready_for_service, cancel_job,
                 power, off_for, boots>>

\* The client, or SALAD, closes its connection.
ConnectionClosed ==
  /\ console # "OVER" /\ pc # "end"
  /\ console' \in {"OVER"} \cup (IF console = "ACTIVE" THEN {DutDone} ELSE {})
  /\ UNCHANGED <<pc, clocks, abort, client, patterns, ready_for_service,
                 cancel_job, dut>>

\* The client stops reading, and keeps its connection.
ClientStalls ==
  /\ client_version /\ ~stalled /\ console \in {"ACTIVE", "DUT_DONE"} /\ pc # "end"
  /\ stalled' = TRUE
  /\ UNCHANGED <<pc, clocks, abort, console, client_version, patterns, ready_for_service,
                 cancel_job, dut>>

\* The job is cancelled, or the executor told to stop.
Cancel ==
  /\ ~cancel_job /\ pc # "end"
  /\ cancel_job' = TRUE
  /\ UNCHANGED <<pc, clocks, abort, console, client, patterns, ready_for_service,
                 dut>>

-----------------------------------------------------------------------------
(* execute_job()                                                            *)

\* The artifacts are downloaded.
SetupDone ==
  /\ pc = "setup" /\ ~LogBlocks
  /\ age' = Set({"infra_setup"}, Stopped)
  /\ pc' = "loop"
  /\ UNCHANGED <<retried, abort, console, client, patterns, ready_for_service,
                 cancel_job, dut>>

Dead == console \in {"DUT_DONE", "TEAR_DOWN", "OVER"}

\* The test of the boot loop, then reset_per_boot_state().
Loop ==
  /\ pc = "loop"
  /\ IF cancel_job \/ HasExpired("overall") \/ Dead
       THEN pc' = "over" /\ UNCHANGED patterns
       ELSE /\ pc' = "power_up"
            /\ matched' = matched \ {"session_reboot"}
            /\ needs_reboot' = FALSE
            /\ last_activity' = Stopped
  /\ UNCHANGED <<clocks, abort, console, client, ready_for_service, cancel_job, dut>>

\* pdu_port.set(ON), which waits for the port to have been off for long enough; the
\* timeouts of the boot are started and the watchdogs stopped.
PowerUp ==
  /\ pc = "power_up" /\ ~LogBlocks /\ boots < MaxBoots
  /\ off_for = OffTime
  /\ power' = "ON" /\ off_for' = 0 /\ boots' = boots + 1 /\ spoke' = FALSE
  /\ age' = [t \in Timers |-> CASE t \in {"boot_cycle", "first_console_activity"} -> 0
                                [] t \in {"console_activity", "watchdog"} -> Stopped
                                [] OTHER -> age[t]]
  /\ pc' = "inner"
  /\ UNCHANGED <<retried, abort, console, client, patterns, ready_for_service, cancel_job,
                 line>>

\* Mutant: a machine that keeps talking is left alone, whatever else ran out.
InnerWhileTalking ==
  /\ pc = "inner"
  /\ LET silent == ExpiredList \cap {"console_activity", "first_console_activity"} IN
     pc' = IF Dead \/ needs_reboot \/ cancel_job \/ silent # {} THEN "cut" ELSE "update"
  /\ UNCHANGED <<clocks, abort, console, client, patterns, ready_for_service,
                 cancel_job, dut>>

\* The test of the inner loop.
Inner ==
  /\ pc = "inner"
  /\ pc' = IF Dead \/ needs_reboot \/ cancel_job \/ ExpiredList # {} THEN "cut" ELSE "update"
  /\ UNCHANGED <<clocks, abort, console, client, patterns, ready_for_service,
                 cancel_job, dut>>

\* Update the activity timeouts.
Update ==
  /\ pc = "update"
  /\ age' = IF last_activity = Stopped
              THEN age
              ELSE [t \in Timers |-> CASE t = "first_console_activity" -> Stopped
                                       [] t = "console_activity" -> last_activity
                                       [] OTHER -> age[t]]
  /\ pc' = "inner"
  /\ UNCHANGED <<retried, abort, console, client, patterns, ready_for_service,
                 cancel_job, dut>>

\* Mutant: the port is power cycled by the PDU.
CutReboots ==
  /\ pc = "cut"
  /\ power' = "REBOOT" /\ off_for' = 0
  /\ abort' = FALSE
  /\ pc' = "account"
  /\ UNCHANGED <<clocks, console, client, patterns, ready_for_service,
                 cancel_job, boots, line, spoke>>

\* Cut the power; abort is computed anew.
Cut ==
  /\ pc = "cut"
  /\ power' = "OFF" /\ off_for' = 0
  /\ abort' = FALSE
  /\ pc' = "account"
  /\ UNCHANGED <<clocks, console, client, patterns, ready_for_service,
                 cancel_job, boots, line, spoke>>

\* Mutant: only the timeouts that have retries are counted.
AccountRetriable ==
  /\ pc = "account" /\ (ExpiredList # {} => ~LogBlocks)
  /\ Retry({t \in ExpiredList : Retries[t] > 0})
  /\ pc' = "reboot"
  /\ UNCHANGED <<console, client, patterns, ready_for_service, cancel_job, dut>>

\* Increase the retry count of the timeouts that expired, and tell the client.
Account ==
  /\ pc = "account" /\ (ExpiredList # {} => ~LogBlocks)
  /\ Retry(ExpiredList)
  /\ pc' = "reboot"
  /\ UNCHANGED <<console, client, patterns, ready_for_service, cancel_job, dut>>

\* Mutant: a reboot request is counted against the activity timeout as well.
RebootCountsActivity ==
  /\ pc = "reboot" /\ (needs_reboot => ~LogBlocks)
  /\ IF needs_reboot
       THEN Retry({"boot_cycle", "first_console_activity"})
       ELSE UNCHANGED <<clocks, abort>>
  /\ pc' = "decide"
  /\ UNCHANGED <<console, client, patterns, ready_for_service, cancel_job, dut>>

\* Check if the DUT asked us to reboot.
Reboot ==
  /\ pc = "reboot" /\ (needs_reboot => ~LogBlocks)
  /\ IF needs_reboot THEN Retry({"boot_cycle"}) ELSE UNCHANGED <<clocks, abort>>
  /\ pc' = "decide"
  /\ UNCHANGED <<console, client, patterns, ready_for_service, cancel_job, dut>>

\* Mutant: the test of the retries is inverted.
DecideInverted ==
  /\ pc = "decide" /\ (abort => ~LogBlocks)
  /\ IF ~abort
       THEN /\ UNCHANGED age
            /\ IF console \in {"ACTIVE", "DUT_DONE"}
                 THEN pc' = "loop" /\ console' = IF console = "ACTIVE" THEN DutDone ELSE console
                 ELSE pc' = "end" /\ UNCHANGED console
       ELSE /\ age' = Set({"first_console_activity", "console_activity", "boot_cycle"}, Stopped)
            /\ pc' = "loop"
            /\ UNCHANGED console
  /\ UNCHANGED <<retried, abort, client, patterns, ready_for_service, cancel_job, dut>>

\* Give up, which raises if the console is over, or go for another boot.
Decide ==
  /\ pc = "decide" /\ (abort => ~LogBlocks)
  /\ IF abort
       THEN /\ UNCHANGED age
            /\ IF console \in {"ACTIVE", "DUT_DONE"}
                 THEN pc' = "loop" /\ console' = IF console = "ACTIVE" THEN DutDone ELSE console
                 ELSE pc' = "end" /\ UNCHANGED console
       ELSE /\ age' = Set({"first_console_activity", "console_activity", "boot_cycle"}, Stopped)
            /\ pc' = "loop"
            /\ UNCHANGED console
  /\ UNCHANGED <<retried, abort, client, patterns, ready_for_service, cancel_job, dut>>

\* JobConsole.machine_unfit_for_service: the job's pattern, if it has one.
MachineUnfitForService == "machine_unfit_for_service" \in Patterns

\* The job finished; a client that is gone, or a cancellation, skips the tear down.
Over ==
  /\ pc = "over" /\ ~LogBlocks
  /\ IF console = "DUT_DONE" /\ ~cancel_job
       THEN /\ pc' = "teardown"
            /\ ready_for_service' = (ready_for_service /\ ~MachineUnfitForService)
            /\ age' = Set({"infra_teardown"}, 0)
       ELSE pc' = "end" /\ UNCHANGED <<ready_for_service, age>>
  /\ UNCHANGED <<retried, abort, console, client, patterns, cancel_job, dut>>

\* set_state(TEAR_DOWN)
TearDown ==
  /\ pc = "teardown" /\ ~LogBlocks
  /\ IF console = "OVER"
       THEN pc' = "end" /\ UNCHANGED console
       ELSE pc' = "client" /\ console' = "TEAR_DOWN"
  /\ UNCHANGED <<clocks, abort, client, patterns, ready_for_service, cancel_job, dut>>

\* Wait for the client to close the connection.
ClientDone ==
  /\ pc = "client"
  /\ console = "OVER" \/ cancel_job \/ HasExpired("infra_teardown")
  /\ age' = Set({"infra_teardown"}, Stopped)
  /\ pc' = "end"
  /\ UNCHANGED <<retried, abort, console, client, patterns, ready_for_service,
                 cancel_job, dut>>

ExecuteJob ==
  \/ SetupDone \/ Loop \/ PowerUp \/ Inner \/ Update \/ Cut \/ Account \/ Reboot
  \/ Decide \/ Over \/ TearDown \/ ClientDone

Next ==
  \/ ExecuteJob
  \/ Tick \/ DutPrints \/ ConsoleLine \/ ConnectionClosed \/ ClientStalls \/ Cancel

Spec == Init /\ [][Next]_vars

\* The thread keeps running, and so does time.  The downloads, from servers on the
\* Internet and without a timeout, need not end; a client need not read.
FairSpec == Spec /\ WF_vars(ExecuteJob /\ pc # "setup") /\ WF_vars(Tick)

-----------------------------------------------------------------------------
BootTimers == {"boot_cycle", "console_activity", "first_console_activity", "watchdog"}

\* Timeout.retries may be negative, which allows as little as 0 does.
Allowed(t) == IF Retries[t] > 0 THEN Retries[t] ELSE 0

RetriesSpent == retried["boot_cycle"] + retried["console_activity"]
                  + retried["first_console_activity"] + retried["watchdog"]
RetriesAllowed == Allowed("boot_cycle") + Allowed("console_activity")
                    + Allowed("first_console_activity") + Allowed("watchdog")

\* Every boot but the first was paid for by a retry of a timeout: the job cannot
\* reboot the machine for free.
BootsAreAccounted == boots <= 1 + RetriesSpent

\* A job boots the machine at most once plus once per retry that its timeouts
\* allow, however the expiries, the reboot requests and the output interleave.
BootsAreBounded == boots <= 1 + RetriesAllowed

\* Nor can a job be given up early: one boot spends one retry of a timeout at most,
\* and two of boot_cycle, which may run out in the boot whose late output asks for a
\* reboot.
RetriesFitBoots ==
  \A t \in BootTimers : retried[t] <= IF t = "boot_cycle" THEN 2 * boots ELSE boots

\* Whatever the machine does, the job ends: unless its downloads never do, or its
\* client never reads again and does not hang up.
JobEnds == <>(pc = "end") \/ <>[](pc = "setup") \/ <>[]LogBlocks

-----------------------------------------------------------------------------
(* What the code says of itself and does not keep (README, Disagreements).  *)

\* "first_console_activity" limits the time it can take to receive the first
\* console log (sample_job.yml:12): it runs until the boot has been heard of.
FirstActivityIsOfThisBoot ==
  pc \in {"inner", "update"} /\ age["first_console_activity"] = Stopped => spoke

\* A machine stays in service unless its output said that it is unfit
\* (test_job.py:349 and 389).
UnfitOnlyIfMatched ==
  [][ready_for_service /\ ~ready_for_service' => "machine_unfit_for_service" \in matched]_vars
=============================================================================
