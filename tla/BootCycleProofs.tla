-------------------------- MODULE BootCycleProofs --------------------------
(***************************************************************************)
(* Proof that a job boots its machine at most once plus once per retry of  *)
(* its timeouts.  The reason a boot ended must survive, in spite of the    *)
(* console thread, from the test of the inner loop to the accounting: this *)
(* is what CutHasACause says, and what a watchdog's reset line breaks.     *)
(* Conversely a boot spends few retries (FitInv), watchdogs or not.        *)
(***************************************************************************)
EXTENDS BootCycle, TLAPS

Quit == Dead \/ cancel_job
Within == \A t \in Timers : retried[t] <= Allowed(t)

Counts ==
  /\ age \in [Timers -> Int] /\ retried \in [Timers -> Nat]
  /\ boots \in Nat /\ last_activity \in Int

Flags ==
  /\ abort \in BOOLEAN /\ client_version \in BOOLEAN
  /\ needs_reboot \in BOOLEAN /\ cancel_job \in BOOLEAN
  /\ console \in {"ACTIVE", "DUT_DONE", "TEAR_DOWN", "OVER"}
  /\ line = NoLine \/ line.text \in Lines

Types == Counts /\ Flags

\* The timeouts that run: the ones of the setup and of the tear down do not run
\* during a boot.
TimersInPlace ==
  /\ pc # "setup" => age["infra_setup"] = Stopped
  /\ pc \notin {"teardown", "client", "end"} => age["infra_teardown"] = Stopped
  /\ age["watchdog"] = Stopped

\* The machine is switched off for a reason, which still holds when it is accounted.
CutHasACause ==
  /\ needs_reboot => "session_reboot" \in matched
  /\ pc \in {"cut", "account"} => Quit \/ needs_reboot \/ ExpiredList # {}

\* The boots paid for, at each step of execute_job().
Paid ==
  /\ BootsAreAccounted
  /\ pc = "setup" => boots = 0
  /\ pc = "loop" => Quit \/ boots <= RetriesSpent
  /\ pc = "power_up" => boots <= RetriesSpent
  /\ pc = "reboot" => Quit \/ needs_reboot \/ abort \/ boots <= RetriesSpent
  /\ pc = "decide" => Quit \/ abort \/ boots <= RetriesSpent

\* No timeout is past its retries, unless execute_job() is giving up.
RetriesKept ==
  /\ pc \in {"setup", "power_up", "inner", "update", "cut", "account"} => Within
  /\ pc = "loop" => Dead \/ Within
  /\ pc \in {"reboot", "decide"} => abort \/ Within

BootsInv == Types /\ TimersInPlace /\ CutHasACause /\ Paid /\ RetriesKept /\ BootsAreBounded

-----------------------------------------------------------------------------
\* The arithmetic of a boot that is paid for afterwards.
LEMMA PayArithmetic ==
  \A b, s, t \in Nat : b <= 1 + s =>
    /\ t >= s => b <= 1 + t
    /\ t >= s + 1 => b <= t
  OBVIOUS

(* Retry(): what it does to the accounts, for any set of timeouts.          *)

\* A retry of a timeout of the boot pays for a boot.
LEMMA RetryPays ==
  ASSUME Types, NEW ts \in SUBSET Timers, Retry(ts)
  PROVE  /\ age' \in [Timers -> Int] /\ retried' \in [Timers -> Nat] /\ abort' \in BOOLEAN
         /\ \A t \in Timers \ ts : age'[t] = age[t]
         /\ \A t \in ts : age'[t] = Stopped
         /\ RetriesSpent' >= RetriesSpent
         /\ ts \cap {"boot_cycle", "console_activity", "first_console_activity", "watchdog"} # {}
              => RetriesSpent' >= RetriesSpent + 1
  BY DEF Types, Counts, Flags, Retry, Set, RetriesSpent, Timers, Stopped

\* Unless it gives up, a retry leaves every timeout within its retries.
LEMMA RetryKeeps ==
  ASSUME Types, NEW ts \in SUBSET Timers, Retry(ts)
  PROVE  /\ Within => abort' \/ Within'
         /\ "overall" \in ts => abort'
         /\ abort => abort'
<1> USE TimeoutsAssumption
<1>1. \A t \in Timers : retried'[t] = IF t \in ts THEN retried[t] + 1 ELSE retried[t]
  BY DEF Retry
<1>2. abort' = (abort \/ \E t \in ts : retried[t] + 1 > Retries[t])
  BY DEF Retry
<1>3. Within => abort' \/ Within'
  <2>1. SUFFICES ASSUME Within, ~abort', NEW t \in Timers PROVE retried'[t] <= Allowed(t)
    BY DEF Within, Allowed
  <2>2. t \in ts => ~(retried[t] + 1 > Retries[t])
    BY <2>1, <1>2
  <2>3. retried[t] \in Nat /\ Retries[t] \in Int /\ retried[t] <= Allowed(t)
    BY <2>1 DEF Within, Types, Counts, Flags
  <2> QED BY <2>2, <2>3, <1>1 DEF Allowed
<1>4. "overall" \in ts => abort'
  <2>1. retried["overall"] + 1 > Retries["overall"]
    BY DEF Types, Counts, Flags, Timers
  <2> QED BY <2>1, <1>2
<1>5. abort => abort'
  BY <1>2
<1> QED BY <1>3, <1>4, <1>5

-----------------------------------------------------------------------------
\* The invariant holds when the first boot begins.
LEMMA InitBoots == Init => BootsInv
<1> SUFFICES ASSUME Init PROVE BootsInv
  OBVIOUS
<1> USE TimeoutsAssumption
<1>1. Types
  <2>1. Counts
    BY DEF Init, Counts, Stopped
  <2>2. Flags
    BY DEF Init, Flags
  <2> QED BY <2>1, <2>2 DEF Types
<1>2. TimersInPlace /\ CutHasACause
  BY DEF Init, TimersInPlace, CutHasACause, Timers, Stopped
<1>3. RetriesSpent = 0 /\ RetriesAllowed \in Nat /\ Within /\ boots = 0
  BY DEF Init, RetriesSpent, RetriesAllowed, Allowed, Within, Timers
<1>4. Paid /\ BootsAreBounded
  BY <1>3 DEF Init, Paid, BootsAreAccounted, BootsAreBounded
<1>5. RetriesKept
  BY <1>3 DEF Init, RetriesKept
<1> QED BY <1>1, <1>2, <1>4, <1>5 DEF BootsInv

\* The steps of the other threads and of time take away no cause of a cut.
LEMMA OthersKeepBoots ==
  ASSUME Lines \cap WatchdogLines = {}, BootsInv,
         Tick \/ DutPrints \/ ConsoleLine \/ ConnectionClosed \/ ClientStalls \/ Cancel
  PROVE  BootsInv'
<1> USE TimeoutsAssumption
<1>1. /\ pc' = pc /\ retried' = retried /\ abort' = abort /\ boots' = boots
      /\ client_version' = client_version
  BY DEF Tick, DutPrints, ConsoleLine, ConnectionClosed, ClientStalls, Cancel, clocks, dut, client
<1>2. Types' /\ TimersInPlace' /\ \A t \in Timers : HasExpired(t) => HasExpired(t)'
  <2>1. CASE Tick
    <3>1. Counts'
      BY <2>1 DEF Tick, BootsInv, Types, Counts, Older, Stopped
    <3>2. Flags'
      BY <2>1 DEF Tick, BootsInv, Types, Flags, client
    <3>3. \A t \in Timers : (age[t] = Stopped => age'[t] = Stopped) /\ (HasExpired(t) => HasExpired(t)')
      BY <2>1 DEF Tick, BootsInv, Types, Counts, Older, Stopped, HasExpired
    <3>4. TimersInPlace'
      BY <1>1, <3>3 DEF BootsInv, TimersInPlace, Timers
    <3> QED BY <3>1, <3>2, <3>3, <3>4 DEF Types
  <2>2. CASE DutPrints
    <3>1. Counts' /\ TimersInPlace' /\ \A t \in Timers : HasExpired(t) => HasExpired(t)'
      BY <2>2 DEF DutPrints, BootsInv, Types, Counts, TimersInPlace, HasExpired, clocks, patterns
    <3>2. line'.text \in Lines
      BY <2>2 DEF DutPrints
    <3>3. Flags'
      BY <2>2, <3>2 DEF DutPrints, BootsInv, Types, Flags, client, patterns
    <3> QED BY <3>1, <3>3 DEF Types
  <2>3. CASE ConsoleLine
    <3>1. age' = age
      BY <2>3 DEF ConsoleLine, WatchdogLine, WatchdogLines, BootsInv, Types, Counts, Flags, TimersInPlace
    <3> QED BY <2>3, <3>1 DEF ConsoleLine, BootsInv, Types, Counts, Flags, TimersInPlace, HasExpired, DutDone, client
  <2>4. CASE ConnectionClosed
    BY <2>4 DEF ConnectionClosed, BootsInv, Types, Counts, Flags, TimersInPlace, HasExpired, clocks, dut,
                patterns, DutDone, client
  <2>5. CASE Cancel
    BY <2>5 DEF Cancel, BootsInv, Types, Counts, Flags, TimersInPlace, HasExpired, clocks, dut, patterns, client
  <2>6. CASE ClientStalls
    BY <2>6 DEF ClientStalls, BootsInv, Types, Counts, Flags, TimersInPlace, HasExpired, clocks, dut, patterns, client
  <2> QED BY <2>1, <2>2, <2>3, <2>4, <2>5, <2>6
<1>3. /\ Dead => Dead'
      /\ cancel_job => cancel_job'
      /\ needs_reboot => needs_reboot'
      /\ needs_reboot' => "session_reboot" \in matched'
  BY DEF Tick, DutPrints, ConsoleLine, ConnectionClosed, ClientStalls, Cancel, BootsInv, Types, Counts, Flags, CutHasACause,
         Dead, DutDone, patterns, client
<1>4. ExpiredList # {} => ExpiredList' # {}
  BY <1>2 DEF ExpiredList
<1>5. CutHasACause'
  BY <1>1, <1>3, <1>4 DEF BootsInv, CutHasACause, Quit
<1>6. Paid' /\ RetriesKept' /\ BootsAreBounded'
  BY <1>1, <1>3 DEF BootsInv, Paid, RetriesKept, BootsAreBounded, BootsAreAccounted, RetriesSpent,
                    RetriesAllowed, Allowed, Within, Quit
<1> QED BY <1>2, <1>5, <1>6 DEF BootsInv

-----------------------------------------------------------------------------
(* The steps that spend retries, or boots.                                  *)

\* The power-up that starts a boot.
LEMMA PowerUpKeepsBoots ==
  ASSUME BootsInv, PowerUp
  PROVE  BootsInv'
<1> USE TimeoutsAssumption
<1>1. Types' /\ TimersInPlace' /\ CutHasACause'
  <2>1. Counts'
    <3>1. age' \in [Timers -> Int]
      BY DEF PowerUp, Stopped, BootsInv, Types, Counts
    <3> QED BY <3>1 DEF PowerUp, BootsInv, Types, Counts, patterns
  <2>2. Flags'
    BY DEF PowerUp, BootsInv, Types, Flags, patterns, client
  <2>3. /\ age'["infra_setup"] = age["infra_setup"]
        /\ age'["infra_teardown"] = age["infra_teardown"]
        /\ age'["watchdog"] = Stopped
    BY DEF PowerUp, Timers
  <2>4. TimersInPlace' /\ CutHasACause'
    BY <2>3 DEF PowerUp, BootsInv, TimersInPlace, CutHasACause, patterns
  <2> QED BY <2>1, <2>2, <2>4 DEF Types
<1>2. boots' = boots + 1 /\ boots <= RetriesSpent /\ RetriesSpent' = RetriesSpent /\ pc' = "inner"
  BY DEF PowerUp, BootsInv, Paid, RetriesSpent
<1>3. RetriesSpent <= RetriesAllowed /\ RetriesSpent \in Nat /\ RetriesAllowed \in Nat /\ boots \in Nat
  BY DEF PowerUp, BootsInv, RetriesKept, Within, RetriesSpent, RetriesAllowed, Allowed, Types, Counts, Flags, Timers
<1>4. Paid' /\ BootsAreBounded'
  BY <1>2, <1>3 DEF Paid, BootsAreAccounted, BootsAreBounded, RetriesAllowed
<1>5. RetriesKept'
  BY <1>2 DEF PowerUp, BootsInv, RetriesKept, Within, Allowed
<1> QED BY <1>1, <1>4, <1>5 DEF BootsInv

\* A boot is counted, and whether it is retried.
LEMMA AccountKeepsBoots ==
  ASSUME BootsInv, Account
  PROVE  BootsInv'
<1> USE TimeoutsAssumption
<1>1. Types /\ ExpiredList \in SUBSET Timers /\ Retry(ExpiredList)
  BY DEF Account, BootsInv, RetriesKept, ExpiredList
<1>2. /\ age' \in [Timers -> Int] /\ retried' \in [Timers -> Nat] /\ abort' \in BOOLEAN
      /\ \A t \in Timers \ ExpiredList : age'[t] = age[t]
      /\ \A t \in ExpiredList : age'[t] = Stopped
      /\ RetriesSpent' >= RetriesSpent
      /\ ExpiredList \cap {"boot_cycle", "console_activity", "first_console_activity", "watchdog"} # {}
           => RetriesSpent' >= RetriesSpent + 1
  BY <1>1, RetryPays
<1>3. /\ Within => abort' \/ Within'
      /\ "overall" \in ExpiredList => abort'
  BY <1>1, RetryKeeps
<1>4. /\ pc = "account" /\ pc' = "reboot" /\ boots' = boots
      /\ (Dead' <=> Dead) /\ cancel_job' = cancel_job /\ needs_reboot' = needs_reboot
  BY DEF Account, Dead, patterns, dut
<1>5. Types' /\ TimersInPlace' /\ CutHasACause'
  BY <1>2, <1>4 DEF Account, BootsInv, Types, Counts, Flags, TimersInPlace, CutHasACause, Timers, Stopped,
                    patterns, dut, client
<1>6. ExpiredList # {} =>
        \/ "overall" \in ExpiredList
        \/ ExpiredList \cap {"boot_cycle", "console_activity", "first_console_activity", "watchdog"} # {}
  <2>1. "infra_setup" \notin ExpiredList /\ "infra_teardown" \notin ExpiredList
    BY <1>4 DEF BootsInv, TimersInPlace, ExpiredList, HasExpired, Timers, Stopped
  <2> QED BY <2>1, <1>1 DEF Timers
<1>7. RetriesSpent \in Nat /\ RetriesSpent' \in Nat /\ boots \in Nat /\ boots <= 1 + RetriesSpent
  BY <1>2 DEF BootsInv, Types, Counts, Flags, Paid, BootsAreAccounted, RetriesSpent, Timers
<1>8. Quit \/ needs_reboot \/ abort' \/ boots <= RetriesSpent'
  BY <1>2, <1>3, <1>4, <1>6, <1>7 DEF BootsInv, CutHasACause
<1>9. Paid' /\ BootsAreBounded'
  <2>1. boots' <= 1 + RetriesSpent'
    <3>1. RetriesSpent' >= RetriesSpent
      BY <1>2
    <3>2. boots' = boots
      BY <1>4
    <3> HIDE TimeoutsAssumption
    <3> QED BY <1>7, <3>1, <3>2, PayArithmetic
  <2>2. Quit' \/ needs_reboot' \/ abort' \/ boots' <= RetriesSpent'
    BY <1>4, <1>8 DEF Quit
  <2>3. BootsAreBounded'
    BY <1>4 DEF BootsInv, BootsAreBounded, RetriesAllowed
  <2> QED BY <1>4, <2>1, <2>2, <2>3 DEF Paid, BootsAreAccounted
<1>10. RetriesKept'
  BY <1>3, <1>4 DEF BootsInv, RetriesKept
<1> QED BY <1>5, <1>9, <1>10 DEF BootsInv

\* The reboot that the console asks for.
LEMMA RebootKeepsBoots ==
  ASSUME BootsInv, Reboot
  PROVE  BootsInv'
<1> USE TimeoutsAssumption
<1>1. /\ pc = "reboot" /\ pc' = "decide" /\ boots' = boots
      /\ (Dead' <=> Dead) /\ cancel_job' = cancel_job /\ needs_reboot' = needs_reboot
  BY DEF Reboot, Dead, patterns, dut
<1>2. RetriesSpent \in Nat /\ boots \in Nat /\ boots <= 1 + RetriesSpent
  BY DEF BootsInv, Types, Counts, Flags, Paid, BootsAreAccounted, RetriesSpent, Timers
<1>3. CASE needs_reboot
  <2>1. Types /\ {"boot_cycle"} \in SUBSET Timers /\ Retry({"boot_cycle"})
    BY <1>3 DEF Reboot, BootsInv, RetriesKept, Timers
  <2>2. /\ age' \in [Timers -> Int] /\ retried' \in [Timers -> Nat] /\ abort' \in BOOLEAN
        /\ \A t \in Timers \ {"boot_cycle"} : age'[t] = age[t]
        /\ RetriesSpent' >= RetriesSpent + 1
    BY <2>1, RetryPays
  <2>3. (Within => abort' \/ Within') /\ (abort => abort')
    BY <2>1, RetryKeeps
  <2>4. Types' /\ TimersInPlace' /\ CutHasACause'
    BY <1>1, <2>2 DEF Reboot, BootsInv, Types, Counts, Flags, TimersInPlace, CutHasACause, Timers, patterns, dut, client
  <2>5. RetriesSpent' \in Nat
    BY <2>2 DEF RetriesSpent, Timers
  <2>6. Paid' /\ BootsAreBounded'
    <3>1. boots' <= RetriesSpent' /\ boots' <= 1 + RetriesSpent'
      <4>1. RetriesSpent' >= RetriesSpent + 1
        BY <2>2
      <4>2. boots' = boots
        BY <1>1
      <4>3. RetriesSpent' >= RetriesSpent
        BY <2>1, RetryPays
      <4> HIDE TimeoutsAssumption
      <4> QED BY <1>2, <2>5, <4>1, <4>2, <4>3, PayArithmetic
    <3>2. BootsAreBounded'
      BY <1>1 DEF BootsInv, BootsAreBounded, RetriesAllowed
    <3> QED BY <1>1, <3>1, <3>2 DEF Paid, BootsAreAccounted
  <2>7. RetriesKept'
    BY <1>1, <2>3 DEF BootsInv, RetriesKept
  <2> QED BY <2>4, <2>6, <2>7 DEF BootsInv
<1>4. CASE ~needs_reboot
  <2>1. age' = age /\ retried' = retried /\ abort' = abort
    BY <1>4 DEF Reboot, clocks
  <2>2. Types' /\ TimersInPlace' /\ CutHasACause'
    BY <1>1, <2>1 DEF Reboot, BootsInv, Types, Counts, Flags, TimersInPlace, CutHasACause, patterns, dut, client
  <2>3. Paid' /\ BootsAreBounded' /\ RetriesKept'
    BY <1>1, <1>4, <2>1 DEF BootsInv, Paid, BootsAreAccounted, BootsAreBounded, RetriesSpent,
       RetriesAllowed, RetriesKept, Within, Allowed, Quit
  <2> QED BY <2>2, <2>3 DEF BootsInv
<1> QED BY <1>3, <1>4 DEF BootsInv, Types, Counts, Flags

-----------------------------------------------------------------------------
(* The steps that spend nothing.                                            *)

\* Any step of execute_job() that changes neither the accounts nor the machine.
FreeStep == SetupDone \/ Loop \/ Inner \/ Update \/ Cut \/ Decide \/ Over \/ TearDown \/ ClientDone

\* The types, for the steps that do not count boots.
LEMMA FreeStepKeepsTypes ==
  ASSUME BootsInv, FreeStep
  PROVE  Types' /\ TimersInPlace' /\ retried' = retried /\ boots' = boots
<1> USE TimeoutsAssumption
<1>1. retried' = retried /\ boots' = boots
  BY DEF FreeStep, SetupDone, Loop, Inner, Update, Cut, Decide, Over, TearDown, ClientDone, clocks, dut
<1>2. age' \in [Timers -> Int]
  <2>1. age \in [Timers -> Int] /\ \A ts : Set(ts, Stopped) \in [Timers -> Int] /\ Set(ts, 0) \in [Timers -> Int]
    BY DEF Set, Stopped, BootsInv, Types, Counts
  <2>2. CASE SetupDone \/ Loop \/ Inner \/ Cut \/ Decide \/ Over \/ TearDown \/ ClientDone
    BY <2>1, <2>2 DEF SetupDone, Loop, Inner, Cut, Decide, Over, TearDown, ClientDone, clocks
  <2>3. CASE Update
    BY <2>1, <2>3 DEF Update, Stopped, BootsInv, Types, Counts
  <2> QED BY <2>2, <2>3 DEF FreeStep
<1>3. Flags'
  BY DEF FreeStep, SetupDone, Loop, Inner, Update, Cut, Decide, Over, TearDown, ClientDone, dut,
         patterns, BootsInv, Types, Flags, DutDone, client
<1>4. TimersInPlace'
  BY DEF FreeStep, SetupDone, Loop, Inner, Update, Cut, Decide, Over, TearDown, ClientDone, clocks,
         Set, Timers, BootsInv, TimersInPlace, Types, Counts
<1>5. last_activity' \in Int
  BY DEF FreeStep, SetupDone, Loop, Inner, Update, Cut, Decide, Over, TearDown, ClientDone, patterns,
         Stopped, BootsInv, Types, Counts
<1> QED BY <1>1, <1>2, <1>3, <1>4, <1>5 DEF BootsInv, Types, Counts

\* The steps that do not count boots.
LEMMA FreeStepKeepsBoots ==
  ASSUME BootsInv, FreeStep
  PROVE  BootsInv'
<1> USE TimeoutsAssumption
<1>1. Types' /\ TimersInPlace' /\ retried' = retried /\ boots' = boots
  BY FreeStepKeepsTypes
<1>2. (RetriesSpent' = RetriesSpent) /\ (Within' <=> Within) /\ BootsAreBounded' /\ BootsAreAccounted'
  BY <1>1 DEF BootsInv, Paid, RetriesSpent, Within, BootsAreBounded, BootsAreAccounted, RetriesAllowed
<1>3. CutHasACause'
  <2>1. CASE Inner
    BY <2>1 DEF Inner, BootsInv, CutHasACause, Quit, Dead, ExpiredList, HasExpired, patterns, clocks
  <2>2. CASE Cut
    BY <2>2 DEF Cut, BootsInv, CutHasACause, Quit, Dead, ExpiredList, HasExpired, patterns, clocks
  <2>3. CASE Loop
    BY <2>3 DEF Loop, BootsInv, CutHasACause, patterns
  <2>4. CASE SetupDone \/ Update \/ Decide \/ Over \/ TearDown \/ ClientDone
    BY <2>4 DEF SetupDone, Update, Decide, Over, TearDown, ClientDone, BootsInv, CutHasACause, patterns
  <2> QED BY <2>1, <2>2, <2>3, <2>4 DEF FreeStep
<1>4. Paid' /\ RetriesKept'
  <2>1. CASE Decide
    <3>1. CASE abort
      <4>1. pc' = "end" \/ (pc' = "loop" /\ Dead')
        BY <2>1, <3>1 DEF Decide, Dead, DutDone, BootsInv, Types, Flags
      <4> QED BY <4>1, <1>2 DEF Paid, RetriesKept, Quit
    <3>2. CASE ~abort
      <4>1. pc = "decide" /\ pc' = "loop" /\ (Dead' <=> Dead) /\ (cancel_job' <=> cancel_job)
        BY <2>1, <3>2 DEF Decide, Dead
      <4>2. (Quit' \/ boots' <= RetriesSpent') /\ Within'
        BY <4>1, <3>2, <1>1, <1>2 DEF BootsInv, Paid, RetriesKept, Quit
      <4> QED BY <4>1, <4>2, <1>2 DEF Paid, RetriesKept
    <3> QED BY <3>1, <3>2
  <2>2. CASE SetupDone
    <3>1. pc = "setup" /\ pc' = "loop" /\ boots = 0
      BY <2>2 DEF SetupDone, BootsInv, Paid
    <3>2. 0 <= RetriesSpent
      BY DEF BootsInv, Types, Counts, RetriesSpent, Timers
    <3>3. Within'
      BY <3>1, <1>2 DEF BootsInv, RetriesKept
    <3>4. boots' <= RetriesSpent'
      BY <3>1, <3>2, <1>1, <1>2
    <3> QED BY <3>1, <3>3, <3>4, <1>2 DEF Paid, RetriesKept
  <2>3. CASE Loop
    <3>1. pc = "loop" /\ (pc' = "over" \/ (pc' = "power_up" /\ ~Quit))
      BY <2>3 DEF Loop, Quit
    <3>2. pc' = "power_up" => boots' <= RetriesSpent' /\ Within'
      BY <3>1, <1>1, <1>2 DEF BootsInv, Paid, RetriesKept, Quit
    <3> QED BY <3>1, <3>2, <1>2 DEF Paid, RetriesKept
  <2>4. CASE Inner \/ Update \/ Cut
    <3>1. pc \in {"inner", "update", "cut"} /\ pc' \in {"inner", "update", "cut", "account"}
      BY <2>4 DEF Inner, Update, Cut
    <3>2. Within'
      BY <3>1, <1>2 DEF BootsInv, RetriesKept
    <3> QED BY <3>1, <3>2, <1>2 DEF Paid, RetriesKept
  <2>5. CASE Over \/ TearDown \/ ClientDone
    <3>1. pc' \in {"teardown", "client", "end"}
      BY <2>5 DEF Over, TearDown, ClientDone
    <3> QED BY <3>1, <1>2 DEF Paid, RetriesKept
  <2> QED BY <2>1, <2>2, <2>3, <2>4, <2>5 DEF FreeStep
<1> QED BY <1>1, <1>2, <1>3, <1>4 DEF BootsInv

-----------------------------------------------------------------------------
\* The inductive invariant, for jobs without a watchdog.
THEOREM BootsCorrect ==
  ASSUME Lines \cap WatchdogLines = {}
  PROVE  Spec => []BootsInv
<1>1. ASSUME BootsInv, [Next]_vars PROVE BootsInv'
  <2>1. CASE Tick \/ DutPrints \/ ConsoleLine \/ ConnectionClosed \/ ClientStalls \/ Cancel
    BY <1>1, <2>1, OthersKeepBoots
  <2>2. CASE PowerUp
    BY <1>1, <2>2, PowerUpKeepsBoots
  <2>3. CASE Account
    BY <1>1, <2>3, AccountKeepsBoots
  <2>4. CASE Reboot
    BY <1>1, <2>4, RebootKeepsBoots
  <2>5. CASE FreeStep
    BY <1>1, <2>5, FreeStepKeepsBoots
  <2>6. CASE UNCHANGED vars
    BY <1>1, <2>6 DEF vars, clocks, patterns, dut, BootsInv, Types, Counts, Flags, TimersInPlace,
       CutHasACause, Paid, RetriesKept, BootsAreBounded, BootsAreAccounted, RetriesSpent,
       RetriesAllowed, Allowed, Quit, Dead, Within, ExpiredList, HasExpired, client
  <2> QED BY <1>1, <2>1, <2>2, <2>3, <2>4, <2>5, <2>6 DEF Next, ExecuteJob, FreeStep
<1> QED BY <1>1, InitBoots, PTL DEF Spec

\* However many ways a boot may end, a job without a watchdog boots its machine
\* at most once plus once per retry that its timeouts allow (execute_job()).
THEOREM BootsBounded ==
  ASSUME Lines \cap WatchdogLines = {}
  PROVE  Spec => []BootsAreBounded
<1>1. BootsInv => BootsAreBounded
  BY DEF BootsInv
<1> QED BY <1>1, BootsCorrect, PTL

\* Every boot but the first is paid for by a retry (execute_job()).
THEOREM BootsAccounted ==
  ASSUME Lines \cap WatchdogLines = {}
  PROVE  Spec => []BootsAreAccounted
<1>1. BootsInv => BootsAreAccounted
  BY DEF BootsInv, Paid
<1> QED BY <1>1, BootsCorrect, PTL

-----------------------------------------------------------------------------
(* A boot spends few retries.  While it runs it has spent none yet, and the *)
(* expired timeouts and the reboot request are counted once each after it.  *)

Booting == pc \in {"inner", "update", "cut", "account"}

\* What the boot that runs, or is being accounted, may still spend.
Pending(t) ==
  CASE t # "boot_cycle" -> IF Booting THEN 1 ELSE 0
    [] t = "boot_cycle" -> IF Booting THEN 2 ELSE IF pc = "reboot" THEN 1 ELSE 0

FitInv ==
  /\ boots \in Nat /\ retried \in [Timers -> Nat]
  /\ \A t \in BootTimers :
       retried[t] + Pending(t) <= IF t = "boot_cycle" THEN 2 * boots ELSE boots

\* Every step keeps what is spent, and what may still be, within the boots.
LEMMA FitKept ==
  ASSUME FitInv, [Next]_vars
  PROVE  FitInv'
<1> USE DEF FitInv, Pending, Booting
<1>0. BootTimers \subseteq Timers /\ "boot_cycle" \in BootTimers
  BY DEF BootTimers, Timers
<1>1. CASE PowerUp
  <2>1. /\ pc = "power_up" /\ pc' = "inner"
        /\ boots' = boots + 1 /\ retried' = retried
    BY <1>1 DEF PowerUp
  <2> QED BY <2>1, <1>0
<1>2. CASE Account
  <2>1. pc = "account" /\ pc' = "reboot" /\ boots' = boots
    BY <1>2 DEF Account, dut
  <2>2. /\ retried' \in [Timers -> Nat]
        /\ \A t \in Timers : retried'[t] <= retried[t] + 1
    BY <1>2 DEF Account, Retry
  <2> QED BY <2>1, <2>2, <1>0
<1>3. CASE Reboot
  <2>1. pc = "reboot" /\ pc' = "decide" /\ boots' = boots
    BY <1>3 DEF Reboot, dut
  <2>2. /\ retried' \in [Timers -> Nat]
        /\ \A t \in Timers \ {"boot_cycle"} : retried'[t] = retried[t]
        /\ retried'["boot_cycle"] <= retried["boot_cycle"] + 1
    <3>1. CASE needs_reboot
      BY <1>3, <3>1, <1>0 DEF Reboot, Retry
    <3>2. CASE ~needs_reboot
      BY <1>3, <3>2, <1>0 DEF Reboot, clocks
    <3> QED BY <3>1, <3>2
  <2> QED BY <2>1, <2>2, <1>0
<1>4. CASE Inner \/ Update \/ Cut
  <2>1. /\ pc \in {"inner", "update", "cut"} /\ pc' \in {"inner", "update", "cut", "account"}
        /\ boots' = boots /\ retried' = retried
    BY <1>4 DEF Inner, Update, Cut, clocks, dut
  <2> QED BY <2>1, <1>0
<1>5. CASE SetupDone \/ Loop \/ Decide \/ Over \/ TearDown \/ ClientDone
  <2>1. /\ pc \in {"setup", "loop", "decide", "over", "teardown", "client"}
        /\ pc' \in {"loop", "over", "power_up", "teardown", "client", "end"}
        /\ boots' = boots /\ retried' = retried
    BY <1>5 DEF SetupDone, Loop, Decide, Over, TearDown, ClientDone, clocks, dut
  <2> QED BY <2>1, <1>0
<1>6. CASE Tick \/ DutPrints \/ ConsoleLine \/ ConnectionClosed \/ ClientStalls \/ Cancel
  <2>1. pc' = pc /\ boots' = boots /\ retried' = retried
    BY <1>6 DEF Tick, DutPrints, ConsoleLine, ConnectionClosed, ClientStalls, Cancel, clocks, dut
  <2> QED BY <2>1
<1>7. CASE UNCHANGED vars
  BY <1>7 DEF vars, clocks, dut
<1> QED BY <1>1, <1>2, <1>3, <1>4, <1>5, <1>6, <1>7 DEF Next, ExecuteJob

\* For every job, watchdogs included, a boot spends one retry of a timeout at most, and
\* two of boot_cycle: late output and expiries cannot use up the retries of a job in
\* fewer boots (execute_job()).
THEOREM RetriesFit == Spec => []RetriesFitBoots
<1>1. Init => FitInv
  BY DEF Init, FitInv, Pending, Booting, BootTimers, Timers
<1>2. FitInv => RetriesFitBoots
  <2>1. BootTimers \subseteq Timers
    BY DEF BootTimers, Timers
  <2> QED BY <2>1 DEF FitInv, Pending, RetriesFitBoots
<1> QED BY <1>1, <1>2, FitKept, PTL DEF Spec

-----------------------------------------------------------------------------
(* Type correctness, for every job, watchdogs included: it bounds the clock *)
(* of each timeout by the first tick past its limit.                        *)

Ages == [Timers -> Int]
InRange(f) == f \in Ages /\ \A t \in Timers : f[t] \in Stopped .. Limit[t] + 1

\* Stopping or starting a set of timeouts keeps their clocks in range.
LEMMA SetInRange ==
  ASSUME InRange(age), NEW ts, NEW value \in {Stopped, 0}
  PROVE  InRange(Set(ts, value))
BY TimeoutsAssumption DEF InRange, Ages, Set, Stopped

\* So does the clock of a timeout that gets older.
LEMMA OlderInRange ==
  ASSUME NEW limit \in Nat, NEW a \in Stopped .. limit + 1
  PROVE  Older(a, limit) \in Stopped .. limit + 1
BY DEF Older, Stopped

\* Everything that is neither a clock nor a count.
Finite ==
  /\ pc \in {"setup", "loop", "power_up", "inner", "update", "cut", "account", "reboot",
              "decide", "over", "teardown", "client", "end"}
  /\ console \in {"ACTIVE", "DUT_DONE", "TEAR_DOWN", "OVER"}
  /\ matched \subseteq PatternNames
  /\ power \in {"ON", "OFF"}
  /\ abort \in BOOLEAN /\ client_version \in BOOLEAN /\ stalled \in BOOLEAN /\ needs_reboot \in BOOLEAN
  /\ ready_for_service \in BOOLEAN /\ cancel_job \in BOOLEAN /\ spoke \in BOOLEAN
  /\ line \in [text : Lines \cup {"none"}, boot : 0 .. MaxBoots]

Clocks ==
  /\ InRange(age)
  /\ retried \in [Timers -> Nat]
  /\ last_activity \in Stopped .. Limit["console_activity"] + 1
  /\ off_for \in 0 .. OffTime /\ boots \in 0 .. MaxBoots

\* Timeout.retry() keeps them, and counts.
LEMMA RetryInRange ==
  ASSUME InRange(age), retried \in [Timers -> Nat], abort \in BOOLEAN, NEW ts, Retry(ts)
  PROVE  InRange(age') /\ retried' \in [Timers -> Nat] /\ abort' \in BOOLEAN
<1>1. InRange(age')
  BY SetInRange DEF Retry
<1>2. retried' \in [Timers -> Nat]
  BY DEF Retry
<1>3. abort' \in BOOLEAN
  BY DEF Retry
<1> QED
  BY <1>1, <1>2, <1>3

\* TypeOK is these two.
LEMMA TypeParts == TypeOK <=> Finite /\ Clocks
BY DEF TypeOK, Finite, Clocks, InRange, Ages

\* No step lets a clock run past its limit by more than a tick.
LEMMA ClocksKept ==
  ASSUME Finite, Clocks, [Next]_vars
  PROVE  Clocks'
<1> USE TimeoutsAssumption, BoundsAssumption DEF Clocks, clocks, patterns, client, dut
<1>0. /\ \A t \in Timers : {Stopped, 0} \subseteq Stopped .. Limit[t] + 1
      /\ {Stopped, 0} \subseteq Stopped .. Limit["console_activity"] + 1
      /\ \A t \in Timers : Limit[t] \in Nat
  BY DEF Stopped, Timers
<1>1. CASE SetupDone
  BY <1>1, SetInRange, OlderInRange DEF SetupDone
<1>2. CASE Loop
  BY <1>2, <1>0 DEF Loop
<1>3. CASE PowerUp
  <2>1. /\ DOMAIN age' = Timers
        /\ \A t \in Timers : age'[t] \in {0, Stopped, age[t]}
    BY <1>3 DEF PowerUp
  <2>2. age' = [t \in Timers |-> age'[t]]
    BY <1>3 DEF PowerUp
  <2>3. InRange(age')
    BY <2>1, <2>2, <1>0 DEF InRange, Ages, Stopped
  <2>4. off_for' \in 0 .. OffTime /\ boots' \in 0 .. MaxBoots
    BY <1>3 DEF PowerUp
  <2> QED
    BY <1>3, <2>3, <2>4 DEF PowerUp
<1>4. CASE Inner
  BY <1>4, SetInRange, OlderInRange DEF Inner
<1>5. CASE Update
  <2>1. CASE last_activity = Stopped
    BY <1>5, <2>1 DEF Update
  <2>2. CASE last_activity # Stopped
    <3>1. age' = [t \in Timers |-> age'[t]]
      BY <1>5, <2>2 DEF Update
    <3>2. age'["console_activity"] = last_activity
      BY <1>5, <2>2 DEF Update, Timers
    <3>3. \A t \in Timers \ {"console_activity"} : age'[t] \in {Stopped, age[t]}
      BY <1>5, <2>2 DEF Update
    <3>4. InRange(age')
      BY <3>1, <3>2, <3>3, <1>0 DEF InRange, Ages, Stopped
    <3> QED
      BY <1>5, <3>4 DEF Update
  <2> QED
    BY <2>1, <2>2
<1>6. CASE Cut
  BY <1>6, SetInRange, OlderInRange DEF Cut
<1>7. CASE Account
  BY <1>7, RetryInRange DEF Account, Finite
<1>8. CASE Reboot
  BY <1>8, RetryInRange DEF Reboot, Finite
<1>9. CASE Decide
  BY <1>9, SetInRange, OlderInRange DEF Decide
<1>10. CASE Over
  BY <1>10, SetInRange, OlderInRange DEF Over
<1>11. CASE TearDown
  BY <1>11, SetInRange, OlderInRange DEF TearDown
<1>12. CASE ClientDone
  BY <1>12, SetInRange, OlderInRange DEF ClientDone
<1>13. CASE Tick
  <2>1. age' = [t \in Timers |-> age'[t]]
    BY <1>13 DEF Tick
  <2>2. ASSUME NEW t \in Timers
        PROVE  age'[t] \in Stopped .. Limit[t] + 1
    BY <1>13, <1>0, OlderInRange DEF Tick, InRange
  <2>3. InRange(age')
    BY <2>1, <2>2 DEF InRange, Ages, Stopped
  <2>4. last_activity' \in Stopped .. Limit["console_activity"] + 1
    BY <1>13, <1>0, OlderInRange DEF Tick, Timers
  <2>5. off_for' \in 0 .. OffTime
    BY <1>13 DEF Tick
  <2> QED
    BY <1>13, <2>3, <2>4, <2>5 DEF Tick
<1>14. CASE DutPrints
  BY <1>14, SetInRange, OlderInRange DEF DutPrints
<1>15. CASE ConsoleLine
  <2>1. InRange(age')
    BY <1>15, SetInRange DEF ConsoleLine, WatchdogLine
  <2> QED
    BY <1>15, <2>1, <1>0 DEF ConsoleLine
<1>16. CASE ConnectionClosed
  BY <1>16, SetInRange, OlderInRange DEF ConnectionClosed
<1>17. CASE Cancel
  BY <1>17, SetInRange, OlderInRange DEF Cancel
<1>18. CASE ClientStalls
  BY <1>18 DEF ClientStalls
<1>19. CASE UNCHANGED vars
  BY <1>19 DEF vars
<1> QED
  BY <1>1, <1>2, <1>3, <1>4, <1>5, <1>6, <1>7, <1>8, <1>9, <1>10, <1>11, <1>12, <1>13, <1>14, <1>15, <1>16, <1>17, <1>18, <1>19 DEF Next, ExecuteJob

\* Nor does one give an attribute an unexpected value.
LEMMA FiniteKept ==
  ASSUME Finite, Clocks, [Next]_vars
  PROVE  Finite'
<1> USE DEF Finite, clocks, patterns, client, dut
<1>1. CASE SetupDone
  BY <1>1 DEF SetupDone
<1>2. CASE Loop
  BY <1>2 DEF Loop
<1>3. CASE PowerUp
  BY <1>3 DEF PowerUp
<1>4. CASE Inner
  BY <1>4 DEF Inner
<1>5. CASE Update
  BY <1>5 DEF Update
<1>6. CASE Cut
  BY <1>6 DEF Cut
<1>7. CASE Account
  BY <1>7, RetryInRange DEF Account, Clocks
<1>8. CASE Reboot
  BY <1>8, RetryInRange DEF Reboot, Clocks
<1>9. CASE Decide
  BY <1>9 DEF Decide, DutDone
<1>10. CASE Over
  BY <1>10 DEF Over
<1>11. CASE TearDown
  BY <1>11 DEF TearDown
<1>12. CASE ClientDone
  BY <1>12 DEF ClientDone
<1>13. CASE Tick
  BY <1>13 DEF Tick
<1>14. CASE DutPrints
  BY <1>14 DEF DutPrints, Clocks
<1>15. CASE ConsoleLine
  <2>1. matched' \subseteq PatternNames
    BY <1>15, LinesAssumption DEF ConsoleLine, PatternNames
  <2>2. needs_reboot' \in BOOLEAN
    BY <1>15 DEF ConsoleLine
  <2>3. spoke' \in BOOLEAN
    BY <1>15 DEF ConsoleLine
  <2>4. console' \in {"ACTIVE", "DUT_DONE", "TEAR_DOWN", "OVER"}
    BY <1>15 DEF ConsoleLine, DutDone
  <2>5. line' \in [text : Lines \cup {"none"}, boot : 0 .. MaxBoots]
    BY <1>15, BoundsAssumption DEF ConsoleLine, NoLine
  <2> QED
    BY <1>15, <2>1, <2>2, <2>3, <2>4, <2>5 DEF ConsoleLine
<1>16. CASE ConnectionClosed
  BY <1>16 DEF ConnectionClosed, DutDone
<1>17. CASE Cancel
  BY <1>17 DEF Cancel
<1>18. CASE ClientStalls
  BY <1>18 DEF ClientStalls
<1>19. CASE UNCHANGED vars
  BY <1>19 DEF vars
<1> QED
  BY <1>1, <1>2, <1>3, <1>4, <1>5, <1>6, <1>7, <1>8, <1>9, <1>10, <1>11, <1>12, <1>13, <1>14, <1>15, <1>16, <1>17, <1>18, <1>19 DEF Next, ExecuteJob

\* For every job, with or without watchdogs, execute_job() and the console thread
\* keep every attribute in its type, and every timeout within one tick of its limit.
THEOREM BootsTypeCorrect == Spec => []TypeOK
<1>1. Init => TypeOK
  <2> SUFFICES ASSUME Init PROVE TypeOK
    OBVIOUS
  <2>1. Clocks
    BY TimeoutsAssumption, BoundsAssumption DEF Init, Clocks, InRange, Ages, Stopped, Timers
  <2>2. Finite
    <3>1. line \in [text : Lines \cup {"none"}, boot : 0 .. MaxBoots]
      BY BoundsAssumption DEF Init, NoLine
    <3>2. client_version \in BOOLEAN /\ ready_for_service \in BOOLEAN
      BY DEF Init
    <3> QED
      BY <3>1, <3>2 DEF Init, Finite
  <2> QED
    BY <2>1, <2>2, TypeParts
<1>2. TypeOK /\ [Next]_vars => TypeOK'
  <2>1. TypeOK' <=> (Finite /\ Clocks)'
    BY TypeParts, PTL
  <2> QED
    BY <2>1, TypeParts, ClocksKept, FiniteKept
<1> QED
  BY <1>1, <1>2, PTL DEF Spec
=============================================================================
