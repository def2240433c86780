----------------------------- MODULE MCBootCycle -----------------------------
(* Instances of BootCycle for model checking. *)
EXTENDS BootCycle

\* Short timeouts: the activity timeouts run out before the boot does, and the boot
\* before the job.
MCLimit == [t \in Timers |->
  CASE t = "overall" -> 4 [] t = "boot_cycle" -> 2 [] OTHER -> 1]

OneRetry(ts) == [t \in Timers |-> IF t \in ts THEN 1 ELSE 0]
MCRetries == OneRetry({"boot_cycle", "first_console_activity"})
MCRetriesWatchdog == OneRetry({"watchdog"})
=============================================================================
