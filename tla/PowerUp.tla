------------------------------- MODULE PowerUp -------------------------------
(***************************************************************************)
(* How a test machine comes up: the Executor thread caches the artifacts   *)
(* of a job, sets the boot configuration and cycles the power (executor.py,*)
(* minioclient.py, pdu/__init__.py); the machine asks for its boot script  *)
(* (boots.py) and loads what the script names.  Meanwhile update_config()  *)
(* (mars.py), called by the other threads again and again, replaces the    *)
(* PDUPort object, which knows when the port was turned off.               *)
(*                                                                         *)
(* Time is counted in ticks, up to MinOffTime, past which it makes no      *)
(* difference.  PDUPort objects that nobody refers to any more leave their *)
(* slot to a new one.                                                      *)
(***************************************************************************)
EXTENDS PowerUpState, FiniteSetsExt

executor == <<epc, job, deployment, mapping, cache, boot_config>>
ports == <<ppc, new, port>>
dut == <<script, running>>
vars == <<executor, held, ports, last, power, off_for, behind, dut, faults>>

TypeOK ==
  /\ epc \in {"init", "cache", "save", "loop", "off", "config", "on", "boot", "cut"}
  /\ job \in [{Start, Continue} -> Urls \cup {None}] /\ deployment \in {Start, Continue}
  /\ mapping \in [Urls -> Urls \cup {Cached, None}] /\ cache \in Remote \cup {None}
  /\ boot_config \in BootConfigs \cup {None}
  /\ held \in Slots \cup {0} /\ new \in Slots \cup {0} /\ port \in Slots
  /\ ppc \in {"idle", "assign"}
  /\ last \in [Slots -> Time] /\ power \in {"ON", "OFF"} /\ off_for \in Time
  /\ behind \subseteq Slots
  /\ script \in Urls \cup {Cached, Default, None} /\ running \in Urls \cup {Default, None}
  /\ faults \in 0 .. MaxFaults
  /\ power = "OFF" => dut = <<None, None>>

Init ==
  /\ epc = "init" /\ job = NoJob /\ deployment = Start
  /\ mapping = [u \in Urls |-> None] /\ cache = None /\ boot_config = None
  /\ held = 0 /\ ppc = "idle" /\ new = 0 /\ port = 1
  /\ last = [s \in Slots |-> 0] /\ power \in {"ON", "OFF"} /\ off_for = 0
  /\ behind = {} /\ script = None /\ running = None /\ faults = 0

Fault == faults < MaxFaults /\ faults' = faults + 1
\* An exception, or the end of the job: session_end(), and the next session.
SessionEnd == epc' = "init" /\ job' = NoJob /\ boot_config' = None /\ deployment' = Start

-----------------------------------------------------------------------------
(* PDUPort                                                                  *)

\* The executor is about to call pdu_port.set(), of the port the machine has.
Hold == held = 0 /\ held' = port

Older(t) == IF t = MinOffTime THEN t ELSE t + 1
Tick ==
  /\ last' = [s \in Slots |-> IF s \in {port, new, held} THEN Older(last[s]) ELSE 0]
  /\ off_for' = IF power = "OFF" THEN Older(off_for) ELSE off_for
  /\ UNCHANGED <<executor, held, ports, power, behind, dut, faults>>

\* The PDU cuts the power; the PDUPorts do not know yet.
CutPower ==
  /\ power' = "OFF" /\ off_for' = 0 /\ script' = None /\ running' = None
LeftBehind == Slots \cap {port, new}

\* The port notes when, the others do not.
TurnOff(p) ==
  /\ CutPower
  /\ last' = [last EXCEPT ![p] = 0]
  /\ behind' = LeftBehind \ {p}

\* Mutant: the port the machine has by now is asked.
TurnOnOfMachine(p) ==
  /\ last[port] = MinOffTime
  /\ power' = "ON" /\ off_for' = 0 /\ behind' = {} /\ UNCHANGED <<last, dut>>

\* set() sleeps until its own last_shutdown is min_off_time ago.
TurnOn(p) ==
  /\ last[p] = MinOffTime
  /\ power' = "ON" /\ off_for' = 0 /\ behind' = {} /\ UNCHANGED <<last, dut>>

\* set(): nothing is done if the state is the wanted one already.
Set(state) ==
  /\ held # 0
  /\ IF power = state THEN UNCHANGED <<power, off_for, last, behind, dut>>
     ELSE IF state = "OFF" THEN TurnOff(held) ELSE TurnOn(held)
  /\ held' = 0

-----------------------------------------------------------------------------
(* Machine.update_config()                                                  *)

\* Mutant: a new PDUPort does not know of any shutdown.
CreatePduPortUnknown ==
  /\ ppc = "idle" /\ ppc' = "assign"
  /\ new' = Min(Slots \ {port, held}) /\ port' = port
  /\ last' = [last EXCEPT ![new'] = MinOffTime] /\ behind' = behind \ {new'}
  /\ UNCHANGED <<executor, held, power, off_for, dut, faults>>

\* _create_pdu_port(): a new PDUPort was last shut down as it was made.
CreatePduPort ==
  /\ ppc = "idle" /\ ppc' = "assign"
  /\ new' = Min(Slots \ {port, held}) /\ port' = port
  /\ last' = [last EXCEPT ![new'] = 0] /\ behind' = behind \ {new'}
  /\ UNCHANGED <<executor, held, power, off_for, dut, faults>>

AssignPduPort ==
  /\ ppc = "assign" /\ ppc' = "idle"
  /\ port' = new /\ new' = 0
  /\ last' = [s \in Slots |-> IF s \in {new, held} THEN last[s] ELSE 0]
  /\ behind' = behind \cap {new, held}
  /\ UNCHANGED <<executor, held, power, off_for, dut, faults>>

-----------------------------------------------------------------------------
(* The Executor thread.                                                     *)

\* session_init() and the first steps of execute_job().  A deployment that does
\* not say otherwise continues with the artifacts it started with.
SessionInit ==
  /\ epc = "init" /\ Hold
  /\ \E j \in [{Start, Continue} -> Urls] : job' = j
  /\ epc' = "cache"
  /\ UNCHANGED <<deployment, mapping, cache, boot_config, ports, last, power, off_for, behind,
                 dut, faults>>

\* The power of the machine is cut before the job is set up.
InitialOff ==
  /\ epc = "cache" /\ held # 0
  /\ Set("OFF")
  /\ UNCHANGED <<executor, ports, faults>>

\* _cache_remote_artifact(): of the start deployment, which is also taken for the
\* continue deployment.
CacheRemoteArtifact ==
  LET url == job[Start] IN
  /\ epc = "cache" /\ held = 0
  /\ mapping' = [mapping EXCEPT ![url] = IF url \in Local THEN url ELSE Cached]
  /\ epc' = IF url \in Local THEN "loop" ELSE "save"
  /\ UNCHANGED <<job, deployment, cache, boot_config, held, ports, last, power, off_for, behind,
                 dut, faults>>

\* Mutant: what is stored already is not downloaded again.
SaveBootArtifactOnce ==
  /\ epc = "save" /\ epc' = "loop"
  /\ cache' = IF cache = None THEN job[Start] ELSE cache
  /\ UNCHANGED <<job, deployment, mapping, boot_config, held, ports, last, power, off_for, behind,
                 dut, faults>>

\* save_boot_artifact(): the download, then the upload.
SaveBootArtifact ==
  /\ epc = "save" /\ epc' = "loop"
  /\ cache' = job[Start]
  /\ UNCHANGED <<job, deployment, mapping, boot_config, held, ports, last, power, off_for, behind,
                 dut, faults>>

\* A boot cycle of execute_job(): make sure that the machine is off, ...
Loop ==
  /\ epc = "loop" /\ Hold /\ epc' = "off"
  /\ UNCHANGED <<job, deployment, mapping, cache, boot_config, ports, last, power, off_for, behind,
                 dut, faults>>
Off ==
  /\ epc = "off" /\ Set("OFF") /\ epc' = "config"
  /\ UNCHANGED <<job, deployment, mapping, cache, boot_config, ports, faults>>

\* ... set the boot configuration, and turn it on.
Config ==
  /\ epc = "config" /\ epc' = "on" /\ Hold
  /\ boot_config' = [kernel |-> mapping[job[deployment]], cmdline |-> deployment]
  /\ UNCHANGED <<job, deployment, mapping, cache, ports, last, power, off_for, behind, dut, faults>>
On ==
  /\ epc = "on" /\ Set("ON") /\ epc' = "boot"
  /\ UNCHANGED <<job, deployment, mapping, cache, boot_config, ports, faults>>

\* The boot is over, for whatever reason.
Cut ==
  /\ epc = "boot" /\ Hold /\ epc' = "cut"
  /\ UNCHANGED <<job, deployment, mapping, cache, boot_config, ports, last, power, off_for, behind,
                 dut, faults>>
CutOff ==
  /\ epc = "cut" /\ Set("OFF")
  /\ \/ /\ epc' = "loop" /\ deployment' = Continue /\ UNCHANGED <<job, boot_config>>
     \/ SessionEnd
  /\ UNCHANGED <<mapping, cache, ports, faults>>

\* The PDU or a download fails, and the session ends.  A call to the PDU that raises may
\* have taken effect, and a shutdown is not noted then.
Raises ==
  /\ held # 0 \/ epc = "save"
  /\ Fault /\ SessionEnd /\ held' = 0
  /\ \/ UNCHANGED <<power, off_for, last, behind, dut>>
     \/ /\ held # 0 /\ epc # "on" /\ power = "ON"
        /\ CutPower /\ behind' = LeftBehind /\ last' = last
     \/ epc = "on" /\ power = "OFF" /\ TurnOn(held)
  /\ UNCHANGED <<mapping, cache, ports>>

-----------------------------------------------------------------------------
(* The machine: its firmware asks for the boot script, which the thread of  *)
(* the REST server makes, and loads the kernel that it names.               *)

\* ipxe_boot_script()
IpxeBootScript == IF boot_config = None THEN Default ELSE boot_config.kernel

Query ==
  /\ power = "ON" /\ script = None
  /\ script' = IpxeBootScript
  /\ UNCHANGED <<executor, held, ports, last, power, off_for, behind, running, faults>>

\* A kernel that is named None is not found.
Load ==
  /\ power = "ON" /\ script # None /\ running = None
  /\ running' = IF script = Cached THEN cache ELSE script
  /\ UNCHANGED <<executor, held, ports, last, power, off_for, behind, script, faults>>

-----------------------------------------------------------------------------
UpdateConfig == CreatePduPort \/ AssignPduPort
Run ==
  \/ SessionInit \/ InitialOff \/ CacheRemoteArtifact \/ SaveBootArtifact
  \/ Loop \/ Off \/ Config \/ On \/ Cut \/ CutOff

Next == Tick \/ UpdateConfig \/ Run \/ Raises \/ Query \/ Load

\* Time passes, the threads go on.
Spec == Init /\ [][Next]_vars /\ WF_vars(Tick) /\ WF_vars(Run) /\ WF_vars(UpdateConfig)

-----------------------------------------------------------------------------
(* Properties.                                                              *)

\* The machine is turned on in the end, although every update_config() starts the
\* off time anew (last_shutdown), unless the PDU fails.
PoweredUp == epc = "on" ~> epc # "on"
=============================================================================
