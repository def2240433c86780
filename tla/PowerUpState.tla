----------------------------- MODULE PowerUpState -----------------------------
(***************************************************************************)
(* The state of a test machine that comes up (executor.py, minioclient.py, *)
(* pdu/__init__.py, boots.py, mars.py): the Executor thread and its job,   *)
(* the artifact cache, the PDUPort objects and the machine itself; and     *)
(* what is never wrong about them.  What happens to them is in PowerUp.    *)
(***************************************************************************)
EXTENDS Naturals

CONSTANTS
  Remote, Local,   \* URLs of kernels, elsewhere and in the farm's MinIO
  None,
  MinOffTime,      \* pdu_off_delay
  MaxFaults        \* bound: calls to the PDU and downloads that fail

ASSUME UrlsAssumption == Remote \cap Local = {} /\ None \notin Remote \cup Local
ASSUME TimeAssumption == MinOffTime \in Nat

VARIABLES
  epc,       \* the Executor thread
  job,       \* its job: the URLs of the two deployments
  deployment,\* the one it uses
  mapping,   \* remote_url_to_local_cache_mapping
  cache,     \* MinIO: what is stored as the machine's "-start" artifact
  boot_config,
  held,      \* the PDUPort whose set() the executor is in, 0 for none
  ppc,       \* the thread in update_config()
  new,       \* the PDUPort it made, 0 for none
  port,      \* Machine.pdu_port
  last,      \* PDUPort |-> ticks since its last_shutdown
  power,     \* of the machine
  off_for,   \* ticks since the power was cut, 0 while it is on
  behind,    \* history: PDUPorts that do not know of the last shutdown, while it is off
  script,    \* the boot script the machine got, None if it has none
  running,   \* the kernel it loaded, None if it has none
  faults

Urls == Remote \cup Local
Start == "start"
Continue == "continue"
Default == "default"              \* BOOTS_DEFAULT_KERNEL
Cached == "cached"                \* the URL of the "-start" artifact
\* Neither is the URL of a kernel that a job asks for.
ASSUME NamesAssumption == {Cached, Default} \cap (Urls \cup {None}) = {} /\ Cached # Default
BootConfigs == [kernel : Urls \cup {Cached, None}, cmdline : {Start, Continue}]
ASSUME ConfigAssumption == None \notin BootConfigs
Slots == 1 .. 3
Time == 0 .. MinOffTime
NoJob == [d \in {Start, Continue} |-> None]

-----------------------------------------------------------------------------
\* The machine is off for MinOffTime before it is turned on again, although its
\* PDUPort is replaced at any time and a call to the PDU may raise before or after it
\* took effect (PDUPort.set()).  The exceptions are the PDUPorts that do not know of the
\* shutdown: those that were there, or being made, while the power was cut through
\* another one, or by a call that raised.
OffLongEnough ==
  [][power = "OFF" /\ power' = "ON" => off_for = MinOffTime \/ held \in behind]_power

\* What the machine loads in a boot of a job is the kernel that the job asks for
\* as it starts, whatever earlier jobs left in the cache and in the mapping, and
\* however its boot script was delayed; and in the following boots too, if the
\* continue deployment has the same.
BootsItsKernel ==
  epc = "boot" /\ running # None /\ job[deployment] = job[Start] => running = job[Start]
=============================================================================
