SPECIFICATION Spec
CONSTANTS
  Machines = {m1, m2}
  Executors = {e1, e2}
  Serials = {s1}
  Nets = {n1}
  None = None
  MaxRelays = 3
  MaxChunks = 1
  MaxInputs = 1
INVARIANTS
  WaitsOnlyForANewcomer
PROPERTIES
  SessionKept
  ServesEveryone
\* The SALAD thread may end, or wait for a client.
CHECK_DEADLOCK FALSE
