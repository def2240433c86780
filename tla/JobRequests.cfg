SPECIFICATION Spec
CONSTANTS
  Requests = {r1, r2}
  Machines = {m1}
  None = None
  Unknown = Unknown
  MaxFaults = 1
  MaxRetires = 1
INVARIANTS
  JobOwnsItsBucket
  NothingLeaks
PROPERTY RequestsEnd
\* Every request is served once.
CHECK_DEADLOCK FALSE
