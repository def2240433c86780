SPECIFICATION Spec
CONSTANTS
  Absent = Absent
  Corrupt = Corrupt
  Duts = {d1, d2}
  Threads = {t1}
  MaxEvents = 2
  MaxTokens = 2
INVARIANTS
  NoStaleMachine
PROPERTIES
  EventuallyInSync
  RetiredIsUnregistered
