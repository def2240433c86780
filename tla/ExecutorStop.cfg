SPECIFICATION FairSpec
CONSTANTS
  VersionZero = {}
  IsAvailable = TRUE
  Requests = {r1}
  Environment = {"edit", "stop", "unsaved", "stall"}
  BootLoopCounts = 1
  QualifyingRate = 1
  UnreadableJobs = {}
PROPERTY StopEndsTheThread
\* The thread may be told to stop.
CHECK_DEADLOCK FALSE
