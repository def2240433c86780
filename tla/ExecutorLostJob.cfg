SPECIFICATION Spec
CONSTANTS
  VersionZero = {}
  IsAvailable = TRUE
  Requests = {r1}
  Environment = {}
  BootLoopCounts = 1
  QualifyingRate = 1
  UnreadableJobs = {}
INVARIANT AcceptedJobKept

