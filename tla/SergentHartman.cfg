SPECIFICATION FairSpec
CONSTANTS
  IsAvailable = TRUE
  BootLoopCounts = 3
  QualifyingRate = 2
  UnreadableJobs = {}
INVARIANTS
  TypeOK
  BootLoopAfterRegistration
  NextTaskFollowedByReport
PROPERTIES
  QualifiedByItsBoots
  TrainingSettles
