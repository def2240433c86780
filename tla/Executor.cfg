SPECIFICATION FairSpec
CONSTANTS
  VersionZero = {r2}
  IsAvailable = TRUE
  Requests = {r1, r2}
  Environment = {"unfit", "cancel", "failures", "stall"}
  BootLoopCounts = 2
  QualifyingRate = 1
  UnreadableJobs = {"registration", "bootloop"}
INVARIANTS
  TypeOK
  SessionIsCoherent
  NoOrphanConsole
  PoweredOnlyWhileBooting
PROPERTIES
  DrivesSergentHartman
  MachineFreedAgain
