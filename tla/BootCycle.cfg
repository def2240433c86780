SPECIFICATION FairSpec
CONSTANTS
  Limit <- MCLimit
  Unlimited = {"infra_setup"}
  Retries <- MCRetries
  Lines = {"other", "session_reboot", "session_end"}
  Patterns = {"session_reboot"}
  OffTime = 1
  MaxBoots = 4
INVARIANTS
  TypeOK
  BootsAreAccounted
  BootsAreBounded
  RetriesFitBoots
PROPERTY JobEnds
\* The job ends.
CHECK_DEADLOCK FALSE
