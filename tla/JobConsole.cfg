SPECIFICATION FairSpec
INVARIANTS
  ConsoleTypeOK
  OverMeansClosed
  MatchedEndIsSeen
PROPERTY EventuallyReleased
\* Both threads end.
CHECK_DEADLOCK FALSE
