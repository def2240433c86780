SPECIFICATION Spec
CONSTANTS
  HeaderLen = 3
  BodyLen = 3
  MaxMessages = 1
  MaxKeys = 2
INVARIANTS
  FramesInOrder
  StatusIsEarned
PROPERTY ClientReturns
\* The client exits.
CHECK_DEADLOCK FALSE
