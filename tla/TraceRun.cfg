SPECIFICATION Spec
CONSTANTS
  Traces = {1, 2}
  Frames = {f1}
  Processes = {p1, p2}
  Gpus = {g1, g2}
  Limits = {1, 2, 4}
  None = None
  MaxFaults = 1
  MaxTraces = 2
INVARIANTS
  GreenMeansReplayed
  FramesAreUploaded
  
PROPERTY EveryJobEnds
\* Every job ends.
CHECK_DEADLOCK FALSE
