SPECIFICATION Spec
CONSTANTS
  Remote = {a, b}
  Local = {l}
  None = None
  MinOffTime = 1
  MaxFaults = 1
INVARIANTS
  BootsItsKernel
PROPERTIES
  OffLongEnough
  PoweredUp
