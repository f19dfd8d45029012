CONSTANTS
  NumRuns = 1
  Reporters = {g1, g2}
  Slots = {w1, w2}
  MaxState = 2
  MaxFaults = 0
  Attempts = 2
  Faults = {}
  None = None
SPECIFICATION Spec
SYMMETRY MCSymmetry
PROPERTY PatchesNeverGoBack
CHECK_DEADLOCK FALSE
