CONSTANTS
  NumRuns = 2
  Reporters = {g1}
  Slots = {w1, w2}
  MaxState = 1
  MaxFaults = 0
  Attempts = 1
  Faults = {}
  None = None
SPECIFICATION Spec
SYMMETRY MCSymmetry
INVARIANT LastResultStays
CHECK_DEADLOCK FALSE
