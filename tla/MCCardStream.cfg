CONSTANTS
  Streams = {s1, s2}
  MaxSequence = 7
  BlockSize = 2
  Clock = {1}
  NumRuns = 2
  MaxVersion = 2
  Structural = {1}
  MaxFaults = 1
  Faults = {"transient", "permanent", "crash"}
  None = None
SPECIFICATION Spec
SYMMETRY MCSymmetry
VIEW MCView
INVARIANTS
  TypeOK
  NumbersFresh
  AckedIsShown
PROPERTIES
  ActivationsValid
CHECK_DEADLOCK FALSE
