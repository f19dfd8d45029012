CONSTANTS
  NumRuns = 1
  Reporters = {g1, g2}
  Slots = {w1}
  MaxState = 2
  MaxFaults = 2
  Attempts = 1
  Faults = {"transient", "permanent", "close"}
  None = None
SPECIFICATION FairSpec
INVARIANTS
  TypeOK
  DoneMeansShown
PROPERTIES
  ResultStays
  ProgressCatchesUp
  ResultDelivered
CHECK_DEADLOCK FALSE
