CONSTANTS
  Messages = {m1}
  CardActions = {c1}
  Undeduped = {c1}
  Split = {m1}
  Sums = {2, 3}
  EmptyParts <- MCEmptyParts
  EventCap = 1
  CardCap = 1
  MaxFaults = 1
  MaxStarts = 2
  None = None
SPECIFICATION FairSpec
INVARIANTS
  TypeOK
  AnsweredIsKept
  DispatchedWhole
  OneMessageAhead
  ActedOnOnce
PROPERTIES
  SourceStops
  EventsHandled
CHECK_DEADLOCK FALSE
