CONSTANTS
  NumCalls = 2
  Reader = Reader
  Responder = Responder
  Closer = Closer
  EventCap = 1
  RequestCap = 1
  PipeSize = 1
  MaxSent = 2
  None = None
SPECIFICATION FairSpec
INVARIANTS
  TypeOK
  OwnAnswer
  NoSendBlocks
  ClosedMeansEmpty
PROPERTIES
  CallsReturn
  CloseReturns
CHECK_DEADLOCK FALSE
