SPECIFICATION FairSpec
CONSTANTS
  Bodies <- ThreeRequests
  Input <- AllRequests
  Start <- ThreeStarts
  ReadChunk = 2
  ResponseLen = 2
  SendBuffer = 6
  Clients <- BothKinds
  Loops <- BothKinds
  MayReset = TRUE
INVARIANTS TypeOK NoResponseForgotten FramingExact ResponsesInOrder
PROPERTIES EveryRequestAnswered BrokenIsClosed
