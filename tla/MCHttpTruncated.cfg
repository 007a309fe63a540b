SPECIFICATION Spec
CONSTANTS
  Bodies <- TwoRequests
  Input <- AllRequests
  Start <- TwoStarts
  ReadChunk = 2
  ResponseLen = 3
  SendBuffer = 2
  Clients <- OnlyWaiting
  Loops <- OnlyInline
  MayReset = FALSE
INVARIANTS SentBeforeRead
