SPECIFICATION FairSpec
CONSTANTS
  Chunk <- AnswerChunks
  Capacity = 1
  MaxChunks = 4
  MaxRefused = 1
  None = None
CHECK_DEADLOCK FALSE
INVARIANTS RelayInvariant StoredAsReceived
PROPERTIES RelayExitsUnlessAbandoned DeliversAnswerStream
