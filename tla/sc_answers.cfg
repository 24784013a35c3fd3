SPECIFICATION FairSpec
CONSTANTS
  Capacity = 2
  FaultKind = {"choice", "noChoices", "call", "stream", "badLine", "broken", "stop"}
  MaxChunks = 3
CHECK_DEADLOCK FALSE
INVARIANTS TypeOK ReceivedIsAnswer
PROPERTIES RequestIsReleased DeliversAnswerStream
