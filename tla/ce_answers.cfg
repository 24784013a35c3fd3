SPECIFICATION FairSpec
CONSTANTS
  ModelLists <- Lists
  AzureKeys = 1
  Capacity = 1
  FaultKind = {"create", "rateLimit", "badLine", "broken", "empty"}
  MaxChunks = 2
CHECK_DEADLOCK FALSE
INVARIANTS TypeOK TriesFollowTheList NoSendAfterClose SearchAnswerIsWhole
PROPERTY AnswersUnlessBroken DeliversAnswerStream
