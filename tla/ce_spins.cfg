SPECIFICATION FairSpec
CONSTANTS
  ModelLists <- OpenAI
  AzureKeys = 1
  Capacity = 1
  FaultKind = {"broken"}
  MaxChunks = 1
CHECK_DEADLOCK FALSE
PROPERTY BrokenStreamFallsBack
