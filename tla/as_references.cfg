SPECIFICATION Spec
CONSTANTS
  None = None
  Index <- MCIndex
  Similarity <- MCSimilarity
  ConfigFiles <- MCConfigFiles
  Deployed <- MCDeployed
  Questions <- MCQuestions
  ClientRequests <- MCClientRequests
  Providers = {"upstage", "openai", "azure"}
  Modes = {"llm", "mock", "off"}
  MaxRequests = 2
  FirstNow = 4
  MaxNow = 5
  TopicCalls <- MCTopicCalls
  Llms = {"upstage", "azure", "other"}
  MockTime = 1
  MaxContents = 1
CHECK_DEADLOCK FALSE
INVARIANTS TypeOK ValidatedConfigServes RepliesHonourRequest SearchFindsWhatWasAsked SummaryIsOfItsNews
PROPERTY CallsEnd
