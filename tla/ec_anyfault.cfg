SPECIFICATION Spec
CONSTANTS
  q1 = q1
  q2 = q2
  QA = {q1, q2}
  Partition = {"p1", "p2"}
  Script <- PairScript
  BatchSize = 2
  WriterBatchSize = 2
  FaultKind = {"crash", "rebalance", "fetch", "db", "commit", "writeLost", "writeDup"}
  MaxFaults = 2
  MaxVotes = 1
  None = None
INVARIANT RowsComeFromTheirEvents
PROPERTY VotesSurviveEvents
