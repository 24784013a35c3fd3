SPECIFICATION FairSpec
CONSTANTS
  q1 = q1
  q2 = q2
  QA = {q1, q2}
  Partition = {"p1"}
  Script <- RejectedScript
  BatchSize = 2
  WriterBatchSize = 2
  FaultKind = {"crash", "rebalance", "db", "commit", "writeDup"}
  MaxFaults = 2
  MaxVotes = 0
  None = None
INVARIANTS TypeOK CommittedEventsAccounted SkippedOnlyAfterFault
PROPERTIES ColumnsNeverGoBack AnswersEventuallyAccounted
