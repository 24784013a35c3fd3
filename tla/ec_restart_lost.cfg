SPECIFICATION Spec
CONSTANTS
  q1 = q1
  q2 = q2
  QA = {q1}
  Partition = {"p1"}
  Script <- OneScript
  BatchSize = 3
  WriterBatchSize = 2
  FaultKind = {"crash"}
  MaxFaults = 1
  MaxVotes = 0
  None = None
INVARIANT CommittedEventsRegistered
