SPECIFICATION Spec
CONSTANTS
  None = None
  Text = {"", "new", "s1", "s2", "u1", "u2", "press", "up"}
  Slot = {1, 2}
  Requests <- MCRequests
  InitialTables <- MCInitialTables
  Instants <- MCInstants
  HistoryLimit = 1
  MaxFaults = 1
CHECK_DEADLOCK FALSE
INVARIANTS TablesAreSound PagesAreRegular SuccessMeansDone ReadsAreRegular StatisticsAddUp
PROPERTY RequestsEnd
