SPECIFICATION FairSpec
CONSTANTS
  N = 3
  CanFail = {2}
  ClientMayLeave = TRUE
  None = None
CHECK_DEADLOCK FALSE
INVARIANTS TypeOK AnswerIsWhole CancellationHasCause
PROPERTY AnswersUnlessTwoFail GathersEveryList
