SPECIFICATION Spec
CONSTANTS
  N = 2
  CanFail = {}
  ClientMayLeave = FALSE
  None = None
CHECK_DEADLOCK FALSE
INVARIANT SourceIsPreserved
