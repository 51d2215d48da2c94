CONSTANTS
  Requests <- MCRequests
  Body <- MCBody
  None = None
  FreshReferences = TRUE
  OutlastsTimeout = FALSE
SPECIFICATION Spec
INVARIANT NeverSpentTwice
CHECK_DEADLOCK FALSE
