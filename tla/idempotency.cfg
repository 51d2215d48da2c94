CONSTANTS
  Requests <- MCRequests
  Body <- MCBody
  None = None
  FreshReferences = TRUE
  OutlastsTimeout = FALSE
SPECIFICATION Spec
INVARIANTS
  OneHandler
  ReplayIsOriginal
  NotBlocked
  MovesOnce
PROPERTIES
  ResponseKept
CHECK_DEADLOCK FALSE
