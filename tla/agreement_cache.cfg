CONSTANTS
  Sessions = {s1, s2}
  None = None
  MaxOutages = 1
  MaxCrashes = 1
SPECIFICATION Spec
SYMMETRY SessionSymmetry
INVARIANTS
  StaleExplained
PROPERTIES
  AnswersWithItsStatus
CHECK_DEADLOCK FALSE
