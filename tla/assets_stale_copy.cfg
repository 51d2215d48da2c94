CONSTANTS
  Sessions = {s1}
  Assets = {a1}
  None = None
  MaxOutages = 0
CHECK_DEADLOCK FALSE
SPECIFICATION Spec
INVARIANT AlwaysInvalidated
