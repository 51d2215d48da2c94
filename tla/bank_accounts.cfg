CONSTANTS
  Sessions = {s1, s2}
  Numbers = {n1, n2}
  MaxAccounts = 3
SPECIFICATION Spec
SYMMETRY Interchangeable
INVARIANTS
  TypeOK
  InUseIsActive
  ChoosingSucceeds
PROPERTIES
  AddingLeavesDefault
CHECK_DEADLOCK FALSE
