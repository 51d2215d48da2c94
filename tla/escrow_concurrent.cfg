CONSTANTS
  s1 = s1
  s2 = s2
  c1 = c1
  c2 = c2
  d1 = d1
  d2 = d2
  Sessions = {s1, s2}
  Requests <- EveryRequest
  Conditions = {c1}
  Disputes = {d1, d2}
  Depositor = 1
  Beneficiary = 2
  Creator = 2
  Admin = 0
  Lock <- MCLock
  Release <- MCRelease
  Refund <- MCRefund
  OtherOperations <- OnlyDeposits
  InitiallyHasWallet <- MayHaveWallet
  Users <- MCUsers
  References <- MCReferences
  LegOf <- MCLegOf
  Operations <- MCOperations
CHECK_DEADLOCK FALSE
SPECIFICATION Spec
SYMMETRY Symmetry
INVARIANTS
  OneLiveDispute
PROPERTIES
  StatusEarned
