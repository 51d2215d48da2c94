CONSTANTS
  s1 = s1
  s2 = s2
  Nobody = Nobody
  Sessions = {s1, s2}
  Users <- MCUsers
  References <- MCReferences
  LegOf <- MCLegOf
  Operations <- MCOperations
  Riders <- MCRiders
  Requires <- MCRequires
  FollowUps <- MCFollowUps
  InitiallyOpened <- NoneOpened
SPECIFICATION FairSpec
INVARIANTS
  TypeOK
  BalancesMatchLedger
  NoWaitCycle
  LedgerKept
PROPERTIES
  ImplementsLedgerBook
  RidersWithMoney
  CallsEnd
