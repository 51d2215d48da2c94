CONSTANTS
  s1 = s1
  s2 = s2
  Nobody = Nobody
  Sessions = {s1, s2}
  Workers <- MCWorkers
  Worker <- EachItsOwn
  Debit <- MCDebit
  Reversal <- MCReversal
  OtherOperations <- MCOther
  BrokenAfter <- Anything
  InitiallyHasWallet <- MayHaveWallet
  RedeliversEarly = FALSE
  MaxAttempts = 2
  MaxOutages = 2
  MaxRestarts = 1
  Events <- MCEvents
  Users <- MCUsers
  References <- MCReferences
  LegOf <- MCLegOf
  Operations <- MCOperations
CHECK_DEADLOCK FALSE
SPECIFICATION FairSpec
INVARIANTS
  ReturnedOnlyIfUnpaid
  DebitedFirst
  FailedMeansReturned
PROPERTIES
  SuccessKept
  OutcomeArrives
