CONSTANTS
  Users <- MCUsers
  References <- MCReferences
  LegOf <- MCLegOf
  Operations <- MCOperations
  Events <- MCEvents
  MaxAttempts = 2
  Payments <- MCPayments
  Requested <- MCRequested
  Charges <- MCCharges
  PaymentOf <- MCPaymentOf
  DepositOf <- MCDepositOf
  PayerOf <- MCPayerOf
  InitiallyHasWallet <- MayHaveWallet
  Sessions = {s1, s2}
  Nobody = Nobody
  RedeliversEarly = FALSE
  MaxOutages = 2
  MaxRestarts = 1
SPECIFICATION FairSpec
INVARIANTS
  CreditedAsPaid
  OpenPageIsKnown
PROPERTIES
  PaidIsCredited
CHECK_DEADLOCK FALSE
