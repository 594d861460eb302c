SPECIFICATION FairSpec
CONSTANTS
  Build = {b1, b2}
  TheAccount = acct
  Account <- MCAccount
  AccountOf <- MCAccountOf
  MaxAttempts = 2
  LeaseTicks = 1
  HandoffTicks = 1
  Reserved = 1
  Served = {b1}
INVARIANTS
  MeterExact
  ReceiptsTellTruth
  LostAfterLaunchIsFinal
PROPERTY LapsedMovesOn
CHECK_DEADLOCK FALSE
