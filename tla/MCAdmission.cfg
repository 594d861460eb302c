SPECIFICATION Spec
CONSTANTS
  TheAccount = acct
  Account <- OneAccount
  Project = {p1, p2}
  AccountOf <- AllOfOne
  EntitlementRow <- Slots
  PoolLimits <- TightPools
  BuildAttempt = {1}
  Explored = {p1}
  MaxConfigs = 2
  MaxDeployments = 2
  MaxProofs = 1
  MaxHolds = 2
INVARIANTS
  LimitsHeld
  HoldsAccounted
  ReservedIsShown
CHECK_DEADLOCK FALSE
