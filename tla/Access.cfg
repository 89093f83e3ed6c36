SPECIFICATION Spec
CONSTANTS
  a1 = a1
  r1 = r1
  r2 = r2
  Null = Null
  Keep = Keep
  Accounts = {a1}
  Reservations = {r1, r2}
  Readings <- TwoReadings
  Budgets <- BudgetTwo
  WeeklyLimits = {3}
  FullPercent = 3
  ConsumedCap = 3
  ResetSlack = 1
  Expiries = {1, 2}
  MaxDevices = 2
  MaxTime = 1
INVARIANT ExclusiveUnlessRevived BudgetFlagExact SessionLedgerFloor SessionAgrees
PROPERTY LedgerNeverShrinks
SYMMETRY Swap
CHECK_DEADLOCK FALSE
