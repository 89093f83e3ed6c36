SPECIFICATION Spec
CONSTANTS
  r1 = r1
  r2 = r2
  a1 = a1
  t1 = t1
  t2 = t2
  c1 = c1
  c2 = c2
  Null = Null
  Reservations = {r1, r2}
  Accounts = {a1}
  Txs = {t1, t2}
  Calls = {c1, c2}
  SlotTicks = 2
  FullPercent = 3
  DefaultBudget = 2
  Usages = {1}
  Resets = {2, 3}
  MaxTokens = 2
  MaxConsumed = 1
  MaxTime = 2
INVARIANT NoOverlap CommitmentsFit TokenNeedsGrant OneCustomer SessionsCanEnd
PROPERTY LinkedOnce
SYMMETRY BookingSymmetry
CHECK_DEADLOCK FALSE
