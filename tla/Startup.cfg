SPECIFICATION Spec
CONSTANTS
  h1 = h1
  h2 = h2
  r1 = r1
  Null = Null
  Hosts = {h1, h2}
  Reservations = {r1}
  Starts <- StartsAt
  Ends <- EndsAt
  RetryAfter = 0
  MaxAttempts = 3
  ClaimLimit = 16
  MaxTime = 3
  MaxCrashes = 1
INVARIANT AtMostOneTurnUnlessOvertaken SentStaysVisible ReportsHold ClaimsBounded
CHECK_DEADLOCK FALSE
