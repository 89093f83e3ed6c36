SPECIFICATION LiveSpec
CONSTANTS
  q1 = q1
  q2 = q2
  d1 = d1
  Requests = {q1}
  Devices = {d1}
  DeviceOf <- OneToken
  MaxParts = 2
  MaxLosses = 2
INVARIANT PendingWhileOpen ChargedOnce StaleNeverFetched
PROPERTY RequestsEnd TasksEnd KeepsPromise
