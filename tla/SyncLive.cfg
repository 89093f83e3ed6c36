SPECIFICATION LiveSpec
CONSTANTS
  d1 = d1
  d2 = d2
  c1 = c1
  c2 = c2
  Devices = {d1}
  Calls = {c1, c2}
  HeartbeatTimeout = 0
  Metered = {d1}
  Expiring = {d1}
  WorkerStates = {"down", "ready"}
  MaxWire = 1
PROPERTY BarredLeaves EntitledReturns
