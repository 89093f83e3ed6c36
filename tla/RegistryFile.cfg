SPECIFICATION LiveSpec
CONSTANTS
    c1 = c1
    c2 = c2
    c3 = c3
    host = host
    cli = cli
    Calls = {c1, c2, c3}
    Processes = {host, cli}
    ProcessOf <- TwoAndOne
    NoLock = NoLock
    StaleAfter = 1
    MaxCrashes = 1
INVARIANT OneHolder
PROPERTY CallsEnd KeepsPromise
CHECK_DEADLOCK FALSE
