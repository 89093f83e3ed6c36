SPECIFICATION LiveSpec
CONSTANTS
    c1 = c1
    c2 = c2
    Callers <- TwoCallers
    MaxSockets = 3
    MaxStops = 1
    NoSocket = NoSocket
INVARIANT SentInitialized PendingOnOpen
PROPERTY RequestsEnd
CHECK_DEADLOCK FALSE
