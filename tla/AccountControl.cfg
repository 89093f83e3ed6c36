SPECIFICATION Spec
CONSTANTS
    primary = primary
    a1 = a1
    t1 = t1
    t2 = t2
    Accounts <- TwoAccounts
    Primary = primary
    Bookable <- Second
    Tasks <- TwoTasks
    MaxWorkers = 3
    MaxFaults = 1
    None = None
SYMMETRY TaskSymmetry
INVARIANT DefaultRegistered TokensHaveAccounts ServersOwned
CHECK_DEADLOCK FALSE
