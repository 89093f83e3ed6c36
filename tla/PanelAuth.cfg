SPECIFICATION Spec
CONSTANTS
    t1 = t1
    t2 = t2
    t3 = t3
    Tabs <- AllTabs
    MaxSessions = 3
    NoSession = NoSession
SYMMETRY TabSymmetry
INVARIANT OneOfALine SignOutEnds StoredIsNewest
