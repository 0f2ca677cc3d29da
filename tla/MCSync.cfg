SPECIFICATION Spec
CONSTANTS
    d1 = d1
    d2 = d2
    h = h
    a = a
    b = b
    Server = {h, a, b}
    Home = h
    Device = {d1, d2}
    MaxTime = 3
    Page = 2
    MaxRequests = 3
    MaxFaults = 2
SYMMETRY Symmetry
INVARIANTS
    TypeOK
    
    ReachesHome
    SyncMakesGood
CHECK_DEADLOCK FALSE
