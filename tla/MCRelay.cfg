SPECIFICATION Spec
CONSTANTS
    s1 = s1
    s2 = s2
    s3 = s3
    c1 = c1
    c2 = c2
    Nobody = Nobody
    Server = {s1, s2, s3}
    Client = {c1, c2}
    Sync = {c2}
    HomeOf <- MCHomeOf
    Origin = s1
    Relays <- MCRelays
    Covers <- MCCovers
    Limit = 1
    Failing = {s3}
    MaxVersion = 2
    MaxFaults = 1
INVARIANTS
    TypeOK
    ForwardsOnce
PROPERTIES
    
    CatchesUp
