CONSTANTS
    w1 = w1
    w2 = w2
    f1 = f1
    e1 = e1
    e2 = e2
    Worker = {w1}
    Feed = {f1}
    Home = Home
    Entry = {e1, e2}
    NotAnId = NotAnId
    Time = {1, 2}
    Incoming <- SequentialIncoming
    ViaHome = FALSE
    StorageMayFail = FALSE
    MaxCrashes = 1
SPECIFICATION Spec
INVARIANTS DeleteReplacesHeld
PROPERTIES OriginalsImmutable 
