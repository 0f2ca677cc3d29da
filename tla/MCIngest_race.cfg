CONSTANTS
    w1 = w1
    w2 = w2
    f1 = f1
    e1 = e1
    e2 = e2
    Worker = {w1, w2}
    Feed = {f1}
    Home = Home
    Entry = {e1, e2}
    NotAnId = NotAnId
    Time = {1, 2}
    Incoming <- ConcurrentIncoming
    ViaHome = FALSE
    StorageMayFail = TRUE
    MaxCrashes = 0
SPECIFICATION Spec
INVARIANTS StoredIsVerified  InvalidLeavesNothing
SYMMETRY WorkerSymmetry
PROPERTIES OverwrittenOnlyByRace
