SPECIFICATION Spec
CONSTANTS
    w1 = w1
    w2 = w2
    a = a
    b = b
    Worker = {w1, w2}
    Slot = {a, b}
    MaxUpdates = 3
    MaxCrashes = 1
INVARIANTS
    TypeOK
    IndexBehindFile
    AcknowledgedIsDurable
    AcknowledgedIsFound
    FoundOnce
SYMMETRY Symmetry
