SPECIFICATION Spec
CONSTANTS
    w1 = w1
    w2 = w2
    f1 = f1
    f2 = f2
    readFeed1 = readFeed1
    entryIds1 = entryIds1
    readFeed2 = readFeed2
    feedIds = feedIds
    Failed = Failed
    Unanswered = Unanswered
    Empty = Empty
    Null = Null
    Worker = {w1, w2}
    Feed = {f1}
    Key = {readFeed1, entryIds1}
    FileKey = {readFeed1}
    Scope <- MCScope
    Prefixed <- MCPrefixed
    Capacity = 2
    MaxVersion = 3
    Failing = {"read", "update"}
SYMMETRY WorkerSymmetry
INVARIANTS
    StaleOnlyByRace
