SPECIFICATION Spec
CONSTANTS
    w1 = w1
    w2 = w2
    f1 = f1
    f2 = f2
    readFeed1 = readFeed1
    entryIds1 = entryIds1
    readFeed2 = readFeed2
    feedIds = feedIds
    Failed = Failed
    Unanswered = Unanswered
    Empty = Empty
    Null = Null
    Worker = {w1}
    Feed = {f1, f2}
    Key = {readFeed1, entryIds1, readFeed2}
    FileKey = {readFeed1, readFeed2}
    Scope <- MCScope
    Prefixed <- MCPrefixed
    Capacity = 2
    MaxVersion = 3
    Failing = {"read"}
PROPERTIES
    StorageSpec
