SPECIFICATION Spec
CONSTANTS
    q1 = q1
    q2 = q2
    Entry <- Entries
    Verb <- Verbs
    Root <- Roots
    Query = {q1, q2}
    Matches <- Brings
    Held <- SomeMissing
    Own = {4}
    Forced = 2
    FirstCount = 1
    PollCount = 1
    PageCount = 1
    View = 1
    Ahead = 0
    Down = 1
    MayFail = TRUE
    MaxResets = 1
INVARIANTS
    TypeOK
    
    ShownOnce
    KidsPlaced
PROPERTIES
    ColumnSpec
    
