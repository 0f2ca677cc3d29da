SPECIFICATION Spec
CONSTANTS
    a1 = a1
    a2 = a2
    f1 = f1
    Null = Null
    Account = {a1, a2}
    Existing = {a1}
    Feed = {f1}
    MaxRequests = 2
    MaxEntries = 2
INVARIANTS
    PageShowsUser
    FollowsOfUser
PROPERTIES SignInEnds
