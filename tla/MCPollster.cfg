SPECIFICATION NotifySpec
CONSTANTS
    t1 = t1
    t2 = t2
    t3 = t3
    s1 = s1
    s2 = s2
    Topic = {t1, t2}
    Subscriber = {s1, s2}
    Changes <- SameFeed
    NewAccount = NewAccount
    Limit = 1
    Responses = {"entries", "empty", "error", "feedless"}
    MayUnsubscribe = TRUE
    MaxChanges = 2
INVARIANTS
    TaskInOnePlace
    PendingCoversFlights
    LatestIsShown
    ChangesKept
PROPERTIES
    SubscribedIsPolled
    ChangesArrive
