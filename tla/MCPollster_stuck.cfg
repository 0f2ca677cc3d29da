SPECIFICATION NotifySpec
CONSTANTS
    t1 = t1
    t2 = t2
    t3 = t3
    s1 = s1
    s2 = s2
    Topic = {t1, t2, t3}
    Subscriber = {s1}
    Changes <- SameFeed
    NewAccount = NewAccount
    Limit = 2
    Responses = {"entries", "feedless"}
    MayUnsubscribe = FALSE
    MaxChanges = 0
INVARIANTS
    NeverStuck
CHECK_DEADLOCK FALSE
