SPECIFICATION PageSpec
CONSTANTS
    a1 = a1
    a2 = a2
    f1 = f1
    e1 = e1
    Home = Home
    Origin = Origin
    Null = Null
    Feed = {a1, a2, f1, Home}
    Account = {a1, a2}
    Permalink = {e1}
    MaxPulls = 2

    
    
PROPERTIES
    EntryComes
