SPECIFICATION Spec
CONSTANTS
    w1 = w1
    w2 = w2
    Workers <- MCWorkers
    Ids = {a, b}
    Torn = Torn
    Nobody = Nobody
    Master = Master
    Wirings <- Deployed
    MaxWrites = 1
    MaxCrashes = 0
CHECK_DEADLOCK FALSE
INVARIANT
    ReloadBringsBoth
