CONSTANTS
    t1 = t1 t2 = t2 t3 = t3 p1 = p1 p2 = p2 x1 = x1 x2 = x2
    NoTask = NoTask
    Tasks = {t1, t2}
    Pods = {p1}
    PodOf <- OnePod
    Executors = {x1, x2}
    TokenLock = TRUE
    Faults = {}
    MaxFaults = 0
    MaxRetry = 1
    MessageIds = {1, 2, 3, 4, 5}
SPECIFICATION FairSpec
PROPERTY ImplementsLifecycle
