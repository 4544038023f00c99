CONSTANTS
    t1 = t1 t2 = t2 t3 = t3 p1 = p1 p2 = p2
    NoTask = NoTask
    Tasks = {t1, t2, t3}
    Pods = {p1}
    PodOf <- OnePod
    Executors = {t1, t2, t3}
    TokenLock = FALSE
    Faults = {"cancel", "crash", "timeout", "expire", "db", "unread"}
    MaxFaults = 2
SPECIFICATION FairSpec
INVARIANT OneLease
PROPERTY StartedEnds
