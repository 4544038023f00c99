CONSTANTS
    s1 = s1 s2 = s2 p1 = p1
    NoServer = NoServer
    Pods = {p1}
    Servers = {s1, s2}
    Retention = 1
    MaxTasks = 3
    MaxTime = 2
    MaxLost = 1
    SharedLock = TRUE
    MaxRequests = 4
    Scripts <- MCScripts
    MaxChunks = 2
SPECIFICATION FairSpec
CHECK_DEADLOCK FALSE
INVARIANT DedupPerServer
INVARIANT VerdictIsAudited
INVARIANT OrphansExplained
INVARIANT IndexFollowsRunbook
PROPERTY DecidedOnce
PROPERTY StreamShowsReport
PROPERTY RequestsAnswered
PROPERTY ExpiredIsForgotten
