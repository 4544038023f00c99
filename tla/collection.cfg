SPECIFICATION Spec
CONSTANTS
    Containers <- Pair
    Runs <- SomeRuns
    Configured = {"loki", "prometheus"}
    Samples <- Answers
    MaxAttempts = 2
    MaxMoments = 3
    MaxErrors = 2
    MaxHangs = 1
INVARIANTS
    CollectionTypeOK
    LogsShowFault
    RetriesAbsorb
PROPERTIES
    EvidenceKept
    GroupEnds
CHECK_DEADLOCK FALSE
