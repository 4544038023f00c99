SPECIFICATION Spec
CONSTANTS
    MaxTroubles = 3
    MaxScored = 2
    Changing <- Everything
    FirstGroups <- Beginnings
    Opinions <- SureAndDoubtful
INVARIANTS
    SnapshotAgrees
    FailureIsNamed
    StrongOOMOutranks
PROPERTIES
    ConfirmedStands
    AnalyzerOwnsFault
CHECK_DEADLOCK FALSE
