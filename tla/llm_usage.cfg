SPECIFICATION Spec
CONSTANTS
    Runs = {r1, r2}
    None = None
    MaxReflectionRounds = 1
    RetryMaxAttempts = 2
    Costs = {1, 2}
    MaxTurns = 2
    MaxAnswers = 2
INVARIANTS
    CountersAddUp
    AllowanceIsOwn
    RowsNotOutdated
