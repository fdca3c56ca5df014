SPECIFICATION Spec
CONSTANTS
    Tasks = {1, 2, 3}
    Attempts = {1, 2}
    Gates = {1}
    Deps <- MCDeps
    Checks = {1}
    SharedWriters = {1, 3}
    MaxConcurrent = 2
    RetryLimit = 1
    MaxHostRetries = 1
    None = None
INVARIANTS
    TypeOK
    BudgetHolds
    ScheduledRetry
    
    BlockedIsExplained
    OneWriter
    DependantsNeverOutrun
    PendingWaits
    StatusKeepsItsWord

    
