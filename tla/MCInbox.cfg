SPECIFICATION Spec
CONSTANTS
    coordinator = coordinator
    worker = worker
    None = None
    Workers = {worker}
    Coordinator = coordinator
    People = {coordinator}
    Posted = {"progress", "report", "instruction"}
    MaxNotices = 2
    MaxAttempts = 1
    MaxTries = 2
    MaxRestarts = 1
    DiskFails = TRUE
    PipeFails = TRUE
CHECK_DEADLOCK FALSE
INVARIANTS
    TypeOK
    SentIsCounted
    
    ReceivedAsSent
PROPERTIES
    
    NothingSentAfterStop
    StatusNeverGoesBack
