SPECIFICATION FairSpec
CONSTANTS
    coordinator = coordinator
    worker = worker
    None = None
    Workers = {worker}
    Coordinator = coordinator
    People = {}
    Posted = {"status", "disconnected", "decision", "instruction"}
    MaxNotices = 2
    MaxAttempts = 1
    MaxTries = 2
    MaxRestarts = 0
    DiskFails = FALSE
    PipeFails = TRUE
CHECK_DEADLOCK FALSE
PROPERTIES
    PostedSettles
