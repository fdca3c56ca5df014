SPECIFICATION FairSpec
CONSTANTS
    Tasks = {1, 2}
    Attempts = {1, 2, 3}
    Gates = {}
    Deps <- NoDeps
    Checks = {}
    SharedWriters = {1}
    MaxConcurrent = 1
    RetryLimit = 1
    MaxHostRetries = 1
    None = None

    
PROPERTIES
    
    RecoveryIsMade
