SPECIFICATION FairSpec
CONSTANTS
    Tasks = {1, 2}
    Attempts = {1, 2}
    Gates = {1}
    Deps <- NoDeps
    Checks = {1}
    SharedWriters = {1}
    MaxConcurrent = 1
    RetryLimit = 1
    MaxHostRetries = 1
    None = None
PROPERTIES
    ReadyIsStarted
