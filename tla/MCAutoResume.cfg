SPECIFICATION FairSpec
CONSTANTS
    claude = claude
    codex = codex
    Agents = {claude, codex}
    Message = message
    message = message
    Kinds = {"reset", "switch", "ask"}
    Resets = {1, 2}
    MaxIds = 2
    MaxAsks = 3
    MaxOutages = 1
    MaxRestarts = 1
INVARIANTS
    TypeOK
    SentOnce
    OnlyCancelsAreOwed
PROPERTIES
    ResetIsSettled
    CancelledIsNotSent
    ScheduledIsNotLost
CHECK_DEADLOCK FALSE
