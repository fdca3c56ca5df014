SPECIFICATION FairSpec
CONSTANTS
    claude = claude
    codex = codex
    Agents = {claude, codex}
    Message = message
    message = message
    Kinds = {"reset"}
    Resets = {1}
    MaxIds = 1
    MaxAsks = 2
    MaxOutages = 0
    MaxRestarts = 0
PROPERTY ResumeIsHandedOver
CHECK_DEADLOCK FALSE
