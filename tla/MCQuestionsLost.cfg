SPECIFICATION FairSpec
CONSTANTS
    card = card
    other = other
    part = part
    second = second
    l1 = l1
    l2 = l2
    None = None
    Questions = {card}
    Parts = {part}
    Launches = {l1}
    DiskFails = FALSE
    PipeFails = FALSE
    MaxRestarts = 1
PROPERTIES
    LostQueueIsReplayed
