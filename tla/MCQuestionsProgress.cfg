SPECIFICATION FairSpec
CONSTANTS
    card = card
    other = other
    part = part
    second = second
    l1 = l1
    l2 = l2
    None = None
    Questions = {card}
    Parts = {part, second}
    Launches = {l1}
    DiskFails = FALSE
    PipeFails = TRUE
    MaxRestarts = 1
PROPERTIES
    ReadyMovesOn
