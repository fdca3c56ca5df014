SPECIFICATION Spec
CONSTANTS
    card = card
    other = other
    part = part
    second = second
    l1 = l1
    l2 = l2
    None = None
    Questions = {card}
    Parts = {part}
    Launches = {l1, l2}
    DiskFails = TRUE
    PipeFails = TRUE
    MaxRestarts = 1
SYMMETRY Same
INVARIANTS
    TypeOK
    AtMostOnce
    SavedUnlessOwed
    DeliveredWasHanded
    QueueIsOwned
PROPERTIES
    DoubtIsFinal
    SentWhileOpen
