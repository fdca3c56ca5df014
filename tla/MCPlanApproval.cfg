SPECIFICATION Spec
CONSTANTS
    t1 = t1
    t2 = t2
    o1 = o1
    o2 = o2
    k1 = k1
    k2 = k2
    p1 = p1
    p2 = p2
    v1 = v1
    v2 = v2
    s1 = s1
    s2 = s2
    Tasks = {t1, t2}
    Owners = {o1, o2}
    Workers = {k1, k2}
    Routes <- MCRoutes
    Policies = {p1, p2}
    Words = {v1}
    Sizes = {s1, s2}
    Proposals <- OneProposal
    MaxEdits = 3
    MaxStarts = 2
    MaxTime = 2
    None = None
SYMMETRY Same
INVARIANTS
    TypeOK
    NothingSlipsBy
PROPERTIES
    
    ApprovedWasSeen
    RejectKeepsApproved
CHECK_DEADLOCK FALSE
