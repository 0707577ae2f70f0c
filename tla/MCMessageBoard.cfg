\* Two pages, two replicas, three mixes.
SPECIFICATION Spec
CONSTANTS
    Pages = {p1, p2}
    Replicas = {r1, r2}
    Messages = {m1}
    Capacity = 1
    Fetches = {1, 2}
    MaxAttempts = 1
    Mixes <- MCMixes
    p1 = p1
    p2 = p2
    r1 = r1
    r2 = r2
    None = None
INVARIANTS
    CaughtUp
    NoSocketCut
PROPERTIES
    AccessEnds
CHECK_DEADLOCK FALSE
