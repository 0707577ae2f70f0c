\* One page that loses its connection once.
SPECIFICATION Spec
CONSTANTS
    Pages = {p1, p2}
    Replicas = {r1, r2}
    Messages = {m1}
    Capacity = 1
    Fetches = {1, 2}
    MaxAttempts = 1
    Mixes <- MCReconnect
    p1 = p1
    p2 = p2
    r1 = r1
    r2 = r2
    None = None
INVARIANTS
    CaughtUpOnReconnect
\* Messages and faults end.
CHECK_DEADLOCK FALSE
