CONSTANTS
    Clients = {c1, c2, c3}
    Pods = {p1, p2}
    None = None
    TTL = 3
    MaxHold = 5
SPECIFICATION Spec
INVARIANT OneValidLease
INVARIANT ExclusiveWithinTTL
