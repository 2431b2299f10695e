SPECIFICATION Spec
CONSTANTS
    p1 = p1
    p2 = p2
    Pods = {p1, p2}
    Networks <- MCNetworks
    NegTTL = 1
    SweepAt = 1
INVARIANTS
    ReplacementIsNamed
CHECK_DEADLOCK FALSE
