SPECIFICATION Spec
CONSTANTS
    p1 = p1
    p2 = p2
    a = a
    b = b
    c = c
    None = None
    Procs = {p1, p2}
    Keys = {a, b, c}
    Rate = 1
    Cost = 2
    Burst = 3
    Second = 2
    MinSweepAt = 1
    MaxTime = 4
SYMMETRY Symmetric
INVARIANTS
    WithinBudget
    MapIsBounded
    RetryIsHonest
