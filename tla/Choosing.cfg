SPECIFICATION Spec
CONSTANTS
    s1 = s1
    s2 = s2
    Seats = {s1, s2}
    MaxTime = 2
    RetryAfter = 1
    MaxCalls = 2
SYMMETRY Symmetric
INVARIANTS
    SelectedAreFree
    OneHoldAtATime
    WaitIsHonoured
    HoldButtonRecovers
PROPERTY HoldIsUndisturbed
CHECK_DEADLOCK FALSE
