SPECIFICATION Spec
CONSTANTS
    r1 = r1  r2 = r2
    k1 = k1
    Requests = {r1, r2}
    Keys = {k1}
    N = 1
    MaxFaults = 0
CHECK_DEADLOCK FALSE
INVARIANT OneOutcome
