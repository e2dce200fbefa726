SPECIFICATION AuthSpec
CONSTANTS
    t1 = t1  t2 = t2
    Tabs = {t1, t2}
    MaxTokens = 3
    MaxLoads = 2
    MaxLosses = 0
CHECK_DEADLOCK FALSE
INVARIANT RacersRecover
