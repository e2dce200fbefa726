SPECIFICATION AuthSpec
CONSTANTS
    t1 = t1  t2 = t2
    Tabs = {t1, t2}
    MaxTokens = 4
    MaxLoads = 3
    MaxLosses = 1
CHECK_DEADLOCK FALSE
INVARIANT LiveSessionIsKept
