SPECIFICATION CapabilitySpec
CONSTANTS
    a1 = a1  a2 = a2  k1 = k1
    Admins = {a1, a2}
    Capabilities = {k1}
    MaxWrites = 2
    MaxFetches = 2
CHECK_DEADLOCK FALSE
INVARIANT CacheIsConfirmed
