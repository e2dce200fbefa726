SPECIFICATION Spec
CONSTANTS
    s1 = s1  s2 = s2  w1 = w1  w2 = w2  d1 = d1  d2 = d2  c1 = c1
    Schedules = {s1}
    Workers = {w1}
    Dispatchers = {d1}
    Clients = {}
    Watchdog = Watchdog
    None = None
    Tries = 2
    Ceiling = 1
    QueueBound = 1
    MaxFaults = 1
    LongLease = TRUE
    Retention = FALSE
    Redelivery = FALSE
CHECK_DEADLOCK FALSE
INVARIANT MissingMeansLost
