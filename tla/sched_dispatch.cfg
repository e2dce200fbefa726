SPECIFICATION FairSpec
CONSTANTS
    s1 = s1  s2 = s2  w1 = w1  w2 = w2  d1 = d1  d2 = d2  c1 = c1
    Schedules = {s1, s2}
    Workers = {w1, w2}
    Dispatchers = {d1, d2}
    Clients = {c1}
    Watchdog = Watchdog
    None = None
    Tries = 1
    Ceiling = 2
    QueueBound = 2
    MaxFaults = 0
    LongLease = TRUE
    Retention = TRUE
    Redelivery = FALSE
CHECK_DEADLOCK FALSE
INVARIANTS OneDelivery CompletedHasFile
PROPERTY DueIsSettled
