SPECIFICATION Spec
CONSTANTS
    s1 = s1  s2 = s2  w1 = w1  w2 = w2  d1 = d1  d2 = d2  c1 = c1
    Schedules = {s1}
    Workers = {w1, w2}
    Dispatchers = {d1}
    Clients = {c1}
    Watchdog = Watchdog
    None = None
    Tries = 1
    Ceiling = 1
    QueueBound = 1
    MaxFaults = 1
    LongLease = FALSE
    Retention = FALSE
    Redelivery = TRUE
CHECK_DEADLOCK FALSE
SYMMETRY MCWorkers
INVARIANTS AtMostOneRecord OneFinalizer
PROPERTIES SettledIsFinal ImplementsLifecycle
