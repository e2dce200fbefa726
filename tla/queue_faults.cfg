SPECIFICATION QueueSpec
CONSTANTS
    s1 = s1  w1 = w1  w2 = w2  d1 = d1  c1 = c1
    Schedules = {s1}
    Workers = {w1, w2}
    Dispatchers = {d1}
    Clients = {c1}
    Watchdog = Watchdog
    None = None
    Tries = 2
    Ceiling = 1
    QueueBound = 1
    MaxFaults = 1
    LongLease = TRUE
    Retention = FALSE
    Redelivery = FALSE
    j1 = j1  j2 = j2  m1 = m1  m2 = m2  q1 = q1  q2 = q2  r1 = r1  r2 = r2
    Jobs = {j1, j2}
    Derivatives = {r1}
    Callers = {m1}
    MediaWorkers = {q1, q2}
    JobTries = 2
    MaxQueuedJobs = 2
    MaxDisturbances = 1
    Nothing = Nothing
CHECK_DEADLOCK FALSE
PROPERTIES ClaimsMoveOn ProcessingEnds JobsSettle
