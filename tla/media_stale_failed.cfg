SPECIFICATION MediaSpec
CONSTANTS
    j1 = j1  d1 = d1  m1 = m1  w1 = w1  w2 = w2
    Jobs = {j1}
    Derivatives = {d1}
    Callers = {m1}
    MediaWorkers = {w1, w2}
    JobTries = 2
    MaxQueuedJobs = 1
    MaxDisturbances = 1
    Nothing = Nothing
SYMMETRY MCSymmetry
CHECK_DEADLOCK FALSE
PROPERTY FailedIsOver
