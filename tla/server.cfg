SPECIFICATION ServerSpec
CONSTANTS
    r1 = r1  r2 = r2  k1 = k1  k2 = k2
    Requests = {r1, r2}
    Keys = {k1, k2}
    N = 2
    MaxFaults = 1
    a1 = a1  a2 = a2  a3 = a3
    Actors = {a1, a2, a3}
    Status <- MCStatus
    LEGAL <- MCLegal
    First = "scheduled"
    MaxVersion = 6
    p0 = p0  p1 = p1  p2 = p2  p3 = p3  c1 = c1  c2 = c2  c3 = c3
    People = {p0, p1, p2, p3}
    Requester = p0
    RequiredApprovals = 2
    Calls = {c1, c2, c3}
    MaxMacroEdits = 2
    j1 = j1  j2 = j2  d1 = d1  d2 = d2  m1 = m1  m2 = m2  w1 = w1  w2 = w2
    Jobs = {j1, j2}
    Derivatives = {d1, d2}
    Callers = {m1, m2}
    MediaWorkers = {w1, w2}
    JobTries = 2
    MaxQueuedJobs = 2
    MaxDisturbances = 1
    Nothing = Nothing
SYMMETRY MCSymmetry
CHECK_DEADLOCK FALSE
INVARIANTS AckedKept OneStaging ScheduleIsWhole RecordIsWhole ResumeIsSound 
INVARIANTS ApprovedByOthers NoDecisionIsMissed InHands
PROPERTY ImplementsSnapshots
