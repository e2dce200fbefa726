SPECIFICATION WebSpec
CONSTANTS
    t1 = t1  t2 = t2  k1 = k1  k2 = k2  e1 = e1  e2 = e2  v1 = v1  v2 = v2  x1 = x1  q1 = q1  q2 = q2  none = none
    Endpoints = {e1, e2}
    MaxMutations = 3
    MaxReloads = 3
    Tracks = {v1, v2}
    FirstTrack = v1
    Sources = {x1}
    Duration <- MCDuration
    MaxClips = 3
    MaxFrame = 5
    Editors = {t1, t2}
    HistoryLimit = 1
    MaxEdits = 2
    MaxRevisions = 2
    MaxOpens = 3
    Tabs = {t1, t2}
    MaxTokens = 4
    MaxLoads = 3
    MaxLosses = 1
    Admins = {t1, t2}
    Capabilities = {k1, k2}
    MaxWrites = 2
    MaxFetches = 3
    Zones <- MCZones
    MaxTime = 8
    UploadTabs = {t1, t2}
    Files <- MCFiles
    ChunkCount = 2
    MaxSessions = 2
    MaxBegins = 2
    MaxFailures = 2
    Queries = {q1, q2}
    NoQuery = none
    MaxSearches = 4
    MaxPage = 2
SYMMETRY MCSymmetry
CHECK_DEADLOCK FALSE
INVARIANTS WebTypeOK
INVARIANTS NothingLostInSilence AcceptedIsGone
INVARIANTS ClipsAreValid
INVARIANTS HistoryIsALine OthersWorkIsKept
INVARIANTS ScreenFollowsSearch
INVARIANTS CookieStaysAlive
INVARIANTS OverwritesTheKnown
INVARIANTS VerdictIsRight
INVARIANTS MadeOfOneFile NothingIsLeftOut InterruptedIsResumed
PROPERTIES SplitKeepsProgramme AddCoversNothing
