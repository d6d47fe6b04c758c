CONSTANTS
    a1 = a1
    k1 = k1
    r1 = r1
    r2 = r2
    Alerts <- MCAlerts
    Noise = {}
    Baseline = {}
    Keywords <- MCKeywords
    PolledMatch <- MCMatch
    PushedMatch <- MCMatch
    Requests <- MCRequests
    MaxFirings = 2
    MaxSilences = 1
    MaxPollFailures = 1
    MaxPushes = 1
    MaxDbFaults = 1
    MaxRestarts = 1
SPECIFICATION Spec
SYMMETRY MCSymmetry
CHECK_DEADLOCK FALSE
INVARIANTS
    TypeOK
    SeenMeansStarted
    SettledCacheIsTable
PROPERTIES
    OneStartPerPresence
    IgnoredNotStarted
