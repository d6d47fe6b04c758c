CONSTANTS
    a1 = a1
    k1 = k1
    r1 = r1
    r2 = r2
    Alerts <- MCAlerts
    Noise = {}
    Baseline = {}
    Keywords <- MCKeywords
    PolledMatch <- MCMatch
    PushedMatch <- MCMatch
    Requests = {}
    MaxFirings = 2
    MaxSilences = 0
    MaxPollFailures = 0
    MaxPushes = 0
    MaxDbFaults = 0
    MaxRestarts = 0
SPECIFICATION FairSpec
CHECK_DEADLOCK FALSE
PROPERTY
    FiringsAnalysed
