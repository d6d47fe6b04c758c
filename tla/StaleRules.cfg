CONSTANTS
    a1 = a1
    k1 = k1
    r1 = r1
    r2 = r2
    Alerts <- MCAlerts
    Noise = {}
    Baseline = {}
    Keywords <- MCKeywords
    PolledMatch <- MCMatch
    PushedMatch <- MCMatch
    Requests <- MCRequests
    MaxFirings = 1
    MaxSilences = 0
    MaxPollFailures = 0
    MaxPushes = 1
    MaxDbFaults = 0
    MaxRestarts = 0
SPECIFICATION Spec
SYMMETRY MCSymmetry
CHECK_DEADLOCK FALSE
INVARIANT
    AnsweredEditsInForce
