CONSTANTS
    i1 = i1
    b1 = b1
    b2 = b2
    r1 = r1
    r2 = r2
    None = None
    Incidents <- MCIncidents
    Bundles <- MCBundles
    Requests <- MCRequests
    IncidentOf <- MCIncidentOf
    MaxConcurrent = 1
    NotifierConfigured = TRUE
    MaxRestarts = 0
    MaxDbFaults = 0
SPECIFICATION Spec
CHECK_DEADLOCK FALSE
INVARIANTS
    SettledOnCollectedEvidence
