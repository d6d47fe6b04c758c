CONSTANTS
    i1 = i1
    i2 = i2
    b1 = b1
    b2 = b2
    r1 = r1
    None = None
    Incidents <- MCIncidents
    Bundles <- MCBundles
    Requests <- MCRequests
    IncidentOf <- MCIncidentOf
    MaxConcurrent = 0
    NotifierConfigured = FALSE
    MaxRestarts = 1
    MaxDbFaults = 1
SPECIFICATION FairSpec
CHECK_DEADLOCK FALSE
PROPERTIES
    EveryGoroutineEnds
    PendingEndsWithoutFaults
    ServesPages
