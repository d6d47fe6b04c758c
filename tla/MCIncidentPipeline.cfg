CONSTANTS
    i1 = i1
    b1 = b1
    b2 = b2
    r1 = r1
    r2 = r2
    None = None
    Incidents <- MCIncidents
    Bundles <- MCBundles
    Requests <- MCRequests
    IncidentOf <- MCIncidentOf
    MaxConcurrent = 1
    NotifierConfigured = TRUE
    MaxRestarts = 1
    MaxDbFaults = 1
SPECIFICATION Spec
SYMMETRY MCSymmetry
CHECK_DEADLOCK FALSE
INVARIANTS
    TypeOK
    NobodyStuck
    JobTracksGoroutine
    RowConsistent
    ReportsTrue
    PendingHasWorker
    OutcomeOnCollectedEvidence
PROPERTIES
    UsesGate
    OnlyAlertsRegress
    AcknowledgedByOperator
