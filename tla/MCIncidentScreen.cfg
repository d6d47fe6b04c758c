CONSTANTS
    i1 = i1
    i2 = i2
    None = None
    Incidents <- MCIncidents
    Found <- MCFound
    MaxCalls = 2
    MaxDisturbances = 1
SPECIFICATION ScreenFairSpec
INVARIANTS
    ScreenTypeOK
    LostMeansRestart
PROPERTIES
    ResultShown
    SpinnerResolved
