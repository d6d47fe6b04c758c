CONSTANTS
    p1 = p1
    p2 = p2
    endpoint = endpoint
    type = type
    v = v
    Blank = Blank
    Unchanged = Unchanged
    Unsaved = Unsaved
    Pages <- MCPages
    Fields <- MCFields
    Values <- MCValues
    Typed <- MCTyped
    EnvSettings <- MCEnvSettings
    EnvSecrets <- MCEnvSecrets
    Defaults <- MCDefaults
    MaxSaves = 2
    MaxRestarts = 1
    MaxDbFaults = 0
SPECIFICATION Spec
SYMMETRY MCSymmetry
CHECK_DEADLOCK FALSE
PROPERTY
    UneditedStays
