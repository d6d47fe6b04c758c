CONSTANTS
    c1 = c1
    c2 = c2
    c3 = c3
    c4 = c4
    c5 = c5
    Clients <- MCClients
    MaxConcurrent = 2
SPECIFICATION FairGateSpec
INVARIANTS
    PlacesAccounted
PROPERTIES
    NoOvertaking
    Served
