SPECIFICATION Spec
CONSTANTS
    Radix = 4
    Data <- MCData
    Depth <- MCDepth
    Values <- MCValues
    Probes <- MCProbes
    MaxSent = 2
INVARIANTS
    TypeOK
    TakesItsBytes
    ValuesSurvive
    MapsRead
    ListsRead
CHECK_DEADLOCK FALSE
