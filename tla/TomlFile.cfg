CONSTANTS
    p1 = p1
    p2 = p2
    c1 = c1
    c2 = c2
    v1 = v1
    v2 = v2
    Procs <- TwoProcs
    Components <- TwoComponents
    Values <- TwoValues
    Own <- OneEach
    MaxCalls = 4
    MaxFaults = 1
SPECIFICATION Spec
INVARIANTS
    TypeOK
    FileParses
    ReadsAreTrue
    EmptyOnlyByFault
    MissesAreRaces
PROPERTIES
    NothingOverwritten
CHECK_DEADLOCK FALSE
