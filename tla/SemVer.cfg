CONSTANTS
    build7 = build7
    noMeta = noMeta
    Limit = 32
    NoTagV = 9
    Radix = 2
    Metas <- TwoMetas
    NoMeta = noMeta
    Starts <- SomeVersions
    MaxCalls = 3
SPECIFICATION Spec
INVARIANTS
    TypeOK
    OrderIsByRank
    UntaggedReadsBack
    DocumentedReadsBack
    ReadBackIsNotNewer
PROPERTIES
    TagsGoUp
CHECK_DEADLOCK FALSE
