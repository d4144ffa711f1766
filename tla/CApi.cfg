CONSTANTS
    h1 = h1
    h2 = h2
    d1 = d1
    Handles <- TwoHandles
    Products <- OneProduct
    LinkArgs <- SomeArgs
    NameLimit = 2
    LinkLengths = {1}
    MaxInits = 2
    Levels = {1, 6}
SPECIFICATION Spec
SYMMETRY Interchangeable
INVARIANTS
    TypeOK
    CopyIsSafe
PROPERTIES
    LostPathBlocksFinalise
    OnlyInitLosesPipelines
