CONSTANTS
    p1 = p1
    p2 = p2
    ns1 = ns1
    c1 = c1
    c2 = c2
    NoFile = NoFile
    Procs <- TwoProcs
    Products <- OneProduct
    Names <- OneProduct
    Namespaces <- OneNamespace
    NamespaceOf <- InOneNamespace
    Contents <- TwoContents
    WriteNames <- WriteAll
    ReadNames <- ReadNothing
    UseName <- NoAlias
    Public <- AllPublic
    LiteralName = 0
    MaxRuns = 2
    MaxWrites = 2
    MaxFaults = 0
SPECIFICATION Spec
INVARIANTS
    OutputsArePublished
