CONSTANTS
    p1 = p1
    p2 = p2
    ns1 = ns1
    c1 = c1
    c2 = c2
    NoFile = NoFile
    Procs <- TwoProcs
    Products <- TwoProducts
    Names <- TwoProducts
    Namespaces <- OneNamespace
    NamespaceOf <- InOneNamespace
    Contents <- TwoContents
    WriteNames <- SecondKeyShared
    ReadNames <- P2ReadsFirst
    UseName <- AliasInP2
    Public <- P1Public
    LiteralName = 1
    MaxRuns = 2
    MaxWrites = 2
    MaxFaults = 1
SPECIFICATION FairSpec
PROPERTIES
    FinaliseEnds
    FinaliseSucceeds
