CONSTANTS
    p1 = p1
    ns1 = ns1
    c1 = c1
    c2 = c2
    NoFile = NoFile
    Procs <- OneProc
    Products <- OneProduct
    Names <- ProductsAndSources
    Namespaces <- OneNamespace
    NamespaceOf <- InOneNamespace
    Contents <- TwoContents
    WriteNames <- AllKeys
    ReadNames <- AllKeys
    UseName <- AliasOfSecond
    Public <- AllPublic
    LiteralName = 1
    Files <- ConfigAndScript
    InStore <- ConfigInside
    ConfigOf <- TheConfig
    ScriptOf <- TheScript
    PathOf <- Paths
    MaxRuns = 1
    MaxWrites = 1
    MaxFaults = 0
    MaxEdits = 0
SPECIFICATION SessionSpec
INVARIANTS
    WritesAreRenamed
