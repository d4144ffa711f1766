CONSTANTS
    p1 = p1
    ns1 = ns1
    c1 = c1
    c2 = c2
    NoFile = NoFile
    Procs <- OneProc
    Products <- TwoProducts
    Names <- ProductsAndSources
    Namespaces <- OneNamespace
    NamespaceOf <- InOneNamespace
    Contents <- TwoContents
    WriteNames <- AllKeys
    ReadNames <- AllKeys
    UseName <- AliasOfSecond
    Public <- AllPublic
    LiteralName = 1
    Files <- ConfigAndScript
    InStore <- ConfigInside
    ConfigOf <- TheConfig
    ScriptOf <- TheScript
    PathOf <- Paths
    MaxRuns = 2
    MaxWrites = 3
    MaxFaults = 1
    MaxEdits = 1
SPECIFICATION SessionSpec
INVARIANTS
    SuccessIsComplete
    InPlaceUntilEdited
PROPERTIES
    LostOnlyToSources
SYMMETRY SymContents
