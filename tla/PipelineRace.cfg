CONSTANTS
    p1 = p1
    p2 = p2
    ns1 = ns1
    c1 = c1
    c2 = c2
    NoFile = NoFile
    Procs <- TwoProcs
    Products <- OneProduct
    Names <- OneProduct
    Namespaces <- OneNamespace
    NamespaceOf <- InOneNamespace
    Contents <- TwoContents
    WriteNames <- WriteAll
    ReadNames <- ReadAll
    UseName <- NoAlias
    Public <- AllPublic
    LiteralName = 0
    MaxRuns = 3
    MaxWrites = 3
    MaxFaults = 1
SPECIFICATION Spec
INVARIANTS
    TypeOK
    RegisteredFilesStored
    ReferencesResolve
    SuccessIsComplete
    LinkedReadsStayGood
    ListsWhatWasWritten
    RetriesCostOneObject
PROPERTIES
    NoContentLost
    StoreIsWriteOnce
    PublishesWhatWasWritten
    ImplementsCatalogue
SYMMETRY SymContents
