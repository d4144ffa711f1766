CONSTANTS
    p1 = p1
    p2 = p2
    c1 = c1
    c2 = c2
    bad = bad
    commit1 = commit1
    commit2 = commit2
    script = script
    path1 = path1
    path2 = path2
    path3 = path3
    path4 = path4
    repo = repo
    RepoPath = repo
    Clients <- TwoClients
    Tables <- AllTables
    Keys <- TwoKeys
    MaxFaults = 1
    Contents <- AllContents
    Files <- TwoCases
    Valid <- ValidContents
    CommitOf <- Commits
    ConfigPath <- ConfigPaths
    ScriptPath <- ScriptPaths
    ScriptHash <- SameScript
    MaxStarts = 2
    MaxEdits = 1
SPECIFICATION FairSpec
INVARIANTS
    TypeOK
    CodeRunsAreWhole
    RunDescribesItself
    ObjectsNotShared
PROPERTIES
    ImplementsLedger
    WritesAreAuthorised
    ConstructionEnds
    ConstructionSucceeds
CHECK_DEADLOCK FALSE
