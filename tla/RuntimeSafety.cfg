SPECIFICATION Spec
CONSTANTS
    main = main
    Main = Main
    readme = readme
    other = other
    old = old
    new = new
    huge = huge
    Missing = Missing
    Paths <- MCPaths
    Files <- MCFiles
    Fold <- MCFold
    Contents <- MCContents
    Size <- MCSize
    MaxFile = 2
    MaxBundle = 3
    MaxItems = 2
    HasErrors <- MCHasErrors
    HasUnsupported <- MCHasUnsupported
    RepairAttempts = 2
INVARIANTS
    TypeOK
    PassIsOfTheSnapshot
CHECK_DEADLOCK FALSE
