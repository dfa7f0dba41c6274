SPECIFICATION FairSpec
CONSTANTS
    system = system
    prod = prod
    prodweb = prodweb
    deep = deep
    main = main
    shared = shared
    NoView = NoView
    Views = {system, prod, prodweb}
    Files = {main, shared}
    FileOf <- MCFileOf
    Above <- MCAbove
    Parent <- NoParent
    Default = system
    Crypts <- MCCrypts
    Commands = {"init", "mkview", "refresh"}
    ToolFailures = TRUE
INVARIANT SuccessMeansWhole
PROPERTY OthersUntouched
PROPERTY CommandsEnd
