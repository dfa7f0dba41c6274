SPECIFICATION Spec
CONSTANTS
    system = system
    prod = prod
    prodweb = prodweb
    deep = deep
    main = main
    shared = shared
    NoView = NoView
    Views = {system, deep}
    Files = {main, shared}
    FileOf <- MCFileOf
    Above <- MCAbove
    Parent <- NoParent
    Default = system
    Crypts <- NoCrypts
    Commands = {"init", "mkview", "refresh", "enable", "commit"}
    ToolFailures = TRUE
PROPERTY EnableHolds
