SPECIFICATION FairSpec
CONSTANTS
    p1 = p1
    p2 = p2
    Procs = {p1, p2}
    Methods = {"encfs", "git-crypt", "none"}
    AutoCommit = TRUE
    Interrupts = TRUE
    ToolFailures = TRUE
    Editor = TRUE
    Outliving = FALSE
INVARIANT OpenIsAccountedFor
PROPERTY OnlyOpenersSeal
PROPERTY ImplementsVault
PROPERTY CommandsEnd
