SPECIFICATION Spec
CONSTANTS
    p1 = p1
    p2 = p2
    Procs = {p1}
    Methods = {"git-crypt"}
    AutoCommit = TRUE
    Interrupts = TRUE
    ToolFailures = TRUE
    Editor = FALSE
    Outliving = TRUE
INVARIANT CommandSeesSecrets
INVARIANT OnlyStraysSpoilTheLock
