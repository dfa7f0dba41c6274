SPECIFICATION Spec
CONSTANTS
    Paths <- MCPaths
    Above <- MCAbove
    Skel <- MCSkel
    Documents <- MCDocuments
    Trees <- MCTrees
    NoPath <- MCNoPath
    MaxRuns = 1
    Kinds = {"absent", "dir", "link"}
    NewKinds = {"null", "null/", "empty/", "text"}
    Dries = {FALSE}
    Forces = {TRUE}
PROPERTY LinksUntouched
