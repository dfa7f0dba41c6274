SPECIFICATION Spec
CONSTANTS
    Paths <- MCPaths
    Above <- MCAbove
    Skel <- MCSkel
    Documents <- MCDocuments
    Trees <- MCTrees
    NoPath <- MCNoPath
    MaxRuns = 2
    Kinds = {"absent", "dir", "old"}
    NewKinds = {"null", "null/", "empty/", "text"}
    Dries = {TRUE, FALSE}
    Forces = {TRUE}
INVARIANT ForcedRerunConverges
