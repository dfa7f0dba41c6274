SPECIFICATION Spec
CONSTANTS
    Paths <- MCPaths
    Above <- MCAbove
    Skel <- MCSkel
    Documents <- MCDocuments
    Trees <- MCTrees
    NoPath <- MCNoPath
    MaxRuns = 1
    Kinds = {"absent", "dir", "link", "dirlink", "old"}
    NewKinds = {"null", "null/", "empty/", "text"}
    Dries = {TRUE, FALSE}
    Forces = {TRUE, FALSE}
INVARIANT PreExistingUntouched
INVARIANT MeansWhatItSays
INVARIANT ReportsAreTrue
PROPERTY KeptUntouched
