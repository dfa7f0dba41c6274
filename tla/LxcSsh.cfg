SPECIFICATION FairSpec
CONSTANTS
    Retries = 1
    Becomes = {"none", "prompt", "key"}
    Passwords = {TRUE, FALSE}
INVARIANT NothingLost
INVARIANT ResultIsTrue
PROPERTY NothingMisread
PROPERTY DoneIsNotRepeated
PROPERTY EndsOrRuns
