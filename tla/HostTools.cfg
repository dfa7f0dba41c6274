SPECIFICATION Spec
CONSTANTS
  Tree <- MCTree
  AttributeTasks <- MCAttributeTasks
  Text <- MCText
  Elements <- MCElements
  HasIn <- MCHasIn
  MaxRead = 3
  Worlds <- MCWorlds
  TermLists <- MCTermLists
INVARIANT FailureIsHarmless
INVARIANT SuccessIsDone
INVARIANT HostPromises
INVARIANT MailArrives
INVARIANT OverridesFound
CHECK_DEADLOCK FALSE
