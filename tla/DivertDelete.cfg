SPECIFICATION Spec
CONSTANTS
  Tree <- MCTree
  AttributeTasks <- MCAttributeTasks
  Text <- MCText
  Elements <- MCElements
  HasIn <- MCHasIn
  MaxRead = 3
  Worlds <- MCWorlds
  TermLists <- MCTermLists
INVARIANT DeletedMeansRemoved
CHECK_DEADLOCK FALSE
