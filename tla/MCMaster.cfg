SPECIFICATION FairSpec
CONSTANTS
  Scenarios <- AllScenarios
  MaxKids = 12
INVARIANTS
  ChildrenKept
  WorkersKept
  TablesFollow
PROPERTIES
  ShutdownEnds
CHECK_DEADLOCK FALSE
