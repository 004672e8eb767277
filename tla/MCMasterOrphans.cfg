SPECIFICATION Spec
CONSTANTS
  Scenarios <- UpgradeScenarios
  MaxKids = 8
INVARIANTS
  NobodyLeftBehind
CHECK_DEADLOCK FALSE
