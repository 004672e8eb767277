SPECIFICATION MCSpec
CONSTANTS
  MaxDepth = 5
  MaxGiven = 3
INVARIANTS
  
  ReloadsWhole
  OpenFilesKept
  ZonesSound
CHECK_DEADLOCK FALSE
