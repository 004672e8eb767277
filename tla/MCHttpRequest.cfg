CONSTANTS
  Confs <- MCConfs
  UriLimit = 1
  UriMod = 4
SPECIFICATION Spec
INVARIANTS ReferencesCounted OutputWhole Attended
CHECK_DEADLOCK FALSE
