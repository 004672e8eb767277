SPECIFICATION Spec
CONSTANTS
  Events = {e1, e2, e3}
  Half = 8
  LazyDelay = 2
  Delays = {0, 2, 3}
  MaxStep = 2
  Starts = {5, 12}
  Span = 7
SYMMETRY Symmetry
INVARIANTS
  TimersOnTime
PROPERTIES
  NoneOverdue
