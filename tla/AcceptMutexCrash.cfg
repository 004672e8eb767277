SPECIFICATION Spec
CONSTANTS
  Workers = {w1, w2}
  Nobody = Nobody
  NListeners = 1
  Slots = 2
  Eighth = 1
  InitConns = 1
  MultiAccept = FALSE
  MaxClients = 1
  MaxCtlErrors = 0
  MaxAcceptErrors = 0
  MaxCrashes = 1
  MaxQuits = 0
INVARIANTS
  ReapedHoldsNothing
