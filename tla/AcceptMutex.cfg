SPECIFICATION FairSpec
CONSTANTS
  Workers = {w1, w2}
  Nobody = Nobody
  NListeners = 2
  Slots = 2
  Eighth = 1
  InitConns = 1
  MultiAccept = TRUE
  MaxClients = 2
  MaxCtlErrors = 1
  MaxAcceptErrors = 1
  MaxCrashes = 1
  MaxQuits = 1
INVARIANTS
  AcceptSerialized
PROPERTIES
  FirstStrayIsDisabled
  BacklogServed
