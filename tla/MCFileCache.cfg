CONSTANTS
  k1 = k1
  k2 = k2
  k3 = k3
  Keys = {k1, k2, k3}
  Requests = {r1, r2}
  Nodes = {n1, n2}
  NoNode = NoNode
  Confs <- MCConfs
  UsesMod = 3
  Tries = 2
  MaxRaces = 1
SYMMETRY Symmetric
SPECIFICATION Spec
INVARIANTS EntriesCounted UpdatingHasUpdater DiskAccounted
