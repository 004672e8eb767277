SPECIFICATION Spec
CONSTANTS
  NConns = 2
  DrainMax = 32
  MaxOps = 6
INVARIANTS
  PoolSound
  EventsFollowConnections
