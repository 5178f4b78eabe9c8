\* No slot limit but one client, one slot, two slots; four connections.
CONSTANTS
  MaxConnections = {0, 1, 2}
  MaxArrivals = 4
SPECIFICATION FairSpec
INVARIANTS
  LimitRespected
  RefusedOnlyWhenFull
  NoClientLeftBehind
  OneLateConnection
PROPERTIES
  InterruptEnds
CHECK_DEADLOCK FALSE
