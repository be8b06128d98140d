SPECIFICATION GatewayFairSpec
CONSTANTS
  Conns = {c1, c2}
  Keys = {k1, k2, k3}
  Allowed = {k1, k2}
  MaxKeys = 1
  MaxConnsPerKey = 1
  MaxHubs = 2
INVARIANTS Counted LimitAccounted OrphansAccounted
PROPERTIES PlacesReleased
CHECK_DEADLOCK FALSE
