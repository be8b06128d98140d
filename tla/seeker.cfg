SPECIFICATION FairSpec
CONSTANTS
  Hosts = {a, b, c, d}
  Public = {a, c}
  V6 = {d}
  Plain = {b}
  MassHosts = {c}
  SeedHosts = {a}
  CidrHosts = {d}
  Before = {a, b}
  Modes = {"watch", "scanner", "rescanner", "cidr"}
  Stores = {"sqlite", "postgres"}
  QuerySets = {{q}}
  Seeds = 2
  Limits = {0, 2}
  Concurrency = 2
  MaxTroubles = 1
  MaxLookups = 1
INVARIANTS PassesAccounted ConsentAccounted RowsAccounted
PROPERTIES RescanReaches
CHECK_DEADLOCK FALSE
