SPECIFICATION FairSpec
CONSTANTS
  Players = {p1, p2}
  Modes = {TRUE, FALSE}
  MaxBatch = 3
  MaxWrites = 4
  MaxRestarts = 1
  MaxPasses = 1
  MaxFailures = 1
  Writers = {w1, w2}
  Names = {n1, n2}
  Accounts = {u1, u2}
  Shown = {r1, r2}
  NoUuid = NoUuid
  NoRank = NoRank
  NoPlayer = NoPlayer
  Holders <- MCHolders
  Subjects = {"uuids", "ranks", "names"}
  MaxSightings = 3
  MaxBookTroubles = 1
  Rollers = {w1, w2}
  LastDay = 2
  MaxDayRows = 2
  MaxRollupTroubles = 1
  Scribes = {s1, s2}
  Packers = {k1, k2}
  MaxDayIds = 3
  MaxPackTroubles = 1
INVARIANTS LogAccounted LinesAccounted PlayersAccounted DaysAccounted
PROPERTY SelfCorrecting
CHECK_DEADLOCK FALSE
