SPECIFICATION FairSpec
CONSTANTS
  Modes = {"portal", "stay", "commands", "offline", "queue", "reported", "probe"}
  MaxConns = 2
  MaxTries = 1
  Commands = 2
  Wait = 2
  MaxMoves = 1
  MaxSpawns = 2
  LeaveAt = 1
  MaxPlace = 2
  Counts = {1, 2}
  Stale = 1
  MaxHandlers = 2
  MaxChanges = 2
  MaxFailures = 1
  TabAt = 1
  ChatAt = 2
  SaveAt = 3
  ChatProbes = {TRUE}
  MaxProbeFailures = 1
INVARIANTS TasksAccounted OfflineBounded ScansAccounted
PROPERTIES GameMovesOn
CHECK_DEADLOCK FALSE
