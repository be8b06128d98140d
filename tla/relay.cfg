SPECIFICATION FairSpec
CONSTANTS
  Loggers = {l1}
  Askers = {a1}
  Allowance = 1
  Minute = 2
  SayCap = 1
  Aspects = {"says", "events"}
  MaxSays = 3
  MaxEvents = 3
  MaxBreaks = 2
  MaxTicks = 3
INVARIANTS SaysKept RateKept UplinkKept
PROPERTIES RelayMoves
CHECK_DEADLOCK FALSE
