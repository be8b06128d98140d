SPECIFICATION FairSpec
CONSTANTS
  Writers = {w1, w2}
  RowsPerPoll = 1
  HitsPerTick = 1
  StartFromLatest = TRUE
  MaxId <- MCMaxId
  MaxTroubles = 1
INVARIANTS CursorsAccounted ReplaysAccounted
PROPERTIES CatchesUp
CHECK_DEADLOCK FALSE
