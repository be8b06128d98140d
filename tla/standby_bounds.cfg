SPECIFICATION StandbySpec
CONSTANTS
  Primaries = {p}
  Standbys = {s}
  Interval = 2
  Takeover = 4
  MaxErrors = 1
  MaxStarts = 3
INVARIANTS OverlapBounded GapBounded
