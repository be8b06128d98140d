SPECIFICATION Spec
CONSTANTS
  Producers = {p1}
  Consumers = {c1}
  BufferCap = 2
  BroadcastCap = 2
  Replay = 2
  FirstSeq = 1
  MaxEvents = 5
  MaxSeq = 6
  MaxRestarts = 0
  ClockSkew = 0
INVARIANTS SkipsOnlyDelivered
