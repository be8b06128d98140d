SPECIFICATION FairSpec
CONSTANTS
  Producers = {p1}
  Consumers = {c1}
  BufferCap = 3
  BroadcastCap = 2
  Replay = 2
  FirstSeq = 1
  MaxEvents = 4
  MaxSeq = 6
  MaxRestarts = 1
  ClockSkew = 0
INVARIANTS SkipsOnlyDelivered FeedAccounted
PROPERTIES LiveDelivery
