SPECIFICATION Spec
CONSTANTS
  Producers = {p1, p2}
  Consumers = {c1}
  BufferCap = 2
  BroadcastCap = 1
  Replay = 2
  FirstSeq = 1
  MaxEvents = 3
  MaxSeq = 4
  MaxRestarts = 1
  ClockSkew = 1
INVARIANTS IInv NoDuplicates SkipsAccounted RefusalsAccounted
PROPERTIES FeedSpec
