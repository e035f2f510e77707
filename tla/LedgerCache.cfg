\* A cache of one entry over two accounts in different shards.
CONSTANTS
  x = x
  y = y
  r1 = r1
  r2 = r2
  Readers = {r1, r2}
  Ids = {x, y}
  Batches <- SomeBatches
  Shard <- OwnShard
  Capacity = 1
  MaxVersion = 2
SPECIFICATION FairSpec
INVARIANTS
  ReadsNeverGoBack
  BatchIsComplete
PROPERTY CallsReturn
