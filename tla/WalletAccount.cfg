\* Two keys, two calls at a time, two attempts each.
CONSTANTS
  Calls = {c1, c2}
  Keys = {k1, k2}
  NoData = NoData
  NoEntry = NoEntry
  Expiry = 1
  MaxRetries = 2
  MaxVersion = 1
  MaxSends = 1
SPECIFICATION FairSpec
INVARIANTS
  TypeOK
  PendingIsInFlight
  QueueIsAccounted
PROPERTIES
  OneRequestEach
  CacheNeverGoesBack
  MarksAreCleared
  WaitersReturn
