\* Two connections for one slot; either peer may stall or go away.  Two secrets.
CONSTANTS
  s1 = s1
  s2 = s2
  Connections = {c1, c2}
  MaxConnections = 1
  Quota = 1
  MaxRefills = 1
  Secrets = {s1, s2}
  Environments <- MCEnvironments
  MaxRestarts = 1
SPECIFICATION FairSpec
CHECK_DEADLOCK FALSE
INVARIANTS
  SlotsAreCounted
  RateIsShared
PROPERTIES
  SlotIsGivenBack
  TokensEndForAReason
