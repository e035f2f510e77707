\* One request at a time, for either of two accounts, until the supply is gone.
CONSTANTS
  w1 = w1
  w2 = w2
  a1 = a1
  a2 = a2
  NoAccount = NoAccount
  Workers = {w1}
  Accounts = {a1, a2}
  Sends <- AnyAccount
  Limit = 2
  TotalSupply = 7
  Cooldown = 2
  StartTime = 2
  MaxTime = 8
  MaxWord = 15
  MaxBacksteps = 0
  MaxRestarts = 0
SPECIFICATION FairSpec
PROPERTIES
  IssuedCatchesUp
  AtomicClaims
