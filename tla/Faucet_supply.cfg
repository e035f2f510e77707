\* Each account has one client; the supply is one claim.
CONSTANTS
  w1 = w1
  w2 = w2
  a1 = a1
  a2 = a2
  NoAccount = NoAccount
  Workers = {w1, w2}
  Accounts = {a1, a2}
  Sends <- OwnAccount
  Limit = 2
  TotalSupply = 3
  Cooldown = 2
  StartTime = 2
  MaxTime = 4
  MaxWord = 15
  MaxBacksteps = 0
  MaxRestarts = 0
SPECIFICATION Spec
INVARIANT SupplyRespected
