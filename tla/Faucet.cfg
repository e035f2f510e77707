\* Two requests in flight at a time, for the same account or for two.  The
\* clock is set back once and the process restarted once.
CONSTANTS
  w1 = w1
  w2 = w2
  a1 = a1
  a2 = a2
  NoAccount = NoAccount
  Workers = {w1, w2}
  Accounts = {a1, a2}
  Sends <- AnyAccount
  Limit = 2
  TotalSupply = 6
  Cooldown = 2
  StartTime = 2
  MaxTime = 5
  MaxWord = 15
  MaxBacksteps = 1
  MaxRestarts = 1
SPECIFICATION Spec
SYMMETRY Symmetry
INVARIANTS
  TypeOK
  IssuedIsPaid
  BalanceIsGranted
  ClaimsAreKept
PROPERTY CooldownRespected
