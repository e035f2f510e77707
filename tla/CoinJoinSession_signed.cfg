\* A session of two participants.
CONSTANTS
  People = {p1, p2, p3}
  Inputs = {i1, i2}
  Outputs = {o1, o2}
  Txids = {t1, t2}
  NoTxid = NoTxid
  Minima = {2}
  Maxima = {3}
  Timeout = 1
  MaxBacksteps = 0
SPECIFICATION Spec
INVARIANT EveryInputIsSigned
