\* Three people, requests for any number of participants that matters, and a
\* clock set back once.
CONSTANTS
  People = {p1, p2, p3}
  Inputs = {i1, i2}
  Outputs = {o1, o2}
  Txids = {t1, t2}
  NoTxid = NoTxid
  Minima = {0, 2, 3}
  Maxima = {3}
  Timeout = 1
  MaxBacksteps = 1
SPECIFICATION Spec
INVARIANTS
  TypeOK
  StagesFillInOrder
  TransactionIsComplete
PROPERTIES
  SignedIsFrozen
  TxidIsSetOnce
