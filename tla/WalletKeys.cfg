\* Two calls at a time over three keys, and two reloads: a restored key is
\* restored again.
CONSTANTS
  Keys = {k1, k2, k3}
  NoKey = NoKey
  Calls = {c1, c2}
  MaxReloads = 2
SPECIFICATION FairSpec
INVARIANTS
  OneAtATimeAgrees
  StoredAccountIsShown
  AccountEndsWithPage
PROPERTY KeysAreSaved
