\* Two peers with up to two connections each, with and without Tor.
CONSTANTS
  p1 = p1
  p2 = p2
  Peers = {p1, p2}
  NoAge = NoAge
  MaxConnections = 2
  MaxSockets = 1
  MaxQueue = 3
  PeerTimeout = 2
  Period = 4
SPECIFICATION Spec
SYMMETRY Symmetry
INVARIANTS
  ListedIsConnected
  EntriesExpire
  TorIsolates
