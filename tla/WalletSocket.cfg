\* Three troubles, so four sockets at a time; a queue of three messages is full.
CONSTANTS
  NoQueue = NoQueue
  Limit = 3
  Keep = 2
  MaxMessages = 5
  MaxMissed = 2
  MaxTroubles = 3
SPECIFICATION FairSpec
INVARIANTS
  LatestWait
  OneConnection
  LoopsAreCounted
PROPERTIES
  OnlyTheFirstBurst
  ConnectsAgain
  NothingLasts
