SPECIFICATION FairSpec
CONSTANTS
  alice = alice  bob = bob
  k1 = k1  k2 = k2
  i1 = i1  i2 = i2  i3 = i3  i4 = i4  i5 = i5  i6 = i6
  None = None
  Peers <- Correspondents
  Corrs <- TwoAsks
  Ids <- SixIds
  Messages <- MixedTraffic
  Concurrency = 1
  BatchMax = 2
  MayStop = TRUE
  ConnectionsReset = TRUE
INVARIANTS
  TypeOK
  ClaudesAccounted
  CancelsHit
  HandledInOrder
PROPERTIES
  EverythingEnds
CHECK_DEADLOCK FALSE
