SPECIFICATION Spec
CONSTANTS
  alice = alice  bob = bob
  k1 = k1  k2 = k2
  i1 = i1  i2 = i2  i3 = i3  i4 = i4  i5 = i5  i6 = i6
  None = None
  Peers <- Correspondents
  Corrs <- TwoAsks
  Ids <- SixIds
  Messages <- QueueTraffic
  Concurrency = 1
  BatchMax = 2
  MayStop = FALSE
  ConnectionsReset = TRUE
INVARIANTS
  StopsOnlyWhenTold
CHECK_DEADLOCK FALSE
