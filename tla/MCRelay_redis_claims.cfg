SPECIFICATION Spec
CONSTANTS
  alice = alice  bob = bob  c1 = c1  c2 = c2
  n1 = n1  n2 = n2  n3 = n3  n4 = n4  n5 = n5  n6 = n6
  r1 = r1  r2 = r2  r3 = r3  r4 = r4
  d1 = d1  d2 = d2
  None = None
  Agents <- MCAgents
  Corrs <- MCCorrs
  Nonces <- MCNonces
  Requests <- FourRequests
  Traffic <- MixedTraffic
  Backend = "redis"
  MaxPending = 1
  InboxMax = 1
  Readers <- TwoReaders
  Owner <- BobReads
  DrainMax = 1
  NonceTTL = 2
  TSSkew = 2
  NonceCacheMax = 2
  ClockAhead = 0
  StoreFails = FALSE
  MaxNow = 0
  MaxRestarts = 0
SYMMETRY ReaderSymmetry
\* Either claim is refuted: check one at a time, or both with -continue.
INVARIANTS
  InboxCapped
  ReplyAckReachesAsker
CHECK_DEADLOCK FALSE
