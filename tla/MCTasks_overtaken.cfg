SPECIFICATION Spec
CONSTANTS
  alice = alice
  bob = bob
  t1 = t1
  t2 = t2
  None = None
  Peers <- Both
  Delegators = {alice}
  TaskIds <- OneTask
  MaxUpdates = 2
  MaxStops = 1
  RelayForgets = FALSE
INVARIANTS LastWordCounts
CHECK_DEADLOCK FALSE
