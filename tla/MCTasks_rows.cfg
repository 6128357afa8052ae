SPECIFICATION FairSpec
CONSTANTS
  alice = alice
  bob = bob
  t1 = t1
  t2 = t2
  None = None
  Peers <- Both
  Delegators = {alice}
  TaskIds <- OneTask
  MaxUpdates = 2
  MaxStops = 1
  RelayForgets = TRUE
INVARIANTS TypeOK FailedNeverArrives AssignedRowsStand QuietAgreement
PROPERTIES StatusArrives
CHECK_DEADLOCK FALSE
