SPECIFICATION Spec
CONSTANTS
  m1 = m1  m2 = m2  k1 = k1  k2 = k2  mon = mon
  None = None
  Messages <- OneMessage
  Replies <- NoSet
  Checks <- OneCheck
  Monitors <- DaemonMonitor
  Process <- ServerAndDaemon
  MaxAttempts = 2
  BatchMax = 2
  Parallelism = 1
  RelayBusy = FALSE
  ResponsesLost = TRUE
  ConnectionsReset = FALSE
  MaxCrashes = 0
  MaxForgets = 0
INVARIANTS
  DeadNotDelivered
CHECK_DEADLOCK FALSE
