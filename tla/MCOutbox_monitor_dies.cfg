SPECIFICATION FairSpec
CONSTANTS
  m1 = m1  m2 = m2  k1 = k1  k2 = k2  mon = mon
  None = None
  Messages <- OneMessage
  Replies <- NoSet
  Checks <- NoSet
  Monitors <- DaemonMonitor
  Process <- ServerAndDaemon
  MaxAttempts = 2
  BatchMax = 2
  Parallelism = 2
  RelayBusy = TRUE
  ResponsesLost = TRUE
  ConnectionsReset = TRUE
  MaxCrashes = 0
  MaxForgets = 0
PROPERTIES
  EveryRowResolves
CHECK_DEADLOCK FALSE
