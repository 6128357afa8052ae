SPECIFICATION Spec
CONSTANTS
  m1 = m1  m2 = m2  k1 = k1  k2 = k2  mon = mon
  None = None
  Messages <- TwoMessages
  Replies <- SecondIsReply
  Checks <- NoSet
  Monitors <- DaemonMonitor
  Process <- ServerAndDaemon
  MaxAttempts = 2
  BatchMax = 2
  Parallelism = 3
  RelayBusy = TRUE
  ResponsesLost = TRUE
  ConnectionsReset = TRUE
  MaxCrashes = 1
  MaxForgets = 2
INVARIANTS
  TypeOK
  DeliveredOnce
CHECK_DEADLOCK FALSE
