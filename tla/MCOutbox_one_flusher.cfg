SPECIFICATION FairSpec
CONSTANTS
  m1 = m1  m2 = m2  k1 = k1  k2 = k2  mon = mon
  None = None
  Messages <- TwoMessages
  Replies <- SecondIsReply
  Checks <- OneCheck
  Monitors <- DaemonMonitor
  Process <- ServerAndDaemon
  MaxAttempts = 2
  BatchMax = 2
  Parallelism = 1
  RelayBusy = TRUE
  ResponsesLost = TRUE
  ConnectionsReset = FALSE
  MaxCrashes = 1
  MaxForgets = 1
INVARIANTS
  AttemptsFollowBackoff
PROPERTIES
  RowsSettle
CHECK_DEADLOCK FALSE
