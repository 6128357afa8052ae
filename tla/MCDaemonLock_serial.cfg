SPECIFICATION FairSpec
CONSTANTS
  d1 = d1  d2 = d2  d3 = d3  t1 = t1  r1 = r1
  p1 = p1  p2 = p2  p3 = p3  p4 = p4
  None = None
  Empty = Empty
  Daemons <- ThreeDaemons
  Removers <- NoSet
  Tools <- OneTool
  Pids <- ThreePids
  PidReuse = FALSE
  SerialStarts = TRUE
  CrashesMax = 1
INVARIANTS
  SingleDaemon
  LockTellsTruth
PROPERTIES
  RestartSucceeds
CHECK_DEADLOCK FALSE
