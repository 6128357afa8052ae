SPECIFICATION Spec
CONSTANTS
  d1 = d1  d2 = d2  d3 = d3  t1 = t1  r1 = r1
  p1 = p1  p2 = p2  p3 = p3  p4 = p4
  None = None
  Empty = Empty
  Daemons <- ThreeDaemons
  Removers <- OneRemover
  Tools <- OneTool
  Pids <- ThreePids
  PidReuse = TRUE
  SerialStarts = FALSE
  CrashesMax = 1
SYMMETRY LockSymmetry
INVARIANTS
  TypeOK
  NoLockLeft
CHECK_DEADLOCK FALSE
