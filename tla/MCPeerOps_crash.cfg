SPECIFICATION FairSpec
CONSTANTS
  Founders <- Two
  Newcomers <- One
  Clis <- OneCli
  Server = server
  Ops <- AllOps
  TeamJoiners <- AandC
  Memberships <- TeamOfB
  Updates <- TwoUpdates
  Daemons <- BandC
  MaxOps = 3
  MaxCrashes = 1
  OneAtATime = TRUE
  LateInstall = FALSE
  Resubmit = FALSE
  None = None
  a = a
  b = b
  c = c
  d = d
  cli = cli
INVARIANTS TypeOK FilesAgree RemovedLeavesNothing RelayFollowsFile
PROPERTIES NetworkConverges
CHECK_DEADLOCK FALSE
