SPECIFICATION Spec
CONSTANTS
  Founders <- Two
  Newcomers <- One
  Clis <- OneCli
  Server = server
  Ops <- AllOps
  TeamJoiners <- AandC
  Memberships <- SomeTeams
  Updates <- TwoUpdates
  Daemons <- NoPeers
  MaxOps = 2
  MaxCrashes = 1
  OneAtATime = TRUE
  LateInstall = FALSE
  Resubmit = TRUE
  None = None
  a = a
  b = b
  c = c
  d = d
  cli = cli
INVARIANTS RelayFollowsFile
CHECK_DEADLOCK FALSE
