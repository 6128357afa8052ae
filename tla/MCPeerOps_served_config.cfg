SPECIFICATION Spec
CONSTANTS
  Founders <- Two
  Newcomers <- One
  Clis <- OneCli
  Server = server
  Ops <- AddRemove
  TeamJoiners <- AandC
  Memberships <- SomeTeams
  Updates <- TwoUpdates
  Daemons <- NoPeers
  MaxOps = 2
  MaxCrashes = 0
  OneAtATime = TRUE
  LateInstall = FALSE
  Resubmit = FALSE
  None = None
  a = a
  b = b
  c = c
  d = d
  cli = cli
INVARIANTS ServedMatchesDisk
CHECK_DEADLOCK FALSE
