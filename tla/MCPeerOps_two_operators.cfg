SPECIFICATION Spec
CONSTANTS
  Founders <- Two
  Newcomers <- Pair
  Clis <- OneCli
  Server = server
  Ops <- AddRemove
  TeamJoiners <- NoPeers
  Memberships <- SomeTeams
  Updates <- TwoUpdates
  Daemons <- NoPeers
  MaxOps = 3
  MaxCrashes = 0
  OneAtATime = FALSE
  LateInstall = FALSE
  Resubmit = FALSE
  None = None
  a = a
  b = b
  c = c
  d = d
  cli = cli
INVARIANTS BearersMatch
CHECK_DEADLOCK FALSE
