SPECIFICATION FairSpec
CONSTANTS
  Founders <- Two
  Newcomers <- One
  Clis <- OneCli
  Server = server
  Ops <- AllOps
  TeamJoiners <- NoPeers
  Memberships <- FounderTeam
  Updates <- TwoUpdates
  Daemons <- Two
  MaxOps = 2
  MaxCrashes = 0
  OneAtATime = TRUE
  LateInstall = FALSE
  Resubmit = FALSE
  None = None
  a = a
  b = b
  c = c
  d = d
  cli = cli
PROPERTIES TeamsHotReload
CHECK_DEADLOCK FALSE
