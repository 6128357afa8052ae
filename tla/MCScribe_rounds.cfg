SPECIFICATION FairSpec
CONSTANTS
  doc = doc
  pd = pd
  Peers <- One
  Cap = 2
  Day = 2
  Limit = 2
  MaxCommits = 3
  MaxStops = 2
INVARIANTS TypeOK NothingSkipped CapPerDay OneRoundAfterPause
PROPERTIES NewsIsSeen
