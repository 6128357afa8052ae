SPECIFICATION FairSpec
CONSTANTS
  Alice = Alice
  Bob = Bob
  None = None
  Peers = {Alice, Bob}
  Messages <- Circle
  Concurrency = 1
  HistoryLimit = 3
  MaxFaults = 1
CHECK_DEADLOCK FALSE
INVARIANTS TypeOK ThreadsAgree
PROPERTIES WaitingEnds
