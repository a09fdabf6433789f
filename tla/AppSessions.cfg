CONSTANTS
  Launch = launch
  NoVault = noVault
  MaxSessions = 3
  MaxPending = 1
  Remote = FALSE
  MaxSubmits = 2
  MaxUpsets = 1
SPECIFICATION FairSpec
INVARIANTS TypeOK PendingChain
PROPERTIES Settles
CHECK_DEADLOCK FALSE
