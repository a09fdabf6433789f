CONSTANTS
  l1 = l1
  l2 = l2
  src = src
  None = none
  External = external
  Listing <- TwoListings
  Source <- MCSource
  MaxFills = 1
  MaxBuilds = 1
  MaxCalls = 1
  MaxMoves = 1
  MaxFaults = 1
SPECIFICATION FairSpec
INVARIANTS TypeOK Settled OwnIsKnown
PROPERTIES OwnNeverFails Progress
CHECK_DEADLOCK FALSE
