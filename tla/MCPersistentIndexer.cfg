CONSTANTS
  Block <- MCBlock
  NoBlock <- NoBlockSeq
  Height <- MCHeight
  Ancestor <- MCAncestor
  CoveTxs <- MCCoveTxs
  Activation = 2
  MaxMoves = 3
  MaxFaults = 2
SPECIFICATION FairSpec
INVARIANTS TypeOK HealthyIsCanonical CleanReplay Lockstep DriftBounded
PROPERTIES OnlyOrphansUndone FollowsChain EventuallySynced
