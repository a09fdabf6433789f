SPECIFICATION Spec
CONSTANTS
 Block <- MCBlock
 NoBlock <- NoBlockSeq
 Height <- MCHeight
 Ancestor <- MCAncestor
 CoveTxs <- MCCoveTxs
 Activation = 2
 MaxMoves = 2
 MaxRuns = 2
 MaxCrashes = 2
INVARIANTS ReplayIsTrusted
CHECK_DEADLOCK FALSE
