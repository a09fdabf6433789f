SPECIFICATION MCSpec
CONSTANTS
 CommittedJson <- mcCommitted
 TestJson <- mcTest
 Trades <- mcTrades
 MaxMinerFee = 2
 AppEnvs <- mcAppEnvs
 GuardianEnvs <- mcGuardianEnvs
 Approved <- mcApproved
 OnCurve = {1, 2, 3, 4, 5, 6}
 TestKeys = {6}
 TestScripts = {"testScript"}
 ScriptOf <- mcScriptOf
 Supply = 3
 Surface = "v3"
 MaxDeploys = 3
 Environments <- mcEnvironments
 Number <- mcNumber
 Txid <- mcTxid
 PaysOn <- mcPaysOn
 Coins <- mcCoins
 MintAmount = 4
 TransferAmount = 1
 Cost <- mcCost
 Required <- mcRequired
 FeeRates <- mcFeeRates
 MaxReplay = 10
 MaxBlocks = 5
 MaxFaults = 1
INVARIANTS ServicesSafe RehearsalSafe
PROPERTIES Outcomes
CHECK_DEADLOCK FALSE
