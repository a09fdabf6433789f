SPECIFICATION Spec
CONSTANTS
 Wallet = {"ann", "bob"}
 Treasury = "treasury"
 Reserve = "reserve"
 Ticker = {"NEW", "FROG"}
 Seeds <- MCSeeds
 Public = 2
 Price <- MCPrice
 PlatformFee <- MCPlatformFee
 Asks = {2}
 Faucet = 12
 LaunchFee = 2
 MinerFee = 1
 Past <- MCPast
 MaxTx = 1
 MaxBlocks = 2
 MaxReorgs = 1
 Finality = 2
 MaxCrashes = 1
INVARIANTS ChainSound ProjectionRight
CHECK_DEADLOCK FALSE
