SPECIFICATION Spec
CONSTANTS
 Owner = {"ann", "bob"}
 Settlement = "settlement"
 Treasury = "treasury"
 Tick = {"FROG"}
 Public = 2
 Price <- MCPrice
 Fee <- MCFee
 MinContribution = 3
 LaunchFee = 2
 Dust = 1
 Genesis = 2
 Past <- MCPast
 MaxTx = 1
 MaxBlocks = 2
 MaxReorgs = 1
 MaxCrashes = 1
PROPERTIES LedgerFollows
CHECK_DEADLOCK FALSE
