SPECIFICATION MCSpec
CONSTANTS
 Token = {"t1"}
 NoToken = "none"
 TxId = {"f1","f2","f3","d1","m1","m2","m3",x1,x2}
 NoTx = "notx"
 Vout = {1,2,4}
 MaxSupply = 6
 MaxAmount = 8
 Lot = 2
 Anchor = 33
 R <- mcR
 User = {"u","w"}
 Coins <- mcCoins
 Maker <- mcMaker
 MintFee <- mcMintFee
 CreatorFee <- mcCreatorFee
 RedeemFee <- mcRedeemFee
 Dust <- mcDust
 Carrier = 50
 CreatorRecord = 50
 MinerFees = {34}
 MaxMinerFee = 40
 MaxTokenInputs = 2
 Amounts = {1,2,4}
 P2PFee <- mcP2PFee
 Prices = {60, 870}
 Seed <- mcSeed
 Fresh = {x1,x2}
SYMMETRY Interchangeable
INVARIANTS Agreement WireCanonical
PROPERTIES PartiesAgree
CHECK_DEADLOCK FALSE
