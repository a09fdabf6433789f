SPECIFICATION MCSpec
CONSTANTS
 Holder = {a, b}
 STAGE_COUNT = 4
 TOKENS_PER_STAGE = 6
 LOT_TOKENS = 2
 LOT_BASE_SATS = 401
 LOT_STEP_SATS = 401
 PRICE_UNIT = 10
 Fees <- mcFees
 Limits <- mcLimits
 Ramps <- mcRamps
 Listings <- mcListings
 CARRIER_SATS = 1000
 MaxTrades = 3
 Browser <- mcBrowser
 Dev <- mcDev
 Addresses <- mcAddresses
 MaxVault = 3
 MaxRefusals = 1
 MaxReloads = 1
 Seller = "seller"
 Buyer = "buyer"
 Orders <- mcOrders
 Funds <- mcFunds
 MaxMade = 3
 Coin <- mcCoin
 CoinOrder <- mcCoinOrder
 Value <- mcValue
 Carrier <- mcCarrier
 Asset <- mcAsset
 Requests <- mcRequests
 NodeRates <- mcNodeRates
 MaxMinerFee = 20000
 MaxMoves = 1
INVARIANTS Priced Funded SignsAsAsked
PROPERTIES PagesRight
CHECK_DEADLOCK FALSE
