------------------------------- MODULE MCTrade -------------------------------
(***************************************************************************)
(* Model checking of the user's side of a trade: what it costs             *)
(* (Economics), which coins pay for it (Funding), what the pages show      *)
(* (Pages, Charts), what the wallet is asked to sign (WalletSession) and   *)
(* which signatures are taken (Signatures).  The six keep no common state, *)
(* so a behaviour is one of one of them (part says which), and the state   *)
(* space is their sum.                                                     *)
(***************************************************************************)
EXTENDS Economics, UserSigning, SafeFunding

mcFees == [buyFeeBps |-> 750, buyFeeFlatSats |-> 5000, buyFeeLotSats |-> 10,
           creatorFeeBps |-> 5000, redeemFeeBps |-> 750, redeemFeeFlatSats |-> 0,
           redeemFeeMinSats |-> 1000, p2pFeeBps |-> 250, p2pFeeMinSats |-> 1000]
mcLimits == [maxLots |-> 5, maxGross |-> 5000, minGross |-> 500]
mcRamps == [p0 |-> 50, kink |-> 200, p1 |-> 1500]
mcListings == {[amount |-> 2, price |-> 500], [amount |-> 2, price |-> 9000],
               [amount |-> 4, price |-> 6000], [amount |-> 12, price |-> 16000]}

(* Four coins: one unconfirmed at first, one with an inscription, one that *)
(* carries tokens.                                                         *)
mcCoin == {"a", "b", "c", "d"}
mcCoinOrder == <<"a", "b", "c", "d">>
mcValue == [a |-> 9000, b |-> 5000, c |-> 5000, d |-> 1000]
mcCarrier == {"d"}
mcAsset == {"b"}
Wallet == [pay |-> "p2wpkh", ord |-> "p2tr", creator |-> "p2tr", to |-> "p2tr"]
Ask(op, target, in, out, rate, explicit, w) ==
  [op |-> op, target |-> target, tokenInputs |-> in, tokenOutputs |-> out,
   rate |-> rate, explicit |-> explicit, ticker |-> 16,
   pay |-> w.pay, ord |-> w.ord, creator |-> w.creator, to |-> w.to]
mcRequests ==
  {Ask("BACKING_BUY", 8500, 0, 0, "eco", -1, Wallet),
   Ask("REDEEM", -1000, 2, 1, "standard", -1, [Wallet EXCEPT !.pay = "p2shp2wpkh"]),
   Ask("TRANSFER", 1000, 1, 2, "none", -1, [Wallet EXCEPT !.ord = "p2wpkh"]),
   Ask("DEPLOY", 3000, 0, 0, "priority", -1, Wallet),
   [Ask("DEPLOY", 3000, 0, 0, "none", 900, Wallet) EXCEPT !.ticker = 10]}
mcNodeRates == {[floor |-> 1, eco |-> 3, standard |-> 2, priority |-> -1],
              [floor |-> 4, eco |-> 2, standard |-> 2, priority |-> 60]}

(* Pages: two subjects and the empty budget.                               *)
Subjects == {"", "x", "y"}
MaxVersion == 2
MaxInFlight == 2
MaxPicks == 2
MaxFaults == 1

(* A wallet with two addresses, one that is told no inputs, two of regtest.*)
mcBrowser == {"xverse", "oyl"}
mcDev == {"alice", "bob"}
One(script, format) == [script |-> script, format |-> format]
mcAddresses == [xverse |-> <<One("xp", "nested"), One("xo", "taproot")>>,
                oyl |-> <<One("yo", "taproot"), One("yp", "segwit")>>,
                alice |-> <<One("al", "segwit")>>, bob |-> <<One("bo", "segwit")>>]

(* Three trades, at prices that go up and down; a bucket of two instants.  *)
Deals == <<[atoms |-> 2, sats |-> 30], [atoms |-> 3, sats |-> 30], [atoms |-> 2, sats |-> 35]>>
PRECISION == 10
ATOMS_PER_TOKEN == 2
WIDTH == 2
MAX_TRADES == 3
POINTS == 2
DAY == 2
Lag == 1
MaxTime == 4
MaxBlocks == 2
MaxReorgs == 1

(* Listings from a Taproot address with a 32-byte key and a nested payout, *)
(* from native segwit without a key, and from an address that may not hold *)
(* tokens; coins of every kind, with the key, without it, with a bad one.  *)
At(kind, key) == [kind |-> kind, key |-> key]
PubKey(key, bytes) == <<[key |-> key, bytes |-> bytes]>>
Order(kind, pub, payout) ==
  [token |-> At(kind, Seller), publicKey |-> pub, payout |-> At(payout, Seller), change |-> At(kind, Seller),
   amount |-> 2, source |-> 3, price |-> 5, creation |-> 1, expiry |-> 2]
mcOrders == {Order("p2tr", PubKey(Seller, 32), "p2sh-p2wpkh"), Order("p2wpkh", <<>>, "p2wpkh"),
             Order("p2sh-p2wpkh", PubKey(Seller, 33), "p2wpkh")}
Coins(kind, pub) == [script |-> At(kind, Buyer), publicKey |-> pub]
mcFunds == {Coins("p2sh-p2wpkh", PubKey(Buyer, 33)), Coins("p2sh-p2wpkh", PubKey(Buyer, 32)),
            Coins("p2tr", PubKey(Buyer, 33)), Coins("p2tr", <<>>), Coins("p2wpkh", <<>>),
            Coins("other", PubKey(Buyer, 33))}

VARIABLE part
funding == <<conf, unspent, indexed, node, cache, req, moves, stale>>

VARIABLES view, now, polls, seen, subject, net, timer, shown, loading, faults, picks
P == INSTANCE Pages
pages == <<view, now, polls, seen, subject, net, timer, shown, loading, faults, picks>>

session == <<regtest, conn, stored, silent, asked, test, job, vault, chosen, refusals, reloads>>

VARIABLES clock, tip, fills, events, written, reorgs, screen
C == INSTANCE Charts WITH view <- screen
charts == <<clock, tip, fills, events, written, reorgs, screen>>

signing == <<stage, order, psbt, made, letter>>

MCInit ==
  /\ part \in {"economics", "funding", "pages", "session", "charts", "signing"}
  /\ C!Init
  /\ Init
  /\ F!Init /\ (part # "funding" => conf = Coin /\ node = CHOOSE r \in NodeRates : TRUE)
  /\ P!Init /\ (part # "pages" => view = P!FeeRates /\ now = 1)
  /\ W!Init /\ (part # "session" => ~regtest /\ stored = "")
  /\ G!Init /\ (part # "signing" => order = CHOOSE o \in Orders : TRUE)

MCNext ==
  \/ part = "economics" /\ Next /\ UNCHANGED <<part, funding, pages, session, charts, signing>>
  \/ part = "funding" /\ F!Next /\ UNCHANGED <<part, vars, pages, session, charts, signing>>
  \/ part = "pages" /\ P!Next /\ UNCHANGED <<part, vars, funding, session, charts, signing>>
  \/ part = "session" /\ W!Next /\ UNCHANGED <<part, vars, funding, pages, charts, signing>>
  \/ part = "charts" /\ C!Next /\ UNCHANGED <<part, vars, funding, pages, session, signing>>
  \/ part = "signing" /\ G!Next /\ UNCHANGED <<part, vars, funding, pages, session, charts>>

MCSpec ==
  /\ MCInit /\ [][MCNext]_<<part, vars, funding, pages, session, charts, signing>>
  /\ (part = "pages" => P!Fairness)

-----------------------------------------------------------------------------
(* What a trade costs: the quotes agree with one another and with the      *)
(* reserve, spend no more and no less than a budget allows, pay no dust    *)
(* and reward no splitting, and no sat leaks (evaluated where the supply   *)
(* of Economics moves); the coins picked for it are the fewest that pay,   *)
(* at a fee that relays, and a shortfall is said only to a wallet that     *)
(* cannot pay.                                                             *)
Priced ==
  /\ TypeOK /\ Conservation
  /\ part = "economics" => QuotesAgree /\ BestRoute
  /\ F!FewestInputs /\ F!ShortfallIsReal /\ F!FeeRelays

(* What is on screen: a guarded view never goes back to older data, charts *)
(* are about what is selected, a view that retries or polls ends up        *)
(* showing the server's data; and the price history has every trade once,  *)
(* keeps its past, and is the same on every page.                          *)
PagesRight ==
  /\ [](P!TypeOK /\ P!RightSubject)
  /\ [](part = "charts" => C!ChartIsTrades /\ C!FinishedStands /\ C!PagesAgree)
  /\ [][P!Forward]_pages
  /\ part = "pages" => P!ShowsLatest
=============================================================================
