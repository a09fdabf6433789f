------------------------------ MODULE Economics ------------------------------
(***************************************************************************)
(* The prices and fees of the primary market, and the vault they move.     *)
(*                                                                         *)
(*   packages/curve/src              the 210-stair table, V1 quotes        *)
(*   packages/cove-economics/src     reserve function, fees, dust          *)
(*   packages/cove-app/src/service.ts   mintLimits, quoteBuyForSats        *)
(*                                                                         *)
(* Supplies and amounts are whole tokens; sats are sats.  The constants of *)
(* the curve are parameters, so that the stairs, the lot and the price     *)
(* unit can be small; the dust sizes and the fee floors are the real ones. *)
(* The state machine is a vault and the holders who mint from it and sell  *)
(* back to it at the quoted prices.                                        *)
(***************************************************************************)
EXTENDS Integers, FiniteSets, Sequences, SequencesExt

CONSTANTS Holder,            \* who mints and redeems
          STAGE_COUNT, TOKENS_PER_STAGE, LOT_TOKENS,
          LOT_BASE_SATS, LOT_STEP_SATS,
          PRICE_UNIT,        \* PRICE_UNIT_TOKENS: prices are sats per unit
          Fees,              \* CoveFeeConfig
          Limits,            \* mintLimits(): maxLots, maxGross (or null), minGross
          Ramps,             \* prices of the candidate curves: p0, kink, p1
          CARRIER_SATS,      \* TOKEN_CARRIER_SATS
          Listings,          \* the ACTIVE listings: amount and totalPriceSats
          MaxTrades          \* bound on the trades of a behaviour

ASSUME CurveAssumption ==
  /\ {STAGE_COUNT, TOKENS_PER_STAGE, LOT_TOKENS, PRICE_UNIT, LOT_BASE_SATS,
      LOT_STEP_SATS} \subseteq Nat \ {0}
  /\ TOKENS_PER_STAGE % LOT_TOKENS = 0
  /\ PRICE_UNIT % LOT_TOKENS = 0
  /\ CARRIER_SATS \in Nat /\ MaxTrades \in Nat
  /\ \A l \in Listings : l.amount \in Nat \ {0} /\ l.price \in Nat

PUBLIC_SUPPLY == STAGE_COUNT * TOKENS_PER_STAGE
Least(a, b) == IF a < b THEN a ELSE b
CeilDiv(n, d) == IF n <= 0 THEN 0 ELSE (n + d - 1) \div d

-----------------------------------------------------------------------------
(* The stair table and the reserve function R(s) = stairs210.costToBuy(0, s) *)

STAGE_PRICES(i) ==
  (LOT_BASE_SATS + LOT_STEP_SATS * i) * (PRICE_UNIT \div LOT_TOKENS)

stageAt(s) ==
  IF s >= PUBLIC_SUPPLY THEN STAGE_COUNT - 1 ELSE s \div TOKENS_PER_STAGE

(* costToBuy walks the stairs from s, each chunk rounded up to a sat; past *)
(* the last stair it throws, which supply + amount <= PUBLIC_SUPPLY rules  *)
(* out for every caller.                                                   *)
costToBuy(s, n) ==
  LET walk[x \in s .. s + n] ==
        IF x = s + n THEN 0
        ELSE LET stageEnd == (stageAt(x) + 1) * TOKENS_PER_STAGE
                 chunk == Least(s + n - x, stageEnd - x)
             IN  CeilDiv(chunk * STAGE_PRICES(stageAt(x)), PRICE_UNIT)
                   + walk[x + chunk]
  IN  walk[s]

requiredBackingSats(s) == costToBuy(0, s)

CanBuy(s, n) ==
  /\ n > 0 /\ s + n <= PUBLIC_SUPPLY
  /\ requiredBackingSats(s + n) - requiredBackingSats(s) >= 1
CanRedeem(s, n) ==
  /\ n > 0 /\ n <= s
  /\ requiredBackingSats(s) - requiredBackingSats(s - n) >= 1

grossBuy(s, n) == requiredBackingSats(s + n) - requiredBackingSats(s)
grossRedeem(s, n) == requiredBackingSats(s) - requiredBackingSats(s - n)

-----------------------------------------------------------------------------
(* The V1 quotes of packages/curve, whose stages count from 1 *)

getStageForSupply(s) ==
  IF s >= PUBLIC_SUPPLY THEN STAGE_COUNT
  ELSE Least((s \div TOKENS_PER_STAGE) + 1, STAGE_COUNT)

getStagePrice(stage) == STAGE_PRICES(stage - 1)

quoteExactTokens(s, n) ==
  LET walk[x \in s .. s + n] ==
        IF x = s + n THEN 0
        ELSE LET stage == getStageForSupply(x)
                 chunk == Least(s + n - x, stage * TOKENS_PER_STAGE - x)
             IN  CeilDiv(chunk * getStagePrice(stage), PRICE_UNIT)
                   + walk[x + chunk]
  IN  walk[s]

(* The stairs the sats still pay for, cheapest first; one sat short of a   *)
(* token ends the walk.                                                    *)
quoteExactSats(s, sats) ==
  LET walk[x \in s .. PUBLIC_SUPPLY, left \in 0 .. sats] ==
        LET stage == getStageForSupply(x)
            afford == (left * PRICE_UNIT) \div getStagePrice(stage)
            chunk == Least(afford, stage * TOKENS_PER_STAGE - x)
            cost == CeilDiv(chunk * getStagePrice(stage), PRICE_UNIT)
        IN  IF left = 0 \/ x >= PUBLIC_SUPPLY \/ chunk = 0
            THEN [tokens |-> x - s, curveContributionSats |-> sats - left]
            ELSE walk[x + chunk, left - cost]
  IN  walk[s, sats]

getTheoreticalFullRaise ==
  LET sum[i \in 0 .. STAGE_COUNT] ==
        IF i = 0 THEN 0
        ELSE sum[i - 1] + (TOKENS_PER_STAGE * STAGE_PRICES(i - 1)) \div PRICE_UNIT
  IN  sum[STAGE_COUNT]

-----------------------------------------------------------------------------
(* Fees, and the outputs that carry them *)

deterministicFee(gross, bps, flat, min) ==
  LET pct == (gross * bps + 9999) \div 10000
      fee == flat + (IF bps = 0 THEN 0 ELSE pct)
  IN  IF gross = 0 THEN 0 ELSE IF fee < min THEN min ELSE fee

mintFeeSats(gross, n) ==
  deterministicFee(gross, Fees.buyFeeBps,
                   Fees.buyFeeFlatSats + Fees.buyFeeLotSats * (n \div LOT_TOKENS), 0)

CREATOR_MIN_SATS == 546
creatorFeeSats(gross) ==
  deterministicFee(gross, Fees.creatorFeeBps, 0, CREATOR_MIN_SATS)

redeemFeeSats(gross) ==
  deterministicFee(gross, Fees.redeemFeeBps, Fees.redeemFeeFlatSats,
                   Fees.redeemFeeMinSats)

(* Output scripts, by length and by whether they are witness programs. *)
Script == [p2wpkh |-> [len |-> 22, witness |-> TRUE],
           p2tr   |-> [len |-> 34, witness |-> TRUE],
           p2sh   |-> [len |-> 23, witness |-> FALSE],
           p2pkh  |-> [len |-> 25, witness |-> FALSE]]
isCreatorScript(kind) == kind \in {"p2wpkh", "p2tr", "p2sh"}

dustThreshold(kind) ==
  ((9 + Script[kind].len + (IF Script[kind].witness THEN 67 ELSE 148)) * 3000)
    \div 1000

minimumGrossForStandardFee(kind, bps) ==
  ((dustThreshold(kind) - 1) * 10000) \div bps + 1

quoteRedeemNet(s, n) == grossRedeem(s, n) - redeemFeeSats(grossRedeem(s, n))
isPayable(s, n, kind) == quoteRedeemNet(s, n) >= dustThreshold(kind)

-----------------------------------------------------------------------------
(* The candidate curves of cove-economics/curve.ts: linear, quadratic and  *)
(* two-segment, integrated exactly and rounded up once (per segment).      *)

RAMP == Ramps.p1 - Ramps.p0

(* The area under a line from price p, rising by m over len, from s on. *)
Ramp(p, m, len, s, n) ==
  CeilDiv(p * n * 2 * len + m * (n * n + 2 * s * n), 2 * len * PRICE_UNIT)

linearCost(s, n) == Ramp(Ramps.p0, RAMP, PUBLIC_SUPPLY, s, n)

quadraticCost(s, n) ==
  LET S2 == PUBLIC_SUPPLY * PUBLIC_SUPPLY
      cube(x) == x * x * x
  IN  CeilDiv(Ramps.p0 * n * 3 * S2 + RAMP * (cube(s + n) - cube(s)),
              3 * S2 * PRICE_UNIT)

KINK == PUBLIC_SUPPLY \div 2
twoSegmentCost(s, n) ==
  LET s0 == Least(s, KINK)
      e0 == Least(s + n, KINK)
      s1 == IF s < KINK THEN KINK ELSE s
      len1 == PUBLIC_SUPPLY - KINK
  IN  (IF e0 > s0 THEN Ramp(Ramps.p0, Ramps.kink - Ramps.p0, KINK, s0, e0 - s0) ELSE 0)
      + (IF s + n > KINK
         THEN Ramp(Ramps.kink, Ramps.p1 - Ramps.kink, len1, s1 - KINK, s + n - s1)
         ELSE 0)

-----------------------------------------------------------------------------
(* quoteBuyForSats: the most lots a budget pays for, by bisection *)

null == -1

Cost(g, n) ==
  [gross |-> g, total |-> g + mintFeeSats(g, n) + creatorFeeSats(g) + CARRIER_SATS]
costOf(s, lots) == Cost(grossBuy(s, lots * LOT_TOKENS), lots * LOT_TOKENS)

Within(cost, budget) ==
  cost.total <= budget /\ (Limits.maxGross = null \/ cost.gross <= Limits.maxGross)
fits(s, budget, lots) == Within(costOf(s, lots), budget)

(* Mutant: the midpoint of the other bisection, which stops a lot early. *)
mostLotsLow(s, budget) ==
  LET top == (PUBLIC_SUPPLY - s) \div LOT_TOKENS
      search[lo \in 0 .. top, hi \in 0 .. top] ==
        IF lo + 1 >= hi THEN lo
        ELSE LET mid == (lo + hi) \div 2
             IN  IF fits(s, budget, mid) THEN search[mid, hi] ELSE search[lo, mid]
  IN  search[0, Least(top, Limits.maxLots)]

mostLots(s, budget) ==
  LET top == (PUBLIC_SUPPLY - s) \div LOT_TOKENS
      search[lo \in 0 .. top, hi \in 0 .. top] ==
        IF lo >= hi THEN lo
        ELSE LET mid == (lo + hi + 1) \div 2
             IN  IF fits(s, budget, mid) THEN search[mid, hi] ELSE search[lo, mid - 1]
  IN  search[0, Least(top, Limits.maxLots)]

(* The fewest lots whose curve price meets the minimum mint. *)
minLots(s) ==
  LET top == (PUBLIC_SUPPLY - s) \div LOT_TOKENS
      search[a \in 1 .. top, b \in 1 .. top] ==
        IF a >= b THEN a
        ELSE LET m == (a + b) \div 2
             IN  IF costOf(s, m).gross >= Limits.minGross
                 THEN search[a, m] ELSE search[m + 1, b]
  IN  search[1, top]

TotalOf(cost) == IF cost.gross >= Limits.minGross THEN cost.total ELSE null
minSpendSats(s) ==
  IF PUBLIC_SUPPLY - s < LOT_TOKENS THEN null ELSE TotalOf(costOf(s, minLots(s)))

limitedBy(s, budget, lots) ==
  IF s + lots * LOT_TOKENS = PUBLIC_SUPPLY THEN "supply"
  ELSE IF lots = Limits.maxLots \/ costOf(s, lots + 1).total <= budget
       THEN "per-mint limit" ELSE "budget"

Answer(s, budget, lots) ==
  IF lots = 0 \/ costOf(s, lots).gross < Limits.minGross
  THEN [lots |-> 0, limitedBy |-> "budget"]
  ELSE [lots |-> lots, limitedBy |-> limitedBy(s, budget, lots)]
quoteBuyForSats(s, budget) == Answer(s, budget, mostLots(s, budget))

-----------------------------------------------------------------------------
(* Best execution: the routes to n tokens cheapest first, and the way out *)

p2pFee(price) == deterministicFee(price, Fees.p2pFeeBps, 0, Fees.p2pFeeMinSats)

(* sort is stable: the vault comes before listings of the same cost. *)
getBuyRoutes(s, n) ==
  LET g == grossBuy(s, n)
      vault == IF n > 0 /\ s + n <= PUBLIC_SUPPLY
               THEN <<[kind |-> "backing", cost |-> g + mintFeeSats(g, n) + creatorFeeSats(g)]>>
               ELSE <<>>
      p2p == {[kind |-> "p2p", cost |-> l.price + p2pFee(l.price)] :
                l \in {l \in Listings : l.amount = n}}
      cheaper == {r \in p2p : vault # <<>> /\ r.cost < vault[1].cost}
      sorted(S) == SetToSortSeq(S, LAMBDA a, b : a.cost < b.cost)
  IN  sorted(cheaper) \o vault \o sorted(p2p \ cheaper)

(* The redeem quote of getSellOptions for a whole balance, or null. *)
redeemQuote(s, balance) ==
  IF balance > 0 /\ balance <= s THEN quoteRedeemNet(s, balance) ELSE null

-----------------------------------------------------------------------------
(* The vault and its holders *)

VARIABLES supply,    \* issuedPublicSupplyAtoms, in tokens
          backing,   \* backingSats
          held,      \* the tokens of each holder
          spent,     \* what each holder has paid less what it was paid
          taken,     \* protocol and creator fees paid so far
          trades     \* trades so far

vars == <<supply, backing, held, spent, taken, trades>>

Init ==
  /\ supply = 0 /\ backing = 0 /\ taken = 0 /\ trades = 0
  /\ held = [h \in Holder |-> 0]
  /\ spent = [h \in Holder |-> 0]

Mint(h, n) ==
  LET g == grossBuy(supply, n)
      fee == mintFeeSats(g, n) + creatorFeeSats(g)
  IN  /\ trades < MaxTrades
      /\ n % LOT_TOKENS = 0
      /\ CanBuy(supply, n)
      /\ supply' = supply + n
      /\ backing' = backing + g
      /\ held' = [held EXCEPT ![h] = @ + n]
      /\ spent' = [spent EXCEPT ![h] = @ + g + fee]
      /\ taken' = taken + fee
      /\ trades' = trades + 1

Redeem(h, n) ==
  LET g == grossRedeem(supply, n)
  IN  /\ trades < MaxTrades
      /\ n % LOT_TOKENS = 0 /\ n <= held[h]
      /\ CanRedeem(supply, n)
      /\ \E kind \in {"p2wpkh", "p2tr"} : isPayable(supply, n, kind)
      /\ supply' = supply - n
      /\ backing' = backing - g
      /\ held' = [held EXCEPT ![h] = @ - n]
      /\ spent' = [spent EXCEPT ![h] = @ - quoteRedeemNet(supply, n)]
      /\ taken' = taken + redeemFeeSats(g)
      /\ trades' = trades + 1

Next == \E h \in Holder, n \in 1 .. PUBLIC_SUPPLY : Mint(h, n) \/ Redeem(h, n)

Spec == Init /\ [][Next]_vars

-----------------------------------------------------------------------------
(* Properties *)

TypeOK ==
  /\ supply \in 0 .. PUBLIC_SUPPLY
  /\ backing \in Nat /\ taken \in Nat /\ trades \in 0 .. MaxTrades
  /\ held \in [Holder -> 0 .. PUBLIC_SUPPLY]
  /\ spent \in [Holder -> Int]

Total(f) ==
  LET sum[S \in SUBSET Holder] ==
        IF S = {} THEN 0 ELSE LET h == CHOOSE h \in S : TRUE
                              IN  f[h] + sum[S \ {h}]
  IN  sum[Holder]

(* The routes come cheapest first and miss none; the vault's is offered    *)
(* for exactly the lots a mint accepts, at what that mint will charge      *)
(* beside the carrier; and no holder can sell back its balance for more    *)
(* than the same tokens cost from the supply below it: a round trip        *)
(* through the quotes loses (best-execution.ts:82-86).                     *)
BestRoute ==
  /\ \A n \in 1 .. PUBLIC_SUPPLY : n % LOT_TOKENS = 0 =>
       \A r \in {getBuyRoutes(supply, n)} :
       LET vault == {i \in DOMAIN r : r[i].kind = "backing"}
       IN  /\ \A i, j \in DOMAIN r : i < j => r[i].cost <= r[j].cost
           /\ \A l \in Listings : l.amount = n => r # <<>> /\ r[1].cost <= l.price + p2pFee(l.price)
           /\ vault # {} <=> CanBuy(supply, n)
           /\ \A i \in vault : r[i].cost + CARRIER_SATS = costOf(supply, n \div LOT_TOKENS).total
  /\ \A h \in Holder : held[h] > 0 =>
       \A r \in ToSet(getBuyRoutes(supply - held[h], held[h])),
          out \in {redeemQuote(supply, held[h])} :
         r.kind = "backing" => out # null /\ out < r.cost

(* After any sequence of mints and sell-backs the vault holds exactly the  *)
(* reserve of the supply, the holders own exactly the supply, and what     *)
(* they have paid is in the vault or was a fee: no path through the curve  *)
(* leaks or creates a sat (backing.ts: one R for both directions).         *)
Conservation ==
  /\ Total(held) = supply
  /\ backing = requiredBackingSats(supply)
  /\ Total(spent) = backing + taken

(* From any supply the curve reaches, the V1 quote, the fresh walk and the *)
(* reserve difference price every number of lots alike, although each      *)
(* rounds in other places (backing.ts:80-84), and the whole supply raises  *)
(* the theoretical full raise.                                             *)
LotPricesAgree(s) ==
  /\ \A n \in 1 .. PUBLIC_SUPPLY - s :
       n % LOT_TOKENS = 0 =>
         /\ grossBuy(s, n) = costToBuy(s, n)
         /\ grossBuy(s, n) = quoteExactTokens(s, n)
  /\ requiredBackingSats(PUBLIC_SUPPLY) = getTheoreticalFullRaise

Budgets == {1, 300, 1500, 6000, 7000, 8000, 9500, 12000, 20000}

(* The EXACT_SATS quote never overspends, charges what the EXACT_TOKENS    *)
(* quote charges for the same tokens, and one token more would cost more   *)
(* than the sats offered, from any supply, lot or not.                     *)
ExactSatsIsMost(s) ==
  \A t \in s .. Least(s + LOT_TOKENS, PUBLIC_SUPPLY) - 1, sats \in Budgets :
    \A q \in {quoteExactSats(t, sats)} :
        /\ q.curveContributionSats <= sats
        /\ quoteExactTokens(t, q.tokens) = q.curveContributionSats
        /\ t + q.tokens < PUBLIC_SUPPLY => quoteExactTokens(t, q.tokens + 1) > sats

(* quoteBuyForSats returns the most lots that the budget, the per-mint     *)
(* limits and the supply allow (or nothing when that is below the minimum  *)
(* mint), although fees have floors and flat parts; and when the minimum   *)
(* mint is within the limits, minSpendSats is the least budget that buys.  *)
BuysMost(s, b, q, allowed) ==
  /\ q.lots = 0 <=> \A k \in allowed : costOf(s, k).gross < Limits.minGross
  /\ q.lots > 0 => q.lots \in allowed /\ \A k \in allowed : k <= q.lots
  /\ q.lots > 0 /\ q.limitedBy # "budget" => quoteBuyForSats(s, 2 * b).lots = q.lots

BudgetBuysMost(s) ==
  LET top == Least((PUBLIC_SUPPLY - s) \div LOT_TOKENS, Limits.maxLots)
  IN  \A b \in Budgets :
        /\ BuysMost(s, b, quoteBuyForSats(s, b), {k \in 1 .. top : fits(s, b, k)})
        /\ \A min \in {minSpendSats(s)} :
             (min # null /\ minLots(s) <= top /\ fits(s, min, minLots(s)))
               => (quoteBuyForSats(s, b).lots > 0 <=> b >= min)

(* No mint and no sell-back the quotes allow has a fee output below the    *)
(* relay dust limit: the mint fee and the sell-back fee to any script, the *)
(* creator's share to every script a creator can have (fee.ts:133-138),    *)
(* and the smallest gross with a standard percentage fee is the smallest.  *)
FeeOutputsRelay(s) ==
  \A kind \in DOMAIN Script :
    /\ \A n \in 1 .. PUBLIC_SUPPLY - s :
         n % LOT_TOKENS = 0 =>
           /\ mintFeeSats(grossBuy(s, n), n) >= dustThreshold(kind)
           /\ isCreatorScript(kind) =>
                creatorFeeSats(grossBuy(s, n)) >= dustThreshold(kind)
    /\ \A n \in 1 .. s :
         redeemFeeSats(grossRedeem(s, n)) >= dustThreshold(kind)
    /\ LET g == minimumGrossForStandardFee(kind, Fees.redeemFeeBps)
       IN  /\ deterministicFee(g, Fees.redeemFeeBps, 0, 0) >= dustThreshold(kind)
           /\ deterministicFee(g - 1, Fees.redeemFeeBps, 0, 0) < dustThreshold(kind)

(* On every candidate curve a buyer cannot pay less by splitting a buy,    *)
(* and pays at most one sat more per extra rounding (curve.ts:18-19).      *)
SplittingNeverPays(s) ==
  \A a \in 1 .. PUBLIC_SUPPLY - s : \A b \in 1 .. PUBLIC_SUPPLY - s - a :
    \A split \in {<<costToBuy(s, a) + costToBuy(s + a, b), costToBuy(s, a + b)>>,
                  <<linearCost(s, a) + linearCost(s + a, b), linearCost(s, a + b)>>,
                  <<quadraticCost(s, a) + quadraticCost(s + a, b), quadraticCost(s, a + b)>>,
                  <<twoSegmentCost(s, a) + twoSegmentCost(s + a, b), twoSegmentCost(s, a + b)>>} :
      split[1] - split[2] \in 0 .. 2

(* All of this at one supply.  One mint reaches every supply of whole lots, *)
(* so it is evaluated in the states at most one trade away from Init.      *)
QuotesAgree ==
  trades <= 1 =>
    /\ LotPricesAgree(supply) /\ ExactSatsIsMost(supply) /\ BudgetBuysMost(supply)
    /\ FeeOutputsRelay(supply) /\ SplittingNeverPays(supply)
=============================================================================
