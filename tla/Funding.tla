------------------------------- MODULE Funding -------------------------------
(***************************************************************************)
(* Which coins pay for a Cove transaction, and at which miner fee.         *)
(*                                                                         *)
(*   packages/cove-app/src/service.ts    feeRates, resolveFundingAndFee    *)
(*   packages/cove-app/src/fees.ts       the shape of each operation       *)
(*   packages/cove-app/src/funding.ts    resolveFundingUtxo                *)
(*   packages/bitcoin/src/fees.ts        vbytes, tiers, resolveMinerFee    *)
(*   packages/cove-guardian/src/v3/funding.ts   the Guardian's checker     *)
(*                                                                         *)
(* A request is a wallet's build: the app resolves the coins it was        *)
(* offered, looks for token carriers among them, loads the fee rates,      *)
(* picks, and asks ord about each coin it picked; every one of these is an *)
(* await, and the chain, the index and the mempool floor may move during   *)
(* it.  For the two vault operations the Guardian then checks every        *)
(* funding input again.  Sizes are vbytes and values sats, the real ones.  *)
(***************************************************************************)
EXTENDS Integers, Sequences, SequencesExt, FiniteSets

CONSTANTS Coin,            \* the wallet's outputs, totally ordered by CoinOrder
          CoinOrder,       \* the coins as a sequence, by txid and vout
          Value,           \* sats of each coin
          Carrier,         \* coins that carry tokens
          Asset,           \* coins that hold inscriptions or runes, per ord
          Requests,        \* what wallets ask for: operation, target, shape, rate
          NodeRates,       \* what the node may answer: [floor, eco, standard, priority]
          MaxMinerFee,     \* config.maxMinerFeeSats
          MaxMoves         \* bound on the moves of the chain and the mempool

null == -1
ops == {"DEPLOY", "BACKING_BUY", "REDEEM", "TRANSFER"}
vaultOp(op) == op \in {"BACKING_BUY", "REDEEM"}

-----------------------------------------------------------------------------
(* Sizes *)

VB_INPUT == [p2wpkh |-> 68, p2tr |-> 58, p2shp2wpkh |-> 91, vault |-> 100]
VB_TX_OVERHEAD == 11
SCRIPT_BYTES == [p2wpkh |-> 22, p2tr |-> 34, p2shp2wpkh |-> 23]
OP_RETURN_SCRIPT_BYTES ==
  [DEPLOY |-> 50, BACKING_BUY |-> 47, REDEEM |-> 56, TRANSFER |-> 75]

Sum(s) == FoldLeft(LAMBDA a, b : a + b, 0, s)

estimateVsize(vaults, funders, pay, tokens, tokenKind, scripts) ==
  VB_TX_OVERHEAD + vaults * VB_INPUT.vault + funders * VB_INPUT[pay]
    + tokens * VB_INPUT[tokenKind] + Sum(scripts) + 9 * Len(scripts)

(* The outputs the estimate assumes; the change is always among them.  r   *)
(* is a request: pay and ord are the kinds of its two addresses.           *)
estimateOutputs(r) ==
  LET wallet == SCRIPT_BYTES[r.pay]
      carrier == SCRIPT_BYTES[r.ord]
      tr == SCRIPT_BYTES.p2tr
  IN  <<OP_RETURN_SCRIPT_BYTES[r.op]>> \o
      CASE r.op = "DEPLOY" -> <<tr, wallet, wallet>>
        [] r.op = "BACKING_BUY" -> <<tr, carrier, tr, tr, wallet>>
        [] r.op = "REDEEM" -> <<tr, wallet, tr, carrier, wallet>>
        [] r.op = "TRANSFER" -> [i \in 1 .. r.tokenOutputs |-> carrier] \o <<carrier, wallet>>

estimateOperationVsize(r, funders) ==
  estimateVsize(IF vaultOp(r.op) THEN 1 ELSE 0, funders, r.pay,
                r.tokenInputs, r.ord, estimateOutputs(r))

(* The script of the envelope the encoders of codecV2.ts produce: a ticker *)
(* of r.ticker letters, one allocation for each token output.              *)
envelopeScriptBytes(r) ==
  2 + CASE r.op = "DEPLOY" -> 38 + r.ticker
        [] r.op = "BACKING_BUY" -> 45
        [] r.op = "REDEEM" -> 45 + 9 * r.tokenOutputs
        [] r.op = "TRANSFER" -> 37 + 9 * r.tokenOutputs

(* The outputs the builders of builder.ts produce, without the discovery   *)
(* envelope, when the change is worth an output.  to is the kind of a      *)
(* recipient's address and creator that of the creator's.                  *)
builtOutputs(r) ==
  LET wallet == SCRIPT_BYTES[r.pay]
      carrier == SCRIPT_BYTES[r.ord]
      tr == SCRIPT_BYTES.p2tr
  IN  <<envelopeScriptBytes(r)>> \o
      CASE r.op = "DEPLOY" -> <<tr, wallet, wallet>>
        [] r.op = "BACKING_BUY" -> <<tr, carrier, tr, SCRIPT_BYTES[r.creator], wallet>>
        [] r.op = "REDEEM" -> <<tr, wallet, tr>> \o
             (IF r.tokenOutputs = 1 THEN <<carrier>> ELSE <<>>) \o <<wallet>>
        [] r.op = "TRANSFER" ->
             <<SCRIPT_BYTES[r.to]>> \o
             (IF r.tokenOutputs = 2 THEN <<carrier>> ELSE <<>>) \o <<wallet>>

builtVsize(r, funders) ==
  estimateVsize(IF vaultOp(r.op) THEN 1 ELSE 0, funders, r.pay,
                r.tokenInputs, r.ord, builtOutputs(r))

-----------------------------------------------------------------------------
(* Fee rates *)

ABSOLUTE_FLOOR_SAT_PER_VB == 1
ABSOLUTE_CEILING_SAT_PER_VB == 500
TIERS == <<"eco", "standard", "priority">>
FALLBACK_SAT_PER_VB == [eco |-> 2, standard |-> 5, priority |-> 10]

(* n is what the node answers; null is an RPC that failed. *)
loadFeeRates(n) ==
  LET floor == IF n.floor > ABSOLUTE_FLOOR_SAT_PER_VB THEN n.floor
               ELSE ABSOLUTE_FLOOR_SAT_PER_VB
      asked(k) == IF n[k] = null THEN FALLBACK_SAT_PER_VB[k] ELSE n[k]
      low(r) == IF r < floor THEN floor ELSE r
      clamp(k) == IF low(asked(k)) > ABSOLUTE_CEILING_SAT_PER_VB
                  THEN ABSOLUTE_CEILING_SAT_PER_VB ELSE low(asked(k))
      most(a, b) == IF a < b THEN b ELSE a
      eco == clamp("eco")
      standard == most(eco, clamp("standard"))
  IN  [floor |-> floor, eco |-> eco, standard |-> standard,
       priority |-> most(standard, clamp("priority"))]

(* resolveMinerFee: the fee, or the reason it is refused.  r.rate is the   *)
(* rate the user picked and r.explicit the sats a caller sized itself;     *)
(* with neither, service.ts takes the Standard tier.                       *)
resolveMinerFee(r, rates, vsize) ==
  LET rate == IF r.rate \in {"eco", "standard", "priority"} THEN rates[r.rate]
              ELSE IF r.explicit = null THEN rates.standard ELSE null
      fee == IF rate # null THEN rate * vsize ELSE r.explicit
      effective == fee \div vsize
  IN  IF effective < rates.floor THEN [ok |-> FALSE, code |-> "MINER_FEE_TOO_LOW"]
      ELSE IF effective > ABSOLUTE_CEILING_SAT_PER_VB \/ fee > MaxMinerFee
           THEN [ok |-> FALSE, code |-> "MINER_FEE_TOO_HIGH"]
      ELSE [ok |-> TRUE, fee |-> fee]

priceAt(r, rates, funders) ==
  resolveMinerFee(r, rates, estimateOperationVsize(r, funders))

-----------------------------------------------------------------------------
(* Picking *)

(* The first k coins of S: largest first, ties by txid and vout. *)
before(a, b) ==
  \/ Value[a] > Value[b]
  \/ Value[a] = Value[b] /\ \E i, j \in 1 .. Len(CoinOrder) :
       i < j /\ CoinOrder[i] = a /\ CoinOrder[j] = b
largestFirst(S, k) == {c \in S : Cardinality({d \in S : before(d, c)}) < k}

Total(S) == MapThenSumSet(LAMBDA c : Value[c], S)

(* The loop of resolveFundingAndFee over the sorted coins: it stops at the *)
(* first prefix that covers the target and its own fee, and at the first   *)
(* size whose fee is refused.                                              *)
pick(r, rates, S) ==
  LET sized(k) == priceAt(r, rates, k)
      enough(k) == sized(k).ok /\ Total(largestFirst(S, k)) >= r.target + sized(k).fee
      stops == {k \in 1 .. Cardinality(S) : enough(k) \/ ~sized(k).ok}
      first == CHOOSE k \in stops : \A j \in stops : k <= j
  IN  IF ~sized(0).ok THEN [ok |-> FALSE, code |-> sized(0).code]
      ELSE IF r.target + sized(0).fee <= 0
           THEN [ok |-> TRUE, chosen |-> {}, fee |-> sized(0).fee]
      ELSE IF stops = {} THEN [ok |-> FALSE, code |-> "INSUFFICIENT_BTC"]
      ELSE IF ~sized(first).ok THEN [ok |-> FALSE, code |-> sized(first).code]
      ELSE [ok |-> TRUE, chosen |-> largestFirst(S, first), fee |-> sized(first).fee]

-----------------------------------------------------------------------------
VARIABLES conf,      \* the confirmed coins, per Core
          unspent,   \* the coins gettxout still finds (mempool included)
          indexed,   \* the carriers the V3 index knows to be live
          node,      \* what the node answers about fees now
          cache,     \* feeRatesCache: the rates, or null; stale ones are dropped
          req,       \* the build in flight
          moves,     \* moves of chain, index and mempool so far
          stale      \* history: coins that moved since they were last looked at

env == <<conf, unspent, indexed, node, moves>>
vars == <<conf, unspent, indexed, node, cache, req, moves, stale>>

NoRates == [floor |-> null]

(* The build in flight: its request r, the coins it was offered, those     *)
(* resolved so far and which of them were confirmed, its rates, the coins  *)
(* skipped for what they hold, the pick being asked about, and the coins   *)
(* of it already found clean (by ord, then by the Guardian).  ords are the *)
(* services it meets that have an ord server: each of them may lack one    *)
(* outside mainnet.                                                        *)
Start(r, offered, ords) ==
  [phase |-> "resolve", r |-> r, offered |-> offered, ords |-> ords, resolved |-> {},
   confirmed |-> {}, rates |-> NoRates, skipped |-> {}, clean |-> {}, pick |-> [ok |-> FALSE, code |-> "none"],
   since |-> moves]

Idle == [phase |-> "idle"]

Init ==
  /\ conf \in {Coin, Coin \ {Head(CoinOrder)}}
  /\ unspent = Coin
  /\ indexed = Carrier \cap conf
  /\ node \in NodeRates
  /\ cache = NoRates
  /\ req = Idle
  /\ moves = 0
  /\ stale = {}

Refuse(code) == req' = [req EXCEPT !.phase = "refused", !.pick = [ok |-> FALSE, code |-> code]]

Services(r) == {"app"} \cup (IF vaultOp(r.op) THEN {"guardian"} ELSE {})

Request(r, offered, ords) ==
  /\ req.phase = "idle"
  /\ req' = Start(r, offered, ords)
  /\ UNCHANGED <<env, cache>>

(* The refusal, or the built transaction, is returned. *)
Answer ==
  /\ req.phase \in {"refused", "accepted"}
  /\ req' = Idle
  /\ UNCHANGED <<env, cache>>

(* resolveFundingUtxo for one of the coins offered; all are in flight at   *)
(* once (Promise.all).                                                     *)
ResolveUtxo(c) ==
  /\ req.phase = "resolve" /\ c \in req.offered \ req.resolved
  /\ IF c \notin unspent THEN Refuse("FUNDING_INPUT_SPENT")
     ELSE req' = [req EXCEPT !.resolved = @ \cup {c},
                             !.confirmed = IF c \in conf THEN @ \cup {c} ELSE @]
  /\ UNCHANGED <<env, cache>>

CheckCarriers ==
  /\ req.phase = "resolve" /\ req.resolved = req.offered
  /\ IF req.offered \cap indexed # {} THEN Refuse("FUNDING_INPUT_IS_TOKEN")
     ELSE req' = [req EXCEPT !.phase = "rates"]
  /\ UNCHANGED <<env, cache>>

(* The coins the picker may use, by what the request resolved. *)
usable ==
  (IF vaultOp(req.r.op) THEN req.confirmed ELSE req.resolved) \ req.skipped

(* feeRates, from the cache or the node, and the first pick. *)
LoadRates ==
  /\ req.phase = "rates"
  /\ LET rates == IF cache = NoRates THEN loadFeeRates(node) ELSE cache
         p == pick(req.r, rates, usable)
     IN  /\ cache' = rates
         /\ req' = [req EXCEPT !.rates = rates, !.pick = p,
                               !.phase = IF p.ok THEN "assets" ELSE "refused"]
  /\ UNCHANGED env

(* The coins the ord server of a service names something on; without one   *)
(* there is nothing to ask, and no coin is known to hold anything.         *)
OrdNames(service) == IF service \in req.ords THEN Asset ELSE {}

(* Mutant: a coin ord names something on is taken all the same. *)
AskOrdTrusting(c) ==
  /\ req.phase = "assets" /\ c \in req.pick.chosen \ req.clean
  /\ req' = [req EXCEPT !.clean = @ \cup {c}]
  /\ UNCHANGED <<env, cache>>

(* assetsAt for the next coin of the pick; a coin that holds something     *)
(* means picking again without it.                                         *)
AskOrd(c) ==
  /\ req.phase = "assets" /\ c \in req.pick.chosen \ req.clean
  /\ IF c \in OrdNames("app")
     THEN LET p == pick(req.r, req.rates, usable \ {c})
          IN  req' = [req EXCEPT !.skipped = @ \cup {c}, !.clean = {}, !.pick = p,
                                 !.phase = IF p.ok THEN "assets" ELSE "refused"]
     ELSE req' = [req EXCEPT !.clean = @ \cup {c}]
  /\ UNCHANGED <<env, cache>>

AskOrdFails ==
  /\ req.phase = "assets" /\ req.pick.chosen # req.clean /\ "app" \in req.ords
  /\ Refuse("FUNDING_CHECK_UNAVAILABLE")
  /\ UNCHANGED <<env, cache>>

Built ==
  /\ req.phase = "assets" /\ req.pick.chosen = req.clean
  /\ req' = [req EXCEPT !.phase = IF vaultOp(req.r.op) THEN "guardian" ELSE "accepted",
                        !.clean = {}]
  /\ UNCHANGED <<env, cache>>

(* chainFundingChecker for one input: unspent and confirmed, no carrier of *)
(* any token, nothing its ord knows of; every lookup that fails refuses.       *)
FundingVerdict(c) ==
  IF c \notin unspent \/ c \notin conf THEN "FUNDING_UNCONFIRMED"
  ELSE IF c \in indexed \/ c \in OrdNames("guardian") THEN "FUNDING_HOLDS_TOKEN"
  ELSE "ok"

GuardianChecks(c) ==
  /\ req.phase = "guardian" /\ c \in req.pick.chosen \ req.clean
  /\ \/ FundingVerdict(c) = "ok" /\ req' = [req EXCEPT !.clean = @ \cup {c}]
     \/ FundingVerdict(c) # "ok" /\ Refuse(FundingVerdict(c))
     \/ Refuse("FUNDING_CHECK_UNAVAILABLE")
  /\ UNCHANGED <<env, cache>>

Accept ==
  /\ req.phase = "guardian" /\ req.pick.chosen = req.clean
  /\ req' = [req EXCEPT !.phase = "accepted"]
  /\ UNCHANGED <<env, cache>>

(* External: blocks, reorgs, spends elsewhere, the index, the mempool. *)
Move ==
  /\ moves < MaxMoves
  /\ moves' = moves + 1
  /\ \/ \E c \in unspent \ conf : conf' = conf \cup {c} /\ UNCHANGED <<unspent, indexed, node>>
     \/ \E c \in conf \cap unspent :
          conf' = conf \ {c} /\ indexed' = indexed \ {c} /\ UNCHANGED <<unspent, node>>
     \/ \E c \in unspent :
          unspent' = unspent \ {c} /\ indexed' = indexed \ {c} /\ UNCHANGED <<conf, node>>
     \/ \E c \in (Carrier \cap conf \cap unspent) \ indexed :
          indexed' = indexed \cup {c} /\ UNCHANGED <<conf, unspent, node>>
     \/ node' \in NodeRates \ {node} /\ UNCHANGED <<conf, unspent, indexed>>
  /\ UNCHANGED <<cache, req>>

CacheExpires ==
  /\ cache # NoRates
  /\ cache' = NoRates
  /\ UNCHANGED <<env, req>>

(* The history: a coin is stale from a move that touches it until the next *)
(* look at it, the app's at all of them or the Guardian's at one.          *)
Remember ==
  LET touched == {c \in Coin : \/ (c \in conf) # (c \in conf')
                               \/ (c \in unspent) # (c \in unspent')
                               \/ (c \in indexed) # (c \in indexed')}
      checked == IF req.phase = "guardian" THEN req'.clean \ req.clean ELSE {}
  IN  stale' = IF req'.phase \in {"rates", "assets", "guardian", "accepted"}
               THEN (stale \cup touched) \ checked ELSE {}

Step ==
  \/ \E r \in Requests, offered \in SUBSET Coin :
       \E ords \in SUBSET Services(r) : Request(r, offered, ords)
  \/ \E c \in Coin : ResolveUtxo(c) \/ AskOrd(c) \/ GuardianChecks(c)
  \/ CheckCarriers \/ LoadRates \/ AskOrdFails \/ Built \/ Accept \/ Answer
  \/ Move \/ CacheExpires

Next == Step /\ Remember

Spec == Init /\ [][Next]_vars

-----------------------------------------------------------------------------
(* Properties *)

HasPick == req.phase \in {"assets", "guardian", "accepted"}

(* The request's coins and its pick stay within the coins offered.         *)
TypeOK ==
  /\ conf \subseteq Coin /\ unspent \subseteq Coin /\ indexed \subseteq Carrier
  /\ req.phase \in {"idle", "resolve", "rates", "assets", "guardian", "accepted", "refused"}
  /\ HasPick => /\ req.pick.chosen \subseteq req.resolved \ req.skipped
                /\ req.clean \subseteq req.pick.chosen
                /\ req.resolved = req.offered

(* Sets of usable coins that would pay for the request, as the app sees it.*)
Pays(S) ==
  LET p == priceAt(req.r, req.rates, Cardinality(S))
  IN  p.ok /\ Total(S) >= req.r.target + p.fee

(* A finished pick is no larger than any other set of coins that would     *)
(* have paid for the request at the size that set gives it, although each  *)
(* input raises the fee and coins are dropped on the way ("the smallest    *)
(* sufficient set of inputs", service.ts:542).                             *)
FewestInputs ==
  (req.phase \in {"guardian", "accepted"}) =>
    /\ req.pick.chosen # {} => Pays(req.pick.chosen)
    /\ \A S \in SUBSET (usable \ OrdNames("app")) :
         Pays(S) => Cardinality(req.pick.chosen) <= Cardinality(S)

(* A wallet is told it has too little only when no set of its usable coins *)
(* without assets, as far as it can ask, would have paid.                  *)
ShortfallIsReal ==
  (req.phase = "refused" /\ req.pick.code = "INSUFFICIENT_BTC") =>
    \A S \in SUBSET (usable \ OrdNames("app")) : ~Pays(S)

(* However the chain and the index move during a build: nothing that a     *)
(* service with an ord server was asked about is spent with an inscription *)
(* or rune on it; a token carrier is among the inputs of an accepted build *)
(* only if the index learned of it after the last look at it, the app's    *)
(* (service.ts:582) or for a vault operation the Guardian's; and a vault   *)
(* operation spends what is unconfirmed or spent only if it became so      *)
(* after the Guardian had checked that very coin.                          *)
NothingDestroyed ==
  (req.phase = "accepted") =>
    /\ req.pick.chosen \cap OrdNames("app") = {}
    /\ req.pick.chosen \cap indexed \subseteq stale
    /\ vaultOp(req.r.op) => /\ req.pick.chosen \cap OrdNames("guardian") = {}
                            /\ req.pick.chosen \ (conf \cap unspent) \subseteq stale

(* If nothing moves during a build, the Guardian refuses no coin the app   *)
(* picked, except when a lookup fails (service.ts:631: "skip it here so    *)
(* the user gets a build instead of a refusal") or when only the Guardian  *)
(* has an ord server to ask.                                               *)
AppAndGuardianAgree ==
  (req.phase = "refused" /\ moves = req.since) =>
    \/ req.pick.code \notin {"FUNDING_UNCONFIRMED", "FUNDING_HOLDS_TOKEN", "FUNDING_INPUT_SPENT"}
    \/ req.pick.code = "FUNDING_INPUT_SPENT" /\ req.offered \ unspent # {}
    \/ req.pick.code = "FUNDING_HOLDS_TOKEN" /\ req.offered \cap OrdNames("guardian") # {}
                                            /\ OrdNames("app") = {}

(* The letters of a long ticker that OP_RETURN_SCRIPT_BYTES leaves out.    *)
Uncounted(r) == IF r.op = "DEPLOY" /\ r.ticker > 10 THEN r.ticker - 10 ELSE 0

(* A tier the app offered is never refused as too low, tiers never fall as *)
(* they get faster, and the fee a build pays buys at least the floor it    *)
(* was given, over the size the builder really produces: paying for the    *)
(* estimate is never under-paying, but for one byte for each letter of a   *)
(* ticker after the tenth, which the estimate does not count (fees.ts:16). *)
FeeRelays ==
  /\ (req.phase = "refused" /\ req.pick.code = "MINER_FEE_TOO_LOW") =>
       req.r.explicit # null \/ req.rates.floor > ABSOLUTE_CEILING_SAT_PER_VB
  /\ HasPick =>
       /\ req.rates.eco <= req.rates.standard /\ req.rates.standard <= req.rates.priority
       /\ req.pick.fee >= req.rates.floor *
            (builtVsize(req.r, Cardinality(req.pick.chosen)) - Uncounted(req.r))
       /\ req.pick.fee <= MaxMinerFee
=============================================================================
