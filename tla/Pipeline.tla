------------------------------ MODULE Pipeline ------------------------------
(***************************************************************************)
(* One Cove transaction from the builder to the index.  Four pieces of     *)
(* code decide, each on its own, whether a transaction is a Cove           *)
(* operation:                                                              *)
(*                                                                         *)
(*   cove-guardian/src/v3/builder.ts    builds it                          *)
(*   cove-guardian/src/v3/analyze.ts, validate.ts   the Guardian, on the   *)
(*                                      PSBT, before it signs              *)
(*   cove-guardian/src/v3/finalize.ts   the app, on the signed transaction *)
(*   cove-indexer/src/v3/state.ts       the indexer, on the mined one      *)
(*                                      (CoveRules)                        *)
(*                                                                         *)
(* The wallet in the browser (wallets/src/cove-intent.ts) is a fifth: it   *)
(* signs what it was told the transaction does, or declines.               *)
(*                                                                         *)
(* Users build from the app's view of a token (the index, with the pending *)
(* vault transitions laid over it), or fill another user's ask; they may   *)
(* be handed, or ask the Guardian to sign, something else than what was    *)
(* built, and their transactions are mined in any order Bitcoin allows.    *)
(* Here a transaction has its outputs and their values; ForIndex gives the *)
(* transaction CoveRules knows.                                            *)
(***************************************************************************)
EXTENDS CoveRules, Sequences, SequencesExt

CONSTANTS User,
          Coins,          \* the BTC outputs of each user: [out, value] records
          Maker,          \* Maker[t]: the user who creates token t
          MintFee(_, _),  \* mintFeeSats(gross, n), creatorFeeSats, redeemFeeSats
          CreatorFee(_),
          RedeemFee(_),
          Dust,           \* dustThreshold, by kind of script
          Carrier,        \* TOKEN_CARRIER_SATS
          CreatorRecord,  \* CREATOR_RECORD_SATS
          MinerFees,      \* the miner fees users pick
          MaxMinerFee,    \* maxMinerFeeSats
          MaxTokenInputs, \* MAX_REDEEM_TOKEN_INPUTS, MAX_TRANSFER_TOKEN_INPUTS
          Amounts,        \* the amounts users ask for
          P2PFee(_),      \* marketFeeFor(price)
          Prices,         \* the prices sellers ask
          Seed,           \* initial index states: [idx, own]
          Fresh           \* the ids of the transactions still to be made

(* Transaction ids are hashes; coins are outputs of transactions that were *)
(* there before, and no carriers; an index to start from holds carriers of *)
(* deployed tokens apart from vaults and coins.                            *)
CoinOuts == {c.out : c \in UNION {Coins[u] : u \in User}}
Sound ==
  /\ IsFiniteSet(TxId) /\ Fresh \subseteq TxId /\ Amounts \subseteq Amount
  /\ \A u \in User : IsFiniteSet(Coins[u])
  /\ \A o \in CoinOuts : o[1] \notin Fresh
  /\ \A s \in Seed :
       /\ IsMap(s.idx.backing, Token, Backing) /\ IsMap(s.idx.utxos, Outpoint, Utxo)
       /\ s.idx = [backing |-> s.idx.backing, utxos |-> s.idx.utxos]
       /\ DOMAIN s.own = DOMAIN s.idx.utxos
       /\ \A o \in DOMAIN s.idx.utxos :
            /\ o[1] \notin Fresh /\ o \notin CoinOuts
            /\ s.idx.utxos[o].token \in DOMAIN s.idx.backing
       /\ \A t \in DOMAIN s.idx.backing :
            s.idx.backing[t].out[1] \notin Fresh /\ s.idx.backing[t].out \notin DOMAIN s.idx.utxos

VARIABLES idx,     \* the index: the confirmed state of CoveRules
          own,     \* whose script each live carrier is at
          pool,    \* broadcast transactions that are not mined
          spent,   \* outputs spent by broadcast or mined transactions
          req,     \* req[u]: the request of user u
          mined    \* what became of each mined transaction

vars == <<idx, own, pool, spent, req, mined>>

-----------------------------------------------------------------------------
(* Scripts, outputs, transactions *)

Script(kind, who) == [kind |-> kind, who |-> who, token |-> NoToken, supply |-> 0]
VaultScript(t, n) == [kind |-> "vault", who |-> "vault", token |-> t, supply |-> n]
OpReturn == Script("opreturn", "none")
FeeScript == Script("p2tr", "protocol")
Payment(u) == Script("p2wpkh", u)
Ordinals(u) == Script("p2tr", u)
Out(script, value) == [script |-> script, value |-> value]
NoOut == Out(Script("none", "none"), 0)

isStandardCarrier(s) == s.kind \in {"p2tr", "p2wpkh"}
isCreatorScript(s) == s.kind \in {"p2tr", "p2wpkh", "p2sh"}

OutAt(tx, v) == IF v < Len(tx.outs) THEN tx.outs[v + 1] ELSE NoOut
SumOf(s) == FoldLeft(LAMBDA a, x : a + x.value, 0, s)
InputsOf(tx) == {tx.ins[i].out : i \in DOMAIN tx.ins}
HasEnvelope(tx) == OutAt(tx, 0).script = OpReturn
minerFeeSats(tx) == SumOf(tx.ins) - SumOf(tx.outs)
CarriesTokens(o) == o.value = Carrier /\ isStandardCarrier(o.script)
Gross(from, to) == IF from < to THEN R[to] - R[from] ELSE R[from] - R[to]

(* The fee, creator and payout outputs the indexer checks against the      *)
(* supply it has; the id of a new token commits to its creator output.     *)
IndexerPays(tx, s) ==
  CASE tx.kind = "DEPLOY" ->
         /\ OutAt(tx, 2).value = CreatorRecord /\ isCreatorScript(OutAt(tx, 2).script)
         /\ OutAt(tx, 2).script = Payment(Maker[tx.token])
    [] tx.kind = "MINT" /\ s + tx.amount <= MaxSupply ->
         /\ OutAt(tx, 3) = Out(FeeScript, MintFee(Gross(s, s + tx.amount), tx.amount))
         /\ OutAt(tx, 4) = Out(Payment(Maker[tx.token]), CreatorFee(Gross(s, s + tx.amount)))
    [] tx.kind = "REDEEM" /\ tx.amount <= s ->
         LET gross == Gross(s, s - tx.amount)
         IN  /\ OutAt(tx, 2).value = gross - RedeemFee(gross)
             /\ OutAt(tx, 3) = Out(FeeScript, RedeemFee(gross))
    [] OTHER -> TRUE

(* The transaction as the rules of the indexer, in state s, see it. *)
ForIndex(tx, s) ==
  [id |-> tx.id, kind |-> IF HasEnvelope(tx) THEN tx.kind ELSE "NON_COVE", in0 |-> Head(tx.ins).out, ins |-> InputsOf(tx),
   token |-> tx.token, amount |-> tx.amount, to |-> tx.to, allocs |-> tx.allocs,
   vault |-> [token |-> OutAt(tx, 1).script.token, supply |-> OutAt(tx, 1).script.supply,
              value |-> OutAt(tx, 1).value],
   carriers |-> {v \in Vout : CarriesTokens(OutAt(tx, v))},
   pays |-> IndexerPays(tx, IF tx.token \in DOMAIN s.backing
                            THEN s.backing[tx.token].supply ELSE 0)]

-----------------------------------------------------------------------------
(* The builders.  A build that throws has no transaction. *)

Thrown == [ok |-> FALSE]
Tx(id, kind, token, amount, to, allocs, leaf, ins, outs) ==
  [id |-> id, kind |-> kind, token |-> token, amount |-> amount, to |-> to,
   allocs |-> allocs, leaf |-> leaf, ins |-> ins, outs |-> outs]

(* Change below its dust limit is left to the miner. *)
addChangeOrAbsorb(outs, script, change) ==
  IF change >= Dust[script.kind] THEN Append(outs, Out(script, change)) ELSE outs

Finish(id, kind, token, amount, to, allocs, leaf, ins, outs, u, fee) ==
  LET change == SumOf(ins) - SumOf(outs) - fee
  IN  IF change < 0 THEN Thrown
      ELSE [ok |-> TRUE,
            tx |-> Tx(id, kind, token, amount, to, allocs, leaf, ins,
                      addChangeOrAbsorb(outs, Payment(u), change))]

buildDeployPsbtV3(id, t, u, coins, fee) ==
  Finish(id, "DEPLOY", t, 1, 1, Nothing, "none", coins,
         <<Out(OpReturn, 0), Out(VaultScript(t, 0), Anchor),
           Out(Payment(Maker[t]), CreatorRecord)>>, u, fee)

VaultIn(b) == <<[out |-> b.out, value |-> b.value, who |-> "vault"]>>

buildMintPsbtV3(id, t, b, n, u, coins, fee) ==
  LET gross == Gross(b.supply, b.supply + n)
  IN  IF ~MintAllowed(b, n) THEN Thrown
      ELSE Finish(id, "MINT", t, n, 2, Nothing, "mint", VaultIn(b) \o coins,
             <<Out(OpReturn, 0), Out(VaultScript(t, b.supply + n), Anchor + R[b.supply + n]),
               Out(Ordinals(u), Carrier), Out(FeeScript, MintFee(gross, n)),
               Out(Payment(Maker[t]), CreatorFee(gross))>>, u, fee)

(* carriers is a sequence of token inputs, held the atoms on them; change  *)
(* must fit the envelope.                                                  *)
buildRedeemPsbtV3(id, t, b, n, u, carriers, held, coins, fee) ==
  LET gross == Gross(b.supply, b.supply - n)
      change == held - n
  IN  IF ~RedeemAllowed(b, n) \/ change \notin 0 .. MaxAmount THEN Thrown
      ELSE Finish(id, "REDEEM", t, n, 1,
             IF change > 0 THEN [v \in {4} |-> change] ELSE Nothing, "redeem",
             VaultIn(b) \o carriers \o coins,
             <<Out(OpReturn, 0), Out(VaultScript(t, b.supply - n), Anchor + R[b.supply - n]),
               Out(Payment(u), gross - RedeemFee(gross)), Out(FeeScript, RedeemFee(gross))>>
               \o (IF change > 0 THEN <<Out(Ordinals(u), Carrier)>> ELSE <<>>), u, fee)

(* from sends n atoms to `to`, u pays the fee and the BTC outputs. *)
buildTransferPsbtV2(id, t, n, from, to, carriers, held, u, coins, btcOutputs, fee) ==
  LET change == held - n
  IN  IF change \notin 0 .. MaxAmount THEN Thrown
      ELSE Finish(id, "TRANSFER", t, n, 1,
             [v \in (IF change > 0 THEN {1, 2} ELSE {1}) |-> IF v = 1 THEN n ELSE change],
             "none", carriers \o coins,
             <<Out(OpReturn, 0), Out(Ordinals(to), Carrier)>>
               \o (IF change > 0 THEN <<Out(Ordinals(from), Carrier)>> ELSE <<>>)
               \o btcOutputs, u, fee)

-----------------------------------------------------------------------------
(* The Guardian: analyze and validate, on the PSBT and a view.  A view is  *)
(* an index state restricted to the token's own backing and carriers.      *)

(* input 0 is the canonical vault input: outpoint, leaf, value. *)
GuardianBacking(tx, b, leaf) ==
  /\ Head(tx.ins).out = b.out
  /\ tx.leaf = leaf
  /\ Head(tx.ins).value = Anchor + b.sats

(* External: the outputs Core knows of, and those in a block.              *)
Known(o) ==
  \/ o \in CoinOuts \cup DOMAIN idx.utxos
  \/ \E t \in DOMAIN idx.backing : idx.backing[t].out = o
  \/ \E p \in pool : o[1] = p.tx.id /\ o[2] < Len(p.tx.outs)
Confirmed(o) == Known(o) /\ \A p \in pool : o[1] # p.tx.id

(* An input that only pays: unspent, confirmed, a carrier of no token.     *)
chainFundingChecker(o) == o \notin spent /\ Confirmed(o) /\ o \notin DOMAIN idx.utxos

(* Mutant: inputs other than the vault and the seller's are not looked at. *)
GuardianFundingSkipped(tx, v, except) == TRUE

(* checkFundingInputs: the view sees carriers of its own token, the        *)
(* checker those of all.                                                   *)
GuardianFunding(tx, v, except) ==
  \A i \in 2 .. Len(tx.ins) :
    \/ tx.ins[i].out \in except
    \/ tx.ins[i].out \notin DOMAIN v.utxos /\ chainFundingChecker(tx.ins[i].out)

(* checkDiscoveryOutput: a last output that is a discovery envelope must   *)
(* agree with the binary one, and may be one output more.                  *)
Discovery(tx) == IF Last(tx.outs).script.kind = "discovery" THEN 1 ELSE 0

MinerFeeBounded(tx) == minerFeeSats(tx) \in 0 .. MaxMinerFee

validateMintTransitionV3(tx, v) ==
  /\ HasEnvelope(tx) /\ tx.kind = "MINT" /\ tx.token \in DOMAIN v.backing
  /\ LET b == v.backing[tx.token]
         next == b.supply + tx.amount
     IN  /\ GuardianBacking(tx, b, "mint")
         /\ MintAllowed(b, tx.amount)
         /\ tx.to = 2
         /\ OutAt(tx, 1) = Out(VaultScript(tx.token, next), Anchor + R[next])
         /\ CarriesTokens(OutAt(tx, 2))
         /\ OutAt(tx, 3) = Out(FeeScript, MintFee(Gross(b.supply, next), tx.amount))
         /\ MintFee(Gross(b.supply, next), tx.amount) >= Dust["p2tr"]
         /\ OutAt(tx, 4) = Out(Payment(Maker[tx.token]), CreatorFee(Gross(b.supply, next)))
         /\ Len(tx.outs) <= 6 + Discovery(tx)
         /\ MinerFeeBounded(tx)
         /\ GuardianFunding(tx, v, {})

(* The seller's carriers: the inputs after the vault that the view knows. *)
TokenInputs(tx, v) == {o \in DOMAIN v.utxos : \E i \in 2 .. Len(tx.ins) : tx.ins[i].out = o}
OwnToken(tx, v, S) == S # {} /\ \A o \in S : v.utxos[o].token = tx.token
AllocSum(tx) == Atoms(Created(tx), DOMAIN Created(tx))

(* What a redemption of the carriers that leaves supply next must pay. *)
RedeemSettles(tx, v, b, carriers, change) ==
  LET next == b.supply - tx.amount
      gross == Gross(b.supply, next)
  IN  /\ OutAt(tx, 1) = Out(VaultScript(tx.token, next), Anchor + R[next])
      /\ OutAt(tx, 2).value = gross - RedeemFee(gross)
      /\ OutAt(tx, 3) = Out(FeeScript, RedeemFee(gross))
      /\ RedeemFee(gross) >= Dust["p2tr"]
      /\ IF change > 0
         THEN CarriesTokens(OutAt(tx, 4)) /\ tx.allocs = [w \in {4} |-> change]
         ELSE DOMAIN tx.allocs = {}
      /\ Len(tx.outs) <= (IF change > 0 THEN 6 ELSE 5) + Discovery(tx)
      /\ MinerFeeBounded(tx)
      /\ GuardianFunding(tx, v, carriers)

validateRedeemTransitionV3(tx, v) ==
  /\ HasEnvelope(tx) /\ tx.kind = "REDEEM" /\ tx.token \in DOMAIN v.backing
  /\ LET b == v.backing[tx.token]
         carriers == {o \in TokenInputs(tx, v) : v.utxos[o].token = tx.token}
         change == Atoms(v.utxos, carriers) - tx.amount
     IN  /\ GuardianBacking(tx, b, "redeem")
         /\ OwnToken(tx, v, carriers)
         /\ RedeemAllowed(b, tx.amount)
         /\ change >= 0 /\ AllocSum(tx) = change
         /\ RedeemSettles(tx, v, b, carriers, change)

-----------------------------------------------------------------------------
(* The app, on the signed transaction and the same view, without prevouts. *)

validateFinalizedDeployTransaction(tx) ==
  /\ HasEnvelope(tx) /\ tx.kind = "DEPLOY"
  /\ OutAt(tx, 2).value = CreatorRecord /\ isCreatorScript(OutAt(tx, 2).script)
  /\ OutAt(tx, 2).script = Payment(Maker[tx.token])
  /\ OutAt(tx, 1) = Out(VaultScript(tx.token, 0), Anchor)

validateFinalizedMintTransaction(tx, v) ==
  /\ HasEnvelope(tx) /\ tx.kind = "MINT" /\ tx.token \in DOMAIN v.backing
  /\ LET b == v.backing[tx.token]
         next == b.supply + tx.amount
     IN  /\ Head(tx.ins).out = b.out
         /\ MintAllowed(b, tx.amount)
         /\ OutAt(tx, 1) = Out(VaultScript(tx.token, next), Anchor + R[next])
         /\ tx.to = 2 /\ CarriesTokens(OutAt(tx, 2))
         /\ OutAt(tx, 3) = Out(FeeScript, MintFee(Gross(b.supply, next), tx.amount))
         /\ MintFee(Gross(b.supply, next), tx.amount) >= Dust["p2tr"]
         /\ OutAt(tx, 4) = Out(Payment(Maker[tx.token]), CreatorFee(Gross(b.supply, next)))
         /\ Len(tx.outs) <= 6 + (IF Len(tx.outs) > 5 THEN Discovery(tx) ELSE 0)

validateFinalizedRedeemTransaction(tx, v) ==
  /\ HasEnvelope(tx) /\ tx.kind = "REDEEM" /\ tx.token \in DOMAIN v.backing
  /\ LET b == v.backing[tx.token]
         next == b.supply - tx.amount
         change == Atoms(v.utxos, TokenInputs(tx, v)) - tx.amount
         gross == Gross(b.supply, next)
     IN  /\ Head(tx.ins).out = b.out
         /\ OwnToken(tx, v, TokenInputs(tx, v))
         /\ change >= 0 /\ AllocSum(tx) = change
         /\ RedeemAllowed(b, tx.amount)
         /\ OutAt(tx, 1) = Out(VaultScript(tx.token, next), Anchor + R[next])
         /\ OutAt(tx, 2).value = gross - RedeemFee(gross)
         /\ OutAt(tx, 3) = Out(FeeScript, RedeemFee(gross))
         /\ RedeemFee(gross) >= Dust["p2tr"]
         /\ IF change > 0
            THEN /\ CarriesTokens(OutAt(tx, 4)) /\ tx.allocs = [w \in {4} |-> change]
                 /\ Len(tx.outs) <= 6
            ELSE DOMAIN tx.allocs = {} /\ Len(tx.outs) <= 5

validateFinalizedTransferTransaction(tx, v) ==
  LET mine == {o \in DOMAIN v.utxos : o \in InputsOf(tx)}
  IN  /\ HasEnvelope(tx) /\ tx.kind = "TRANSFER"
      /\ OwnToken(tx, v, mine)
      /\ AllocSum(tx) = Atoms(v.utxos, mine)
      /\ \A w \in DOMAIN tx.allocs : CarriesTokens(OutAt(tx, w))

(* The market's own check of a fill: a transfer of exactly the listing's   *)
(* terms, paid and charged exactly, that leaves the vaults alone.          *)
validateFinalizedP2PFill(tx, v, f) ==
  LET change == f.held - f.amount
      last == IF change > 0 THEN 2 ELSE 1
  IN  /\ Head(tx.ins).out = f.source
      /\ validateFinalizedTransferTransaction(tx, v)
      /\ \A t \in DOMAIN v.backing : v.backing[t].out \notin InputsOf(tx)
      /\ tx.allocs = [w \in 1 .. last |-> IF w = 1 THEN f.amount ELSE change]
      /\ OutAt(tx, 1).script = Ordinals(f.buyer)
      /\ change > 0 => OutAt(tx, 2).script = Ordinals(f.seller)
      /\ OutAt(tx, last + 1) = Out(Payment(f.seller), f.price)
      /\ OutAt(tx, last + 2) = Out(FeeScript, P2PFee(f.price))
      /\ Len(tx.outs) > last + 3 => OutAt(tx, last + 3).script = Payment(f.buyer)
      /\ Len(tx.outs) <= last + 4
      /\ f.price >= Dust["p2wpkh"] /\ P2PFee(f.price) >= Dust["p2tr"]
      /\ minerFeeSats(tx) = f.minerFee

-----------------------------------------------------------------------------
(* The wallet: what the user is told the transaction does, and the check   *)
(* before signing.  Unstated is a field the intent leaves null.            *)

Unstated == -1
isMine(s, u) == s \in {Payment(u), Ordinals(u)}
SumWhere(s, P(_)) == FoldLeft(LAMBDA a, x : IF P(x) THEN a + x.value ELSE a, 0, s)
walletDeltaSats(tx, u) ==
  SumWhere(tx.outs, LAMBDA o : isMine(o.script, u)) - SumWhere(tx.ins, LAMBDA i : i.who = u)

(* The intent returned with a build: the amounts the builder used and the  *)
(* fee and balance change measured on what it built.                       *)
Intent(op, tx, u, gross, fee, creatorFee, net) ==
  [op |-> op, who |-> u, token |-> tx.token,
   amount |-> IF op = "DEPLOY" THEN 0 ELSE tx.amount,
   gross |-> gross, fee |-> fee, creatorFee |-> creatorFee, net |-> net,
   minerFee |-> minerFeeSats(tx), delta |-> walletDeltaSats(tx, u)]

TOKEN_DIRECTION ==
  [BACKING_BUY |-> "in", P2P_BUY |-> "in", REDEEM |-> "out", TRANSFER |-> "out",
   P2P_SELL |-> "out", DEPLOY |-> "none"]

(* The Cove envelope moves the stated atoms, to or from this wallet. *)
verifyTokenEnvelope(tx, i) ==
  LET To(w) == isMine(OutAt(tx, w).script, i.who)
      atoms(S) == Atoms(Created(tx), {<<tx.id, w>> : w \in S})
  IN  IF ~HasEnvelope(tx) THEN i.amount = 0
      ELSE /\ tx.kind # "DEPLOY" => tx.token = i.token
           /\ CASE tx.kind = "MINT" -> tx.amount = i.amount /\ To(tx.to)
                [] tx.kind = "REDEEM" -> tx.amount = i.amount /\ \A w \in DOMAIN tx.allocs : To(w)
                [] tx.kind = "TRANSFER" ->
                     CASE TOKEN_DIRECTION[i.op] = "in" ->
                            atoms({w \in DOMAIN tx.allocs : To(w)}) = i.amount
                       [] TOKEN_DIRECTION[i.op] = "out" ->
                            atoms({w \in DOMAIN tx.allocs : ~To(w)}) = i.amount
                       [] OTHER -> FALSE
                [] OTHER -> TRUE

(* The price the user read is what leaves the wallet, by operation. *)
StatedPrice(tx, i) ==
  LET Others(script) == ~isMine(script, i.who)
      creator == Payment(Maker[i.token])
  IN  CASE i.op = "BACKING_BUY" ->
             /\ i.creatorFee > 0 => \E k \in DOMAIN tx.outs : tx.outs[k] = Out(creator, i.creatorFee)
             /\ walletDeltaSats(tx, i.who) =
                  -(i.gross + i.fee + i.minerFee + IF Others(creator) THEN i.creatorFee ELSE 0)
        [] i.op = "P2P_BUY" ->
             /\ SumWhere(tx.outs, LAMBDA o : Others(o.script))
                  - SumWhere(tx.ins, LAMBDA o : o.who # i.who) <= i.gross + i.fee
             /\ \E k \in DOMAIN tx.outs : Others(tx.outs[k].script) /\ tx.outs[k].value = i.gross
        [] i.op = "REDEEM" -> walletDeltaSats(tx, i.who) = i.net - i.minerFee
        [] OTHER -> TRUE

(* Mutant: the digest matches, and so does the fee. *)
verifyDigestOnly(tx, i) == minerFeeSats(tx) = i.minerFee

verifyClientIntent(tx, i) ==
  /\ minerFeeSats(tx) = i.minerFee
  /\ i.delta # Unstated => walletDeltaSats(tx, i.who) = i.delta
  /\ i.fee > 0 => \E k \in DOMAIN tx.outs : tx.outs[k].value = i.fee
  /\ StatedPrice(tx, i)
  /\ IF i.net # Unstated
     THEN \E k \in DOMAIN tx.outs : tx.outs[k] = Out(Payment(i.who), i.net)
     ELSE \E k \in DOMAIN tx.outs : isMine(tx.outs[k].script, i.who)
  /\ verifyTokenEnvelope(tx, i)

-----------------------------------------------------------------------------
(* Users, the app, the Guardian, Bitcoin and the index *)

Idle == [phase |-> "idle"]

Init ==
  /\ \E s \in Seed : idx = s.idx /\ own = s.own
  /\ pool = {} /\ spent = {} /\ mined = {}
  /\ req = [u \in User |-> Idle]

Used == {p.tx.id : p \in pool} \cup {x.id : x \in mined}
          \cup {req[u].tx.id : u \in {w \in User : req[w].phase # "idle"}}

(* followPendingBacking: from the confirmed backing through the app's own  *)
(* broadcasts, each successor derived again, up to the outpoint stop.      *)
PendingSpend(t, b) ==
  {p \in pool : /\ p.app /\ p.tx.kind \in {"MINT", "REDEEM"} /\ p.tx.token = t
                /\ Head(p.tx.ins).out = b.out}

Follow(t, stop) ==
  LET walk[k \in 0 .. Cardinality(TxId)] ==
        IF k = 0 THEN idx.backing[t]
        ELSE LET b == walk[k - 1]
             IN  IF b.out = stop \/ PendingSpend(t, b) = {} THEN b
                 ELSE LET tx == (CHOOSE p \in PendingSpend(t, b) : TRUE).tx
                          n == IF tx.kind = "MINT" THEN b.supply + tx.amount
                               ELSE b.supply - tx.amount
                      IN  Successor(n, tx.id)
  IN  walk[Cardinality(TxId)]

NoStop == <<NoTx, 0>>

(* loadCanonicalViewSnapshotFromDb: the index as one transaction sees it,  *)
(* of one token: its backing and its unspent carriers, and nothing of any  *)
(* other token.                                                            *)
Snapshot(t) ==
  [backing |-> [s \in DOMAIN idx.backing \cap {t} |-> idx.backing[s]],
   utxos |-> [o \in {o \in DOMAIN idx.utxos : idx.utxos[o].token = t} |-> idx.utxos[o]]]

(* loadView and overlayPendingBacking. *)
View(t, stop) ==
  IF t \notin DOMAIN idx.backing THEN Snapshot(t)
  ELSE [Snapshot(t) EXCEPT !.backing[t] = Follow(t, stop)]

Validate(tx, v) ==
  CASE tx.kind = "MINT" -> validateMintTransitionV3(tx, v)
    [] tx.kind = "REDEEM" -> validateRedeemTransitionV3(tx, v)
    [] OTHER -> FALSE

Finalized(tx, v) ==
  CASE tx.kind = "DEPLOY" -> validateFinalizedDeployTransaction(tx)
    [] tx.kind = "MINT" -> validateFinalizedMintTransaction(tx, v)
    [] tx.kind = "REDEEM" -> validateFinalizedRedeemTransaction(tx, v)
    [] tx.kind = "TRANSFER" -> validateFinalizedTransferTransaction(tx, v)

(* A build is offered to the user only if the Guardian's validation, run   *)
(* by the app on the view it was built on, passes (vault operations).      *)
Offer(u, built, v, vault, I(_), fill) ==
  /\ built.ok
  /\ req' = [req EXCEPT ![u] =
       [phase |-> IF vault /\ ~Validate(built.tx, v) THEN "rejected" ELSE "built",
        tx |-> built.tx, honest |-> TRUE, intent |-> I(built.tx), fill |-> fill,
        checked |-> FALSE, stop |-> IF vault THEN Head(built.tx.ins).out ELSE NoStop]]
  /\ UNCHANGED <<idx, own, pool, spent, mined>>

NoFill == [buyer |-> "none"]
Funds(u, S) == LET s == SetToSeq(S) IN [i \in DOMAIN s |-> [out |-> s[i].out, value |-> s[i].value, who |-> u]]
FreshIds == Fresh \ Used

(* resolveFundingUtxos: the coins of a build are unspent.                  *)
Unspent(u) == {c \in Coins[u] : c.out \notin spent}

(* A token id commits to a nonce, and the nonce is the idempotency key: a  *)
(* token is not launched again while its launch is on its way.             *)
BuildLaunch(u, t, coins, fee, id) ==
  /\ req[u].phase = "idle" /\ Maker[t] = u /\ t \notin DOMAIN idx.backing
  /\ \A p \in pool : p.tx.kind = "DEPLOY" => p.tx.token # t
  /\ Offer(u, buildDeployPsbtV3(id, t, u, Funds(u, coins), fee), idx, FALSE,
       LAMBDA tx : Intent("DEPLOY", tx, u, Unstated, Unstated, Unstated, Unstated), NoFill)

BuildBuy(u, t, n, coins, fee, id) ==
  /\ req[u].phase = "idle" /\ t \in DOMAIN idx.backing
  /\ LET v == View(t, NoStop)
         b == v.backing[t]
         gross == Gross(b.supply, b.supply + n)
     IN  Offer(u, buildMintPsbtV3(id, t, b, n, u, Funds(u, coins), fee), v, TRUE,
           LAMBDA tx : Intent("BACKING_BUY", tx, u, gross, MintFee(gross, n),
                              CreatorFee(gross), Unstated), NoFill)

(* Token inputs, largest first (equal ones in any order), only as many as  *)
(* the amount needs and at most MaxTokenInputs.                            *)
Mine(u, t) == {o \in DOMAIN idx.utxos : idx.utxos[o].token = t /\ own[o] = u}
SelectCarriers(u, t, n) ==
  {S \in SUBSET Mine(u, t) :
     /\ S # {} /\ Cardinality(S) <= MaxTokenInputs /\ Atoms(idx.utxos, S) >= n
     /\ \A o \in S, p \in Mine(u, t) \ S : idx.utxos[p].amount <= idx.utxos[o].amount
     /\ \A o \in S : \/ \E p \in S : idx.utxos[p].amount < idx.utxos[o].amount
                    \/ Atoms(idx.utxos, S \ {o}) < n}

AsInputs(S) ==
  LET s == SetToSeq(S) IN [i \in DOMAIN s |-> [out |-> s[i], value |-> Carrier, who |-> own[s[i]]]]

BuildRedeem(u, t, n, coins, fee, id) ==
  /\ req[u].phase = "idle" /\ t \in DOMAIN idx.backing
  /\ LET v == View(t, NoStop)
         b == v.backing[t]
         gross == Gross(b.supply, b.supply - n)
     IN  \E chosen \in SelectCarriers(u, t, n) :
           Offer(u, buildRedeemPsbtV3(id, t, b, n, u, AsInputs(chosen),
                      Atoms(idx.utxos, chosen), Funds(u, coins), fee), v, TRUE,
             LAMBDA tx : Intent("REDEEM", tx, u, gross, RedeemFee(gross), Unstated,
                                gross - RedeemFee(gross)), NoFill)

BuildTransfer(u, t, n, to, coins, fee, id) ==
  /\ req[u].phase = "idle" /\ t \in DOMAIN idx.backing
  /\ \E chosen \in SelectCarriers(u, t, n) :
       Offer(u, buildTransferPsbtV2(id, t, n, u, to, AsInputs(chosen),
                  Atoms(idx.utxos, chosen), u, Funds(u, coins), <<>>, fee), idx, FALSE,
         LAMBDA tx : Intent("TRANSFER", tx, u, Unstated, Unstated, Unstated, Unstated), NoFill)

(* A buyer fills an ask for n atoms of another wallet's carrier: the       *)
(* reservation (Market) is held, the source still live.  The row keeps the *)
(* fee the transaction really pays.                                        *)
BuildFill(u, o, n, price, coins, fee, id) ==
  /\ req[u].phase = "idle" /\ o \in DOMAIN idx.utxos /\ n <= idx.utxos[o].amount
  /\ LET t == idx.utxos[o].token
         built == buildTransferPsbtV2(id, t, n, own[o], u, AsInputs({o}), idx.utxos[o].amount,
                    u, Funds(u, coins), <<Out(Payment(own[o]), price), Out(FeeScript, P2PFee(price))>>, fee)
     IN  Offer(u, built, idx, FALSE,
           LAMBDA tx : [Intent("P2P_BUY", tx, u, price, P2PFee(price), Unstated, Unstated)
                          EXCEPT !.delta = Unstated],
           [buyer |-> u, seller |-> own[o], source |-> o, held |-> idx.utxos[o].amount,
            amount |-> n, price |-> price,
            minerFee |-> IF built.ok THEN minerFeeSats(built.tx) ELSE 0])

(* The PSBTs that differ from tx in one place: an output's value or        *)
(* script, an output more or less; the envelope or the leaf; one more      *)
(* input that pays into the last output.                                   *)
OutputVariants(tx) ==
     {[tx EXCEPT !.outs[i].value = @ + d] : i \in DOMAIN tx.outs, d \in {-1, 1}}
  \cup {[tx EXCEPT !.outs[i].script = s] :
          i \in DOMAIN tx.outs, s \in {Script("p2sh", "other"), Script("p2wpkh", "other")}}
  \cup {[tx EXCEPT !.outs = Append(@, Out(Script(k, "other"), 0))] : k \in {"discovery", "p2wpkh"}}
  \cup {[tx EXCEPT !.outs = Front(@)]}
EnvelopeVariants(tx) ==
     {[tx EXCEPT !.amount = n] : n \in Amounts}
  \cup {[tx EXCEPT !.to = 4], [tx EXCEPT !.leaf = "other"]}
  \cup {[tx EXCEPT !.allocs = Nothing]} \cup {[tx EXCEPT !.allocs = [w \in {4} |-> n]] : n \in Amounts}
  \cup {[tx EXCEPT !.kind = k] : k \in {"MINT", "REDEEM"}}
InputVariants(tx) ==
  {[tx EXCEPT !.ins = Append(@, [out |-> o, value |-> Carrier, who |-> own[o]]),
              !.outs[Len(tx.outs)].value = @ + Carrier] :
     o \in DOMAIN idx.utxos \ InputsOf(tx)}
Variants(tx) == OutputVariants(tx) \cup EnvelopeVariants(tx) \cup InputVariants(tx)

(* What reaches the wallet, or the Guardian's own service, is another PSBT *)
(* of a vault operation, changed in one place.  Transfers and fills are    *)
(* not altered here: no Guardian validates them, and outside the app       *)
(* anybody may broadcast a transfer of his own that the index refuses.     *)
Alter(u) ==
  /\ req[u].phase = "built" /\ req[u].honest /\ ~req[u].checked
  /\ req[u].tx.kind \in {"MINT", "REDEEM"}
  /\ \E tx \in Variants(req[u].tx) \ {req[u].tx} :
       /\ \A i \in DOMAIN tx.outs : tx.outs[i].value >= 0
       /\ req' = [req EXCEPT ![u].tx = tx, ![u].honest = FALSE]
  /\ UNCHANGED <<idx, own, pool, spent, mined>>

(* verifyClientIntent in the browser, before the wallet is asked to sign. *)
Check(u) ==
  /\ req[u].phase = "built" /\ ~req[u].checked
  /\ req' = [req EXCEPT ![u] =
       IF verifyClientIntent(req[u].tx, req[u].intent)
       THEN [@ EXCEPT !.checked = TRUE] ELSE [@ EXCEPT !.phase = "declined"]]
  /\ UNCHANGED <<idx, own, pool, spent, mined>>

(* sellerSign: the seller's browser checks the fill against the listing. *)
SellerIntent(tx, f) ==
  [Intent("P2P_SELL", tx, f.seller, Unstated, P2PFee(f.price), Unstated, f.price)
     EXCEPT !.delta = Unstated, !.amount = f.amount, !.minerFee = f.minerFee]

SellerSign(u) ==
  /\ req[u].phase = "built" /\ req[u].checked /\ req[u].fill # NoFill
  /\ req[u].fill.source \in DOMAIN idx.utxos
  /\ req' = [req EXCEPT ![u].phase =
       IF verifyClientIntent(req[u].tx, SellerIntent(req[u].tx, req[u].fill))
       THEN "signed" ELSE "declined"]
  /\ UNCHANGED <<idx, own, pool, spent, mined>>

(* submit: the view is followed to the vault the transaction was built on, *)
(* and the Guardian signs or refuses.  Only a client of its own skips the  *)
(* wallet's check.                                                         *)
Sign(u) ==
  /\ req[u].phase = "built" /\ (req[u].checked \/ ~req[u].honest) /\ req[u].fill = NoFill
  /\ LET tx == req[u].tx
         ok == tx.kind \in {"DEPLOY", "TRANSFER"} \/ Validate(tx, View(tx.token, req[u].stop))
     IN  req' = [req EXCEPT ![u].phase = IF ok THEN "signed" ELSE "refused"]
  /\ UNCHANGED <<idx, own, pool, spent, mined>>

(* External: what testmempoolaccept asks of the inputs. *)
Accepted(tx) ==
  /\ InputsOf(tx) \cap spent = {} /\ \A o \in InputsOf(tx) : Known(o)
  /\ minerFeeSats(tx) >= 0

(* What the wallets that signed were told: the change of their atoms. *)
Stated(i) == CASE i.op \in {"BACKING_BUY", "P2P_BUY"} -> i.amount
               [] i.op \in {"REDEEM", "TRANSFER"} -> -i.amount
               [] OTHER -> 0
Entrusted(q) ==
  [tx |-> q.tx, app |-> q.honest,
   told |-> IF ~q.checked THEN Nothing
            ELSE IF q.fill = NoFill THEN [w \in {q.intent.who} |-> Stated(q.intent)]
            ELSE [w \in {q.fill.buyer, q.fill.seller} |->
                    IF w = q.fill.buyer THEN q.fill.amount ELSE -q.fill.amount]]

(* The app checks the final transaction and broadcasts; another client     *)
(* with the Guardian's signature just broadcasts.                          *)
Broadcast(u) ==
  /\ req[u].phase = "signed"
  /\ LET tx == req[u].tx
         v == View(tx.token, req[u].stop)
         f == req[u].fill
         final == IF f = NoFill THEN Finalized(tx, v) ELSE validateFinalizedP2PFill(tx, v, f)
         sent == Accepted(tx) /\ (final \/ ~req[u].honest)
     IN  /\ pool' = IF sent THEN pool \cup {Entrusted(req[u])} ELSE pool
         /\ spent' = IF sent THEN spent \cup InputsOf(tx) ELSE spent
         /\ req' = [req EXCEPT ![u] = IF sent THEN Idle
                      ELSE [@ EXCEPT !.phase = IF Accepted(tx) THEN "unfinal" ELSE "refused"]]
  /\ UNCHANGED <<idx, own, mined>>

GiveUp(u) ==
  /\ req[u].phase \in {"built", "signed", "refused", "rejected", "declined"}
  /\ req' = [req EXCEPT ![u] = Idle]
  /\ UNCHANGED <<idx, own, pool, spent, mined>>

(* Bitcoin mines a broadcast transaction whose inputs are confirmed; the   *)
(* index applies it.                                                       *)
MineTx(p) ==
  LET tx == p.tx
      r == ApplyTx(idx, ForIndex(tx, idx))
  IN  /\ \A q \in pool \ {p} : \A o \in InputsOf(tx) : o[1] # q.tx.id
      /\ idx' = r.state
      /\ own' = [o \in DOMAIN r.state.utxos |->
                   IF o \in DOMAIN own THEN own[o] ELSE OutAt(tx, o[2]).script.who]
      /\ pool' = pool \ {p}
      /\ mined' = mined \cup {[id |-> tx.id, kind |-> tx.kind, did |-> r.op.kind,
                               burned |-> DOMAIN r.burned # {}]}
      /\ UNCHANGED <<spent, req>>

Next ==
  \/ \E u \in User, id \in FreshIds, fee \in MinerFees :
       \E coins \in {{}, Unspent(u)} \cup {{c} : c \in Unspent(u)} :
         \/ \E t \in Token : BuildLaunch(u, t, coins, fee, id)
         \/ \E t \in Token, n \in Amounts :
              \/ BuildBuy(u, t, n, coins, fee, id)
              \/ BuildRedeem(u, t, n, coins, fee, id)
              \/ \E to \in User : BuildTransfer(u, t, n, to, coins, fee, id)
         \/ \E o \in DOMAIN idx.utxos, n \in Amounts, price \in Prices :
              BuildFill(u, o, n, price, coins, fee, id)
  \/ \E u \in User : Alter(u) \/ Check(u) \/ SellerSign(u) \/ Sign(u) \/ Broadcast(u) \/ GiveUp(u)
  \/ \E p \in pool : MineTx(p)

Spec == Init /\ [][Next]_vars

-----------------------------------------------------------------------------
(* Properties *)

TypeOK ==
  /\ IsMap(idx.backing, Token, Backing) /\ IsMap(idx.utxos, Outpoint, Utxo)
  /\ DOMAIN own = DOMAIN idx.utxos
  /\ \A p \in pool : InputsOf(p.tx) \subseteq spent
  /\ \A u \in User : req[u].phase \in
       {"idle", "built", "rejected", "signed", "refused", "unfinal", "declined"}

(* Whatever the Guardian signs, changed in one place on the way or not,    *)
(* and whatever the app broadcasts, the indexer applies as that very       *)
(* operation wherever the transaction is mined, and nothing it spends is   *)
(* burned: three implementations of one rule and a state that moves in     *)
(* between.                                                                *)
SignedIsApplied == \A x \in mined : x.did = x.kind /\ ~x.burned

(* Nothing the builders produce is refused by the Guardian's validation of *)
(* the view it was built on, except a fee that absorbed its change above   *)
(* the cap.                                                                *)
BuildsValidate ==
  \A u \in User : req[u].phase = "rejected" => minerFeeSats(req[u].tx) > MaxMinerFee

(* The app never holds a signed transaction of its own that its final      *)
(* check refuses while Bitcoin would take it: the vault outpoint would     *)
(* stay reserved for nothing.                                              *)
SignedIsFinal ==
  \A u \in User : req[u].phase = "unfinal" => ~req[u].honest

(* A transition built on a pending vault is signed while that vault is the *)
(* tip, whatever else was broadcast or mined meanwhile: an honest request  *)
(* is refused only if an output it spends was spent by another.            *)
QueueDrains ==
  \A u \in User : (req[u].phase = "refused" /\ req[u].honest) =>
    \E o \in InputsOf(req[u].tx) : o \in spent \/ ~Known(o)

(* The wallet declines nothing the app built, and a seller no fill, except *)
(* a trade with oneself and a transfer that returns nothing to the sender: *)
(* the builder's fee, dust and change arithmetic is the one the browser    *)
(* does again.                                                             *)
BuildsPassWallet ==
  \A u \in User : (req[u].phase = "declined" /\ req[u].honest) =>
    \/ OutAt(req[u].tx, 1).script = Ordinals(Head(req[u].tx.ins).who)
    \/ /\ req[u].intent.op = "TRANSFER"
       /\ \A k \in DOMAIN req[u].tx.outs : ~isMine(req[u].tx.outs[k].script, u)

(* A wallet that checked what it signed has, once it is mined, exactly the *)
(* atoms it was told: if the answer of the app to a mint or a redemption   *)
(* was changed in one place (Variants), the wallet's check and the         *)
(* Guardian's together leave no other outcome.                             *)
Held(u, live, whose) ==
  FoldSet(LAMBDA o, a : a + live[o].amount, 0, {o \in DOMAIN live : whose[o] = u})
WalletGetsSigned ==
  \A p \in pool \ pool' : \A u \in DOMAIN p.told :
    Held(u, idx'.utxos, own') - Held(u, idx.utxos, own) = p.told[u]
=============================================================================
