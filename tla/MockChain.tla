------------------------------ MODULE MockChain ------------------------------
(***************************************************************************)
(* The simulated chain of the V1 stack.                                    *)
(*                                                                         *)
(*   packages/protocol/src/mock/chain.ts    the rules, mineBlock, reorg    *)
(*   packages/protocol/src/mock/node.ts     the node, mutate               *)
(*   packages/protocol/src/mock/adapter.ts  the builders, graduate         *)
(*   packages/protocol/src/mock/seed.ts     the demo tokens                *)
(*                                                                         *)
(* The whole chain is one document that every mutation reads and writes    *)
(* under a lock, so a mutation is one step.  A builder checks the chain    *)
(* when the wallet asks for a transaction; the chain checks it again, and  *)
(* alone decides, in the block that mines it.                              *)
(***************************************************************************)
EXTENDS Integers, Sequences, Maps

CONSTANTS Wallet,        \* the users' addresses
          Treasury,      \* config.treasuryAddress
          Reserve,       \* config.reserveAddress
          Ticker,
          Seeds,         \* the demo tokens: [id, ticker, minted, graduated]
          Public,        \* PUBLIC_SUPPLY_TOKENS
          Price,         \* Price[n]: the curve's price of the n-th token
          PlatformFee(_),\* computePlatformFee at config.primaryMintFeeBps
          Asks,          \* the prices sellers ask
          Faucet,        \* MOCK_FAUCET_SATS
          LaunchFee,     \* config.launchFeeSats
          MinerFee,      \* the fee of a transaction
          Past,          \* the pasts a story may begin with: [mined: blocks of transactions, waiting]
          MaxTx,         \* bound on the transactions users submit
          MaxBlocks,     \* bound on the blocks mined
          MaxReorgs      \* bound on the reorganisations

LOCAL F == INSTANCE SequencesExt

VARIABLES chain,   \* the stored document
          spent    \* bounds: [txs, blocks, reorgs]

mockVars == <<chain, spent>>

(* createInitialState *)
createInitialState ==
  [height |-> 0, blocks |-> <<>>, mempool |-> <<>>, txs |-> Nothing,
   tokens |-> Nothing, wallets |-> Nothing, listings |-> Nothing,
   events |-> Nothing, earned |-> 0]

(* The state a replay computes; the rest is history. *)
Derived(c) == [tokens |-> c.tokens, wallets |-> c.wallets,
               listings |-> c.listings, earned |-> c.earned]

-----------------------------------------------------------------------------
(* Wallets: ensureWallet gives every new address the faucet's bitcoin.     *)
ensureWallet(c, a) ==
  IF a \in DOMAIN c.wallets THEN c.wallets[a]
  ELSE [btc |-> Faucet, tokens |-> Nothing, locked |-> Nothing]

Amount(m, d) == IF d \in DOMAIN m THEN m[d] ELSE 0
Available(c, a, d) ==
  Amount(ensureWallet(c, a).tokens, d) - Amount(ensureWallet(c, a).locked, d)

Wallets(c, a, w) == [c EXCEPT !.wallets = Put(@, [x \in {a} |-> w])]
Pay(c, a, sats) ==
  Wallets(c, a, [ensureWallet(c, a) EXCEPT !.btc = @ + sats])
Give(c, a, d, n) ==
  Wallets(c, a, [ensureWallet(c, a) EXCEPT !.tokens = Put(@, [x \in {d} |-> Amount(@, d) + n])])
Lock(c, a, d, n) ==
  Wallets(c, a, [ensureWallet(c, a) EXCEPT !.locked = Put(@, [x \in {d} |-> Amount(@, d) + n])])

(* What the curve asks for n tokens on top of a supply (quoteExactTokens). *)
Quote(supply, n) == F!FoldLeft(LAMBDA s, k : s + Price[k], 0,
                                              [i \in 1 .. n |-> supply + i])

TickersTaken(c) == {c.tokens[d].ticker : d \in DOMAIN c.tokens}

(* getStateHash: a digest of the material state, equal when that is. *)
getStateHash(c) == [d \in DOMAIN c.tokens |-> <<c.tokens[d].minted, c.tokens[d].status>>]

-----------------------------------------------------------------------------
(* validateTx, operation by operation, at the height of the block.  The    *)
(* outputs must be exactly the ones the chain computes itself.             *)
Outputs(c, tx) ==
  CASE tx.op = "DEPLOY" -> <<<<Treasury, LaunchFee>>>>
    [] tx.op = "MINT" ->
         LET q == Quote(c.tokens[tx.dep].minted, tx.amount)
         IN  <<<<Reserve, q>>, <<Treasury, PlatformFee(q)>>>>
    [] tx.op = "DEX_BID" ->
         <<<<c.listings[tx.lid].seller, c.listings[tx.lid].price>>>>
    [] OTHER -> <<>>

Spends(outs) == F!FoldLeft(LAMBDA s, o : s + o[2], MinerFee, outs)
Affords(c, tx) == ensureWallet(c, tx.signer).btc >= Spends(Outputs(c, tx))

ValidDeploy(c, tx) ==
  /\ tx.ticker \in Ticker \ TickersTaken(c)
  /\ tx.who = tx.signer
  /\ tx.outs = Outputs(c, tx)
  /\ Affords(c, tx)

ValidMint(c, tx) ==
  /\ tx.dep \in DOMAIN c.tokens
  /\ c.tokens[tx.dep].status = "LIVE"
  /\ c.tokens[tx.dep].minted = tx.before
  /\ tx.who = tx.signer
  /\ tx.amount > 0
  /\ tx.amount <= Public - c.tokens[tx.dep].minted
  /\ tx.outs = Outputs(c, tx)
  /\ Affords(c, tx)

ValidTransfer(c, tx) ==
  /\ tx.dep \in DOMAIN c.tokens
  /\ tx.amount > 0
  /\ tx.who # tx.signer
  /\ Available(c, tx.signer, tx.dep) >= tx.amount

ValidAsk(c, tx, height) ==
  /\ tx.dep \in DOMAIN c.tokens
  /\ c.tokens[tx.dep].status = "GRADUATED"
  /\ tx.who = tx.signer
  /\ tx.amount > 0
  /\ tx.price > 0
  /\ tx.expiry > height
  /\ Available(c, tx.signer, tx.dep) >= tx.amount
  /\ tx.outs = <<>>

ValidBid(c, tx, height) ==
  /\ tx.lid \in DOMAIN c.listings
  /\ c.listings[tx.lid].status = "OPEN"
  /\ height < c.listings[tx.lid].expiry
  /\ tx.who = tx.signer
  /\ tx.signer # c.listings[tx.lid].seller
  /\ tx.outs = Outputs(c, tx)
  /\ Affords(c, tx)

ValidCancel(c, tx) ==
  /\ tx.lid \in DOMAIN c.listings
  /\ c.listings[tx.lid].status = "OPEN"
  /\ tx.signer = c.listings[tx.lid].seller
  /\ tx.outs = <<>>

ValidGraduation(c, tx) ==
  /\ tx.dep \in DOMAIN c.tokens
  /\ c.tokens[tx.dep].minted = Public
  /\ c.tokens[tx.dep].status = "SOLD_OUT"

validateTx(c, tx, height) ==
  CASE tx.op = "DEPLOY" -> ValidDeploy(c, tx)
    [] tx.op = "MINT" -> ValidMint(c, tx)
    [] tx.op = "TRANSFER" -> ValidTransfer(c, tx)
    [] tx.op = "DEX_ASK" -> ValidAsk(c, tx, height)
    [] tx.op = "DEX_BID" -> ValidBid(c, tx, height)
    [] tx.op = "DEX_CANCEL" -> ValidCancel(c, tx)
    [] tx.op = "GRADUATION" -> ValidGraduation(c, tx)

-----------------------------------------------------------------------------
(* applyNormalized, operation by operation.                                *)
ApplyDeploy(c, id, tx) ==
  LET paid == Pay(Pay(c, tx.signer, -(LaunchFee + MinerFee)), Treasury, LaunchFee)
  IN  [paid EXCEPT
        !.tokens = Put(@, [d \in {id} |->
           [ticker |-> tx.ticker, minted |-> 0, status |-> "LIVE", reserve |-> 0, seed |-> FALSE]]),
        !.earned = @ + LaunchFee]

ApplyMint(c, tx) ==
  LET q    == Quote(c.tokens[tx.dep].minted, tx.amount)
      fee  == PlatformFee(q)
      full == c.tokens[tx.dep].minted + tx.amount = Public
      paid == Pay(Give(Pay(c, tx.signer, -(q + fee + MinerFee)), tx.signer, tx.dep, tx.amount),
                  Treasury, fee)
  IN  [paid EXCEPT
        !.tokens[tx.dep] = [@ EXCEPT !.minted = @ + tx.amount, !.reserve = @ + q,
                                     !.status = IF full THEN "SOLD_OUT" ELSE @],
        !.earned = @ + fee]

ApplyTransfer(c, tx) == Give(Give(c, tx.signer, tx.dep, -tx.amount), tx.who, tx.dep, tx.amount)

ApplyAsk(c, id, tx) ==
  [Lock(c, tx.signer, tx.dep, tx.amount) EXCEPT
     !.listings = Put(@, [l \in {id} |->
        [dep |-> tx.dep, seller |-> tx.signer, amount |-> tx.amount, price |-> tx.price,
         expiry |-> tx.expiry, status |-> "OPEN"]])]

ApplyBid(c, tx) ==
  LET l    == c.listings[tx.lid]
      paid == Pay(Pay(c, tx.signer, -(l.price + MinerFee)), l.seller, l.price)
      sold == Lock(Give(paid, l.seller, l.dep, -l.amount), l.seller, l.dep, -l.amount)
  IN  [Give(sold, tx.signer, l.dep, l.amount) EXCEPT !.listings[tx.lid].status = "TAKEN"]

ApplyCancel(c, tx) ==
  LET l == c.listings[tx.lid]
  IN  [Lock(c, l.seller, l.dep, -l.amount) EXCEPT !.listings[tx.lid].status = "CANCELLED"]

ApplyGraduation(c, tx) == [c EXCEPT !.tokens[tx.dep].status = "GRADUATED"]

applyNormalized(c, id, tx, height) ==
  LET done == CASE tx.op = "DEPLOY" -> ApplyDeploy(c, id, tx)
                [] tx.op = "MINT" -> ApplyMint(c, tx)
                [] tx.op = "TRANSFER" -> ApplyTransfer(c, tx)
                [] tx.op = "DEX_ASK" -> ApplyAsk(c, id, tx)
                [] tx.op = "DEX_BID" -> ApplyBid(c, tx)
                [] tx.op = "DEX_CANCEL" -> ApplyCancel(c, tx)
                [] tx.op = "GRADUATION" -> ApplyGraduation(c, tx)
  IN  [done EXCEPT !.events = Put(@, [e \in {id} |->
         [op |-> tx.op, dep |-> IF tx.op = "DEPLOY" THEN id ELSE tx.dep,
          height |-> height, canonical |-> TRUE]])]

(* applyTx: one transaction of a block, confirmed or dropped. *)
applyTx(c, id, height) ==
  LET tx == c.txs[id].tx
  IN  IF validateTx(c, tx, height)
      THEN [applyNormalized(c, id, tx, height) EXCEPT
              !.txs[id].status = "CONFIRMED", !.txs[id].height = height]
      ELSE [c EXCEPT !.txs[id].status = "REJECTED", !.txs[id].height = 0]

ApplyBlock(c, height, ids) == F!FoldLeft(LAMBDA s, id : applyTx(s, id, height), c, ids)

(* rebuildDerivedState: the same transactions in the same order, from an   *)
(* empty state without the demo tokens.  One that is no longer valid stays *)
(* in its block, its height and its event as they were.                    *)
ReplayTx(c, id, height) ==
  IF validateTx(c, c.txs[id].tx, height) THEN applyTx(c, id, height)
  ELSE [c EXCEPT !.txs[id].status = "REJECTED"]

ReplayBlock(c, height, ids) == F!FoldLeft(LAMBDA s, id : ReplayTx(s, id, height), c, ids)

rebuildDerivedState(c) ==
  F!FoldLeft(LAMBDA s, h : ReplayBlock(s, h, c.blocks[h]),
             [c EXCEPT !.tokens = Nothing, !.wallets = Nothing, !.listings = Nothing,
                       !.earned = 0],
             [h \in 1 .. Len(c.blocks) |-> h])

(* mineBlock: expire, then apply the mempool in the order it came in.      *)
Expired(c, height) ==
  [c EXCEPT !.listings = [l \in DOMAIN @ |->
     IF @[l].status = "OPEN" /\ height >= @[l].expiry
     THEN [@[l] EXCEPT !.status = "EXPIRED"] ELSE @[l]]]

mineBlock(c) ==
  LET height == c.height + 1
      done   == ApplyBlock([Expired(c, height) EXCEPT !.mempool = <<>>], height, c.mempool)
      kept   == SelectSeq(c.mempool, LAMBDA id : done.txs[id].status = "CONFIRMED")
  IN  [done EXCEPT !.blocks = Append(@, kept), !.height = height]

(* Mutant: the state is not replayed after the removal. *)
reorgUnreplayed(c, depth) ==
  LET keep == Len(c.blocks) - depth
      gone == F!FlattenSeq(SubSeq(c.blocks, keep + 1, Len(c.blocks)))
  IN  [c EXCEPT !.blocks = SubSeq(@, 1, keep),
                !.height = keep,
                !.mempool = @ \o gone,
                !.txs = [id \in DOMAIN @ |-> IF \E i \in DOMAIN gone : gone[i] = id
                           THEN [@[id] EXCEPT !.status = "MEMPOOL", !.height = 0] ELSE @[id]]]

(* reorg: the transactions of the removed blocks return to the mempool,    *)
(* behind the ones already there; their events stop being canonical.       *)
reorg(c, depth) ==
  LET keep == Len(c.blocks) - depth
      gone == F!FlattenSeq(SubSeq(c.blocks, keep + 1, Len(c.blocks)))
      back == {gone[i] : i \in DOMAIN gone}
  IN  rebuildDerivedState(
        [c EXCEPT !.blocks = SubSeq(@, 1, keep),
                  !.height = keep,
                  !.mempool = @ \o gone,
                  !.txs = [id \in DOMAIN @ |-> IF id \in back
                             THEN [@[id] EXCEPT !.status = "MEMPOOL", !.height = 0] ELSE @[id]],
                  !.events = [id \in DOMAIN @ |-> IF id \in back
                             THEN [@[id] EXCEPT !.canonical = FALSE] ELSE @[id]]])

(* seedMockChain: the demo tokens exist without a transaction or a holder. *)
seedMockChain(c) ==
  [c EXCEPT !.tokens = Put([d \in {s.id : s \in Seeds} |->
     LET s == CHOOSE s \in Seeds : s.id = d
     IN  [ticker |-> s.ticker, minted |-> s.minted, reserve |-> Quote(0, s.minted),
          status |-> IF s.graduated THEN "GRADUATED" ELSE "LIVE", seed |-> TRUE]], @)]

(* The node's own readings. *)
getBlockHash(c, height) == IF height \in 1 .. c.height THEN height ELSE 0
Canonical(c) == {id \in DOMAIN c.events : c.events[id].canonical}
getEvents(c, to) == [id \in {i \in Canonical(c) : c.events[i].height <= to} |-> c.events[id]]
getCanonicalTxids(c) == UNION {{c.blocks[h][i] : i \in DOMAIN c.blocks[h]} : h \in DOMAIN c.blocks}

-----------------------------------------------------------------------------
(* The adapter.  A builder writes the outputs its caller quoted.           *)
Tx(op, who, fields) ==
  Put([op |-> op, who |-> who, signer |-> who, dep |-> 0, lid |-> 0, ticker |-> 0,
       amount |-> 0, before |-> 0, price |-> 0, expiry |-> 0, outs |-> <<>>], fields)

Submitted(c, tx) ==
  LET id == Cardinality(DOMAIN c.txs) + 1
  IN  [c EXCEPT !.txs = Put(@, [i \in {id} |-> [tx |-> tx, status |-> "MEMPOOL", height |-> 0]]),
                !.mempool = Append(@, id)]

(* submitRawTx, by the wallet that asked for the transaction.  It signs    *)
(* and sends at once: what is built on a state the chain has left is       *)
(* waiting in the mempool by then.                                         *)
submitRawTx(tx) ==
  /\ spent.txs < MaxTx
  /\ chain' = Submitted(chain, tx)
  /\ spent' = [spent EXCEPT !.txs = @ + 1]

buildDeploy(w, t) ==
  /\ t \notin TickersTaken(chain)
  /\ submitRawTx(Tx("DEPLOY", w, [ticker |-> t, outs |-> <<<<Treasury, LaunchFee>>>>]))

(* The quote the caller brings must carry the present state hash and       *)
(* supply, so it is the present quote.                                     *)
buildMint(w, d, n) ==
  /\ chain.tokens[d].status = "LIVE"
  /\ LET q == Quote(chain.tokens[d].minted, n)
     IN  submitRawTx(Tx("MINT", w, [dep |-> d, amount |-> n, before |-> chain.tokens[d].minted,
                                    outs |-> <<<<Reserve, q>>, <<Treasury, PlatformFee(q)>>>>]))

buildSellListing(w, d, n, price, expiry) ==
  /\ chain.tokens[d].status = "GRADUATED"
  /\ Available(chain, w, d) >= n
  /\ submitRawTx(Tx("DEX_ASK", w, [dep |-> d, amount |-> n, price |-> price, expiry |-> expiry]))

buildBuySettlement(w, l) ==
  /\ chain.listings[l].status = "OPEN"
  /\ submitRawTx(Tx("DEX_BID", w, [lid |-> l, dep |-> chain.listings[l].dep,
                    outs |-> <<<<chain.listings[l].seller, chain.listings[l].price>>>>]))

buildCancelListing(l) ==
  submitRawTx(Tx("DEX_CANCEL", chain.listings[l].seller, [lid |-> l, dep |-> chain.listings[l].dep]))

(* A transfer has no builder; a wallet may still submit one. *)
SubmitTransfer(w, to, d, n) ==
  submitRawTx([Tx("TRANSFER", w, [dep |-> d, amount |-> n]) EXCEPT !.who = to])

(* graduate: the worker's transaction, signed by nobody. *)
graduate(c, d) == Submitted(c, Tx("GRADUATION", Treasury, [dep |-> d]))

MineBlock ==
  /\ spent.blocks < MaxBlocks
  /\ chain' = mineBlock(chain)
  /\ spent' = [spent EXCEPT !.blocks = @ + 1]

Reorg(depth) ==
  /\ spent.reorgs < MaxReorgs
  /\ depth <= Len(chain.blocks)
  /\ chain' = reorg(chain, depth)
  /\ spent' = [spent EXCEPT !.reorgs = @ + 1]

(* A chain on which these blocks of transactions were mined, and others    *)
(* are waiting.                                                            *)
Mined(p) ==
  F!FoldLeft(Submitted,
             F!FoldLeft(LAMBDA c, txs : mineBlock(F!FoldLeft(Submitted, c, txs)),
                        seedMockChain(createInitialState), p.mined),
             p.waiting)

MockInit ==
  /\ chain \in {Mined(p) : p \in Past}
  /\ spent = [txs |-> 0, blocks |-> 0, reorgs |-> 0]

WalletStep ==
  \/ \E w \in Wallet, t \in Ticker : buildDeploy(w, t)
  \/ \E w \in Wallet, d \in DOMAIN chain.tokens, n \in 1 .. Public :
       n <= Public - chain.tokens[d].minted /\ buildMint(w, d, n)
  \/ \E w \in Wallet, d \in DOMAIN chain.tokens, p \in Asks, k \in 1 .. 2 :
       buildSellListing(w, d, 1, p, chain.height + k)
  \/ \E w \in Wallet, l \in DOMAIN chain.listings : buildBuySettlement(w, l)
  \/ \E l \in DOMAIN chain.listings : buildCancelListing(l)
  \/ \E w, to \in Wallet, d \in DOMAIN chain.tokens :
       w # to /\ Available(chain, w, d) > 0 /\ SubmitTransfer(w, to, d, 1)
=============================================================================
