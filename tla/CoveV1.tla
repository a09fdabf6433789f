------------------------------- MODULE CoveV1 -------------------------------
(***************************************************************************)
(* The first Cove protocol and its signet worker.                          *)
(*                                                                         *)
(*   packages/protocol/src/cove/validator.ts  the rules                    *)
(*   packages/protocol/src/cove/mapper.ts     roles of the outputs         *)
(*   packages/protocol/src/cove/build.ts      the builders                 *)
(*   packages/cove-indexer/src/indexer.ts     the fold over the blocks     *)
(*   packages/cove-indexer/src/store.ts       the Postgres projection      *)
(*   packages/cove-indexer/src/cli.ts         the worker                   *)
(*                                                                         *)
(* A block hash stands for the whole history, so a block is written as the *)
(* chain that ends in it.  A scanned block is fetched, folded and          *)
(* persisted in one step: the persisting transaction uses nothing but what *)
(* was fetched, and a death before its commit loses only memory.           *)
(***************************************************************************)
EXTENDS Integers, Sequences, FiniteSets, Maps

CONSTANTS Owner,        \* the users' scripts, all of a supported kind
          Settlement,   \* config.settlementScript
          Treasury,     \* config.treasuryScript
          Tick,         \* the tickers of four allowed characters
          Public,       \* the public supply in whole tokens
          Price,        \* Price[n]: the curve's price of the n-th token
          Fee(_),       \* computePlatformFee at primaryMintFeeBps
          MinContribution,
          LaunchFee,
          Dust,         \* the dust threshold of an owner's script
          Genesis,      \* config.genesisHeight
          Past,         \* the chains a story begins with, and their transactions
          MaxTx, MaxBlocks, MaxReorgs, MaxCrashes   \* bounds

LOCAL S == INSTANCE SequencesExt
LOCAL F == INSTANCE Functions

VARIABLES chain,    \* the node's blocks: [txs, salt]
          txs,      \* every transaction ever sent, by txid
          mempool,
          db,       \* the cove_* tables
          worker,   \* [pc, ix: the indexer, from, to, rebuild]
          lost,     \* a reorganisation no poll can see any more
          spent     \* bounds

vars == <<chain, txs, mempool, db, worker, lost, spent>>

-----------------------------------------------------------------------------
(* Transactions, as the builders lay them out: the envelope at output 0,   *)
(* then two outputs [to, sats] whose roles the mapper fixes by position.   *)
Curve(supply, n) == S!FoldLeft(LAMBDA s, k : s + Price[k], 0, [i \in 1 .. n |-> supply + i])

buildCoveDeployPsbt(who, tick) ==
  [op |-> "DEPLOY", actor |-> who, tick |-> tick, amt |-> 0, s |-> 0,
   out1 |-> <<Treasury, LaunchFee>>, out2 |-> <<who, Dust>>, flaw |-> "none"]

MintRefused(supply, n) == n <= 0 \/ Curve(supply, n) < MinContribution
buildCoveMintPsbt(who, tick, n, supply, to) ==
  [op |-> "MINT", actor |-> who, tick |-> tick, amt |-> n, s |-> supply,
   out1 |-> <<to, Dust>>,
   out2 |-> <<Settlement, Curve(supply, n) + Fee(Curve(supply, n))>>, flaw |-> "none"]

buildCoveTransferPsbt(who, tick, n, to) ==
  [op |-> "TRANSFER", actor |-> who, tick |-> tick, amt |-> n, s |-> 0,
   out1 |-> <<to, Dust>>, out2 |-> <<who, Dust>>, flaw |-> "none"]

(* What a transaction not made by the builders gets wrong: two envelopes,  *)
(* an envelope behind output 0, bytes that do not decode, an input whose   *)
(* script is unknown, or a satoshi less at output 1 or 2.                  *)
Flaws == {"two", "vout", "bytes", "prevout", "short1", "short2"}
Flawed(tx, flaw) ==
  CASE flaw = "short1" -> [tx EXCEPT !.out1[2] = @ - 1, !.flaw = flaw]
    [] flaw = "short2" -> [tx EXCEPT !.out2[2] = @ - 1, !.flaw = flaw]
    [] OTHER -> [tx EXCEPT !.flaw = flaw]

-----------------------------------------------------------------------------
(* The ledger.                                                             *)
createCoveState ==
  [tokens |-> Nothing, tickerIndex |-> Nothing, balances |-> Nothing, reserve |-> 0, treasury |-> 0]

Known(st, tick) == tick \in DOMAIN st.tickerIndex
resolveToken(st, tick) == st.tokens[st.tickerIndex[tick]]
Balance(st, who, tick) ==
  LET k == <<who, st.tickerIndex[tick]>>
  IN  IF k \in DOMAIN st.balances THEN st.balances[k] ELSE 0

validateDeploy(st, tx) ==
  /\ ~Known(st, tx.tick)
  /\ tx.actor \in Owner
  /\ tx.out1 = <<Treasury, LaunchFee>>

validateMint(st, tx) ==
  /\ Known(st, tx.tick)
  /\ LET t == resolveToken(st, tx.tick)
         q == Curve(t.supply, tx.amt)
     IN  /\ tx.s = t.supply
         /\ tx.amt > 0
         /\ tx.actor \in Owner
         /\ tx.out1[1] \in Owner
         /\ tx.amt <= Public - t.supply
         /\ q >= MinContribution
         /\ tx.out1[2] >= Dust
         /\ tx.out2 = <<Settlement, q + Fee(q)>>

validateTransfer(st, tx) ==
  /\ Known(st, tx.tick)
  /\ tx.amt > 0
  /\ tx.actor \in Owner
  /\ tx.out1[1] \in Owner \ {tx.actor}
  /\ Balance(st, tx.actor, tx.tick) >= tx.amt
  /\ tx.out1[2] >= Dust
  /\ tx.out2[1] = tx.actor /\ tx.out2[2] >= Dust

validateCoveOperation(st, tx) ==
  CASE tx.op = "DEPLOY" -> validateDeploy(st, tx)
    [] tx.op = "MINT" -> validateMint(st, tx)
    [] tx.op = "TRANSFER" -> validateTransfer(st, tx)

Credit(st, who, d, n) ==
  LET k == <<who, d>>
  IN  [st EXCEPT !.balances =
         Put(@, [x \in {k} |-> n + (IF k \in DOMAIN @ THEN @[k] ELSE 0)])]
Prune(st) ==
  [st EXCEPT !.balances = [k \in {x \in DOMAIN @ : @[x] # 0} |-> @[k]]]

(* The stage only tells how far the supply is; the supply stands for it.   *)
applyDeploy(st, id, tx) ==
  [st EXCEPT !.tokens = Put(@, [d \in {id} |-> [tick |-> tx.tick, creator |-> tx.actor, supply |-> 0]]),
             !.tickerIndex = Put(@, [t \in {tx.tick} |-> id]),
             !.treasury = @ + LaunchFee]
applyMint(st, tx) ==
  LET d == st.tickerIndex[tx.tick]
      q == Curve(st.tokens[d].supply, tx.amt)
  IN  Credit([st EXCEPT !.tokens[d].supply = @ + tx.amt, !.reserve = @ + q, !.treasury = @ + Fee(q)],
             tx.out1[1], d, tx.amt)
applyTransfer(st, tx) ==
  LET d == st.tickerIndex[tx.tick]
  IN  Credit(Prune(Credit(st, tx.actor, d, -tx.amt)), tx.out1[1], d, tx.amt)

applyCoveOperation(st, id, tx) ==
  CASE tx.op = "DEPLOY" -> applyDeploy(st, id, tx)
    [] tx.op = "MINT" -> applyMint(st, tx)
    [] tx.op = "TRANSFER" -> applyTransfer(st, tx)

-----------------------------------------------------------------------------
(* The indexer: a fold over the transactions of the blocks read.           *)
createIndexer == [st |-> createCoveState, seen |-> {}, events |-> {}, last |-> 0]

Recorded(ix, id, h, valid) == [ix EXCEPT !.events = @ \cup {[txid |-> id, height |-> h, valid |-> valid]}]

processTx(ix, h, id) ==
  LET tx    == txs[id]
      fresh == [ix EXCEPT !.seen = @ \cup {id}]
  IN  IF id \in ix.seen THEN Recorded(ix, id, h, FALSE)
      ELSE IF tx.flaw \in {"two", "vout", "bytes", "prevout"} \/ ~validateCoveOperation(ix.st, tx)
      THEN Recorded(fresh, id, h, FALSE)
      ELSE Recorded([fresh EXCEPT !.st = applyCoveOperation(@, id, tx)], id, h, TRUE)

OutOfOrder(ix, h) == h < Genesis \/ (ix.last # 0 /\ h # ix.last + 1)
processBlock(ix, block) ==
  S!FoldLeft(LAMBDA x, id : processTx(x, Len(block), id), [ix EXCEPT !.last = Len(block)],
             block[Len(block)].txs)

Indexed(blocks) == S!FoldLeft(processBlock, createIndexer, blocks)
Canonical(h) == SubSeq(chain, 1, h)
Replay(to) == Indexed([i \in 1 .. to - Genesis + 1 |-> Canonical(Genesis + i - 1)])

-----------------------------------------------------------------------------
(* The tables.  A cursor is the block it names, <<>> when there is no row. *)
Empty == [blocks |-> Nothing, ops |-> Nothing, tokens |-> Nothing, balances |-> Nothing,
          checkpoint |-> <<>>, cursor |-> <<>>]

(* persistBlock throws when a txid is on record at another height.         *)
Replayed(ix) ==
  \/ \E e \in ix.events : e.txid \in DOMAIN db.ops /\ db.ops[e.txid].height # e.height
  \/ \E e, f \in ix.events : e.txid = f.txid /\ e.height # f.height

BalanceRows(ix) == ix.st.balances

persistBlock(ix, block) ==
  [db EXCEPT
     !.blocks = Put(@, [h \in {Len(block)} |-> block]),
     !.ops = Put(@, [id \in {e.txid : e \in ix.events} |->
                       LET e == CHOOSE e \in ix.events :
                                  /\ e.txid = id
                                  /\ \A f \in ix.events : f.txid = id => f.height <= e.height
                       IN  [height |-> e.height, valid |-> e.valid]]),
     !.tokens = Put(@, ix.st.tokens),
     !.balances = BalanceRows(ix),
     !.checkpoint = <<block, ix.st>>,
     !.cursor = block]

-----------------------------------------------------------------------------
(* The worker.                                                             *)
Down == [pc |-> "down", ix |-> createIndexer, from |-> 0, to |-> 0, rebuild |-> FALSE]
Poll(from) == [worker EXCEPT !.pc = "poll", !.from = from, !.to = 0, !.rebuild = FALSE]
Quiet == UNCHANGED <<chain, txs, mempool, lost, spent>>

(* cmdWorker: replay up to the cursor, or begin at the genesis height.     *)
Boot ==
  /\ worker.pc = "down"
  /\ worker' = IF db.cursor = <<>> THEN [Down EXCEPT !.pc = "poll", !.from = Genesis]
               ELSE [Down EXCEPT !.pc = "replay", !.from = Genesis, !.to = Len(db.cursor)]
  /\ UNCHANGED db /\ Quiet

(* scanRange: a height the node does not have any more ends the process.   *)
ReplayStep ==
  /\ worker.pc = "replay"
  /\ worker.from <= worker.to
  /\ worker' = IF worker.from > Len(chain) THEN Down
               ELSE [worker EXCEPT !.ix = processBlock(@, Canonical(worker.from)), !.from = @ + 1]
  /\ UNCHANGED db /\ Quiet

CheckpointAgrees ==
  /\ db.checkpoint # <<>>
  /\ db.checkpoint[1] = db.cursor
  /\ db.checkpoint[2] = worker.ix.st

CheckRoot ==
  /\ worker.pc = "replay"
  /\ worker.from > worker.to
  /\ worker' = IF CheckpointAgrees THEN Poll(worker.to + 1) ELSE [Down EXCEPT !.rebuild = TRUE]
  /\ UNCHANGED db /\ Quiet

(* Every poll compares the cursor with the chain.                          *)
Moved == ~(Len(db.cursor) <= Len(chain) /\ Canonical(Len(db.cursor)) = db.cursor)

(* Mutant: the block at the tip is left for later.                         *)
PollStepShort ==
  /\ worker.pc = "poll"
  /\ \/ /\ Moved
        /\ worker' = [worker EXCEPT !.pc = "clear", !.to = Len(chain), !.rebuild = TRUE]
     \/ /\ ~Moved
        /\ worker.from < Len(chain)
        /\ worker' = [worker EXCEPT !.pc = "scan", !.to = Len(chain)]
  /\ UNCHANGED db /\ Quiet

(* One poll: a rebuild from genesis, or the blocks up to the tip.          *)
PollStep ==
  /\ worker.pc = "poll"
  /\ \/ /\ Moved
        /\ worker' = [worker EXCEPT !.pc = "clear", !.to = Len(chain), !.rebuild = TRUE]
     \/ /\ ~Moved
        /\ worker.from <= Len(chain)
        /\ worker' = [worker EXCEPT !.pc = "scan", !.to = Len(chain)]
  /\ UNCHANGED db /\ Quiet

(* setRebuilding, then clearCove: the flag lives in the row it deletes, so *)
(* the deletion is all that is seen of the two.                            *)
clearCove ==
  /\ worker.pc = "clear"
  /\ db' = Empty
  /\ worker' = [worker EXCEPT !.pc = "scan", !.ix = createIndexer, !.from = Genesis]
  /\ lost' = FALSE
  /\ UNCHANGED <<chain, txs, mempool, spent>>

(* scanAndPersist, one block.  What throws ends the process.               *)
ScanStep ==
  /\ worker.pc = "scan"
  /\ worker.from <= worker.to
  /\ IF worker.from > Len(chain) \/ OutOfOrder(worker.ix, worker.from)
     THEN worker' = Down /\ UNCHANGED db
     ELSE LET block == Canonical(worker.from)
              ix    == processBlock(worker.ix, block)
          IN  IF Replayed(ix) THEN worker' = Down /\ UNCHANGED db
              ELSE /\ db' = persistBlock(ix, block)
                   /\ worker' = [worker EXCEPT !.ix = ix, !.from = @ + 1]
  /\ Quiet

ScanDone ==
  /\ worker.pc = "scan"
  /\ worker.from > worker.to
  /\ worker' = Poll(worker.to + 1)
  /\ UNCHANGED db /\ Quiet

(* The process dies, of a signal or of a call that fails for good.         *)
Crash ==
  /\ spent.crashes < MaxCrashes
  /\ worker.pc # "down"
  /\ worker' = Down
  /\ lost' = (lost \/ Moved)
  /\ spent' = [spent EXCEPT !.crashes = @ + 1]
  /\ UNCHANGED <<chain, txs, mempool, db>>

-----------------------------------------------------------------------------
(* Users and the network.                                                  *)
Send(tx) ==
  LET id == Cardinality(DOMAIN txs) + 1
  IN  /\ spent.txs < MaxTx
      /\ txs' = Put(txs, [i \in {id} |-> tx])
      /\ mempool' = mempool \cup {id}
      /\ spent' = [spent EXCEPT !.txs = @ + 1]
      /\ UNCHANGED <<chain, db, worker, lost>>

(* A user builds on what the tables say. *)
Supply(tick) == LET d == {i \in DOMAIN db.tokens : db.tokens[i].tick = tick}
                IN  IF d = {} THEN 0 ELSE db.tokens[CHOOSE i \in d : TRUE].supply
Built ==
  {buildCoveDeployPsbt(w, t) : w \in Owner, t \in Tick}
  \cup UNION {{buildCoveMintPsbt(w, t, n, Supply(t), w) :
                 n \in {m \in 1 .. Public - Supply(t) : ~MintRefused(Supply(t), m)}} : w \in Owner, t \in Tick}
  \cup {buildCoveTransferPsbt(w, t, n, v) : w, v \in Owner, t \in Tick, n \in 1 .. 2}

Submit == \E tx \in Built : Send(tx)
(* A holder sends a token away in a transaction no builder makes. *)
SubmitFlawed ==
  \E k \in DOMAIN db.balances, v \in Owner, t \in Tick, flaw \in Flaws :
    v # k[1] /\ Send(Flawed(buildCoveTransferPsbt(k[1], t, 1, v), flaw))

MineBlock ==
  /\ spent.blocks < MaxBlocks
  /\ \E order \in {<<>>} \cup {<<i>> : i \in mempool} \cup {<<i, j>> : i, j \in mempool} :
       /\ Cardinality({order[i] : i \in DOMAIN order}) = Len(order)
       /\ chain' = Append(chain, [txs |-> order, salt |-> spent.reorgs])
       /\ mempool' = mempool \ {order[i] : i \in DOMAIN order}
  /\ spent' = [spent EXCEPT !.blocks = @ + 1]
  /\ UNCHANGED <<txs, db, worker, lost>>

(* Blocks are taken back; another branch grows from there.                 *)
Reorg(depth) ==
  /\ spent.reorgs < MaxReorgs
  /\ depth <= Len(chain)
  /\ LET keep == Len(chain) - depth
         gone == UNION {{chain[h].txs[i] : i \in DOMAIN chain[h].txs} : h \in keep + 1 .. Len(chain)}
     IN  /\ chain' = SubSeq(chain, 1, keep)
         /\ mempool' = mempool \cup gone
  /\ lost' = (lost \/ worker.pc # "poll")
  /\ spent' = [spent EXCEPT !.reorgs = @ + 1]
  /\ UNCHANGED <<txs, db, worker>>

Init ==
  /\ \E p \in Past : chain = p.chain /\ txs = p.txs
  /\ mempool = {}
  /\ db = Empty
  /\ worker = Down
  /\ lost = FALSE
  /\ spent = [txs |-> 0, blocks |-> 0, reorgs |-> 0, crashes |-> 0]

WorkerStep == Boot \/ ReplayStep \/ CheckRoot \/ PollStep \/ clearCove \/ ScanStep \/ ScanDone
Next ==
  \/ WorkerStep \/ Crash
  \/ Submit \/ SubmitFlawed \/ MineBlock
  \/ \E k \in 1 .. 2 : Reorg(k)

(* The process manager starts the worker again, and the worker polls.      *)
Spec == Init /\ [][Next]_vars /\ WF_vars(WorkerStep)
-----------------------------------------------------------------------------
Sum(f) == F!FoldFunction(LAMBDA x, y : x + y, 0, f)
State == IF db.cursor = <<>> THEN createCoveState ELSE db.checkpoint[2]

(* Every variable keeps its shape, and the worker its place. *)
TypeOK ==
  /\ worker.pc \in {"down", "replay", "poll", "clear", "scan"}
  /\ mempool \subseteq DOMAIN txs
  /\ DOMAIN db.blocks = IF db.cursor = <<>> THEN {} ELSE Genesis .. Len(db.cursor)
  /\ worker.pc \in {"poll", "scan"} =>
       worker.ix.last = Len(db.cursor)
  /\ lost \in BOOLEAN

(* assertCoveInvariants on what is persisted: the holders of a token hold  *)
(* its supply, none holds nothing, the supply stays within the public one, *)
(* a ticker names one token, and the reserve is what the curve asks for    *)
(* the supplies.                                                           *)
Conserved ==
  /\ \A d \in DOMAIN State.tokens :
       LET t == State.tokens[d]
       IN  /\ t.supply \in 0 .. Public
           /\ State.tickerIndex[t.tick] = d
           /\ t.supply = Sum([k \in {x \in DOMAIN State.balances : x[2] = d} |-> State.balances[k]])
  /\ \A k \in DOMAIN State.balances : State.balances[k] > 0
  /\ State.reserve = Sum([d \in DOMAIN State.tokens |-> Curve(0, State.tokens[d].supply)])

(* The worker's books are what users paid: every valid operation on record *)
(* paid its launch fee or its settlement, once, whatever branches were     *)
(* scanned.                                                                *)
PaidOnce ==
  LET valid == {id \in DOMAIN db.ops : db.ops[id].valid}
      sats  == [id \in valid |-> CASE txs[id].op = "DEPLOY" -> txs[id].out1[2]
                                   [] txs[id].op = "MINT" -> txs[id].out2[2]
                                   [] OTHER -> 0]
  IN  State.reserve + State.treasury = Sum(sats)

(* The rows are the state the checkpoint names, after transfers that empty *)
(* a holder, after crashes and after rebuilds.                             *)
RowsAreState ==
  /\ db.tokens = State.tokens
  /\ db.balances = State.balances
  /\ db.cursor # <<>> => db.checkpoint[1] = db.cursor

(* Unless a reorganisation escaped the polls, what is persisted below the  *)
(* cursor is the replay of the branch the cursor is on.                    *)
PersistedIsReplay ==
  (~lost /\ db.cursor # <<>> /\ ~Moved) => State = Replay(Len(db.cursor)).st

(* "Restart-safe": the start-up check turns the worker away only after a   *)
(* reorganisation that no poll saw.                                        *)
RestartSafe == (worker.pc = "down" /\ worker.rebuild) => lost

(* What the builders make of the tables is what the rules accept, when the *)
(* user has the tokens and the ticker is there to use.                     *)
BuildersAgree ==
  \A tx \in Built :
    validateCoveOperation(State, tx) <=>
      CASE tx.op = "DEPLOY" -> ~Known(State, tx.tick)
        [] tx.op = "MINT" -> Known(State, tx.tick)
        [] tx.op = "TRANSFER" -> /\ Known(State, tx.tick)
                                 /\ tx.out1[1] # tx.actor
                                 /\ Balance(State, tx.actor, tx.tick) >= tx.amt

(* The worker reaches the tip and stays there, unless a reorganisation     *)
(* escaped it.                                                             *)
FollowsChain == <>[](lost \/ Len(chain) < Genesis \/ db.cursor = chain)

(* The V1 ledger on record conserves what was paid and minted, is the      *)
(* replay of the chain it names, accepts what the builders make, survives  *)
(* restarts, and follows the chain to its tip.                             *)
LedgerFollows ==
  /\ [](TypeOK /\ Conserved /\ PaidOnce /\ RowsAreState)
  /\ [](PersistedIsReplay /\ RestartSafe /\ BuildersAgree)
  /\ FollowsChain
=============================================================================
