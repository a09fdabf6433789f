------------------------------ MODULE Projection ------------------------------
(***************************************************************************)
(* The V1 worker: mining, and the Postgres projection of the mock chain.   *)
(*                                                                         *)
(*   apps/worker/src/index.ts        the mining loop and the sync job      *)
(*   apps/worker/src/sync.ts         detectReorg, rebuildProjections,      *)
(*                                   syncMockToDb, maybeGraduate           *)
(*   packages/db/src/repo.ts         the writes                            *)
(*   packages/db/src/state-machine.ts  the legal status changes            *)
(*                                                                         *)
(* A job reads the chain in several calls and writes in two transactions;  *)
(* blocks are mined, transactions arrive and the chain reorganises between *)
(* any two of them, and the process may die there.  Every mined block      *)
(* queues a job; jobs are alike, so the length of the queue is not kept.   *)
(* A job reads nothing a wallet writes, so wallets act between jobs here.  *)
(***************************************************************************)
EXTENDS MockChain

LOCAL F == INSTANCE Functions

CONSTANTS Finality,     \* config.finalityConfirmations
          MaxCrashes    \* bound on the deaths of the worker

VARIABLES db,      \* the tables
          job,     \* the running sync job: [pc, seen, tokens left to graduate]
          steady,  \* no block came or went since the last sync began
          stale,   \* a reorganisation no rebuild has wiped from the tables
          died     \* the deaths of the worker

vars == <<chain, spent, db, job, steady, stale, died>>

Tables == <<"mints", "trades", "listings", "balances", "events", "blocks", "cursor", "tokens">>

EmptyTables ==
  [mints |-> Nothing, trades |-> Nothing, listings |-> Nothing, balances |-> Nothing,
   events |-> Nothing, blocks |-> {}, cursor |-> 0, tokens |-> Nothing]

Idle == [pc |-> "idle", seen |-> Nothing, todo |-> {}]

Init ==
  /\ MockInit
  /\ db = EmptyTables
  /\ job = Idle
  /\ steady = FALSE
  /\ stale = FALSE
  /\ died = 0

-----------------------------------------------------------------------------
(* The status changes assertTokenTransition lets through, of those whose   *)
(* two ends the projection meets.                                          *)
canTransition(from, to) ==
  <<from, to>> \in {<<"LIVE", "SOLD_OUT">>, <<"SOLD_OUT", "GRADUATING">>,
                    <<"GRADUATING", "GRADUATED">>, <<"GRADUATING", "LIVE">>}

(* What a clean sync writes for a chain. *)
TokenRow(t, status) == [minted |-> t.minted, reserve |-> t.reserve, status |-> status]
BalanceRows(ws) ==
  LET keys == UNION {{<<a, d>> : d \in DOMAIN ws[a].tokens} : a \in DOMAIN ws}
  IN  [k \in keys |-> <<ws[k[1]].tokens[k[2]], Amount(ws[k[1]].locked, k[2])>>]
ListingRows(ls) == [l \in DOMAIN ls |-> ls[l].status]
Kind(evs, op) == {id \in DOMAIN evs : evs[id].op = op}
EventRows(evs) == [id \in DOMAIN evs |-> <<evs[id].height, TRUE>>]
All(ids, v) == [id \in ids |-> v]

(* The status a token row gets: the chain's, if the step is a legal one.   *)
(* Mutant: a status is only ever set when the row is new.                  *)
SyncedStatusOnce(d, t) ==
  IF d \notin DOMAIN db.tokens THEN t.status ELSE db.tokens[d].status
SyncedStatus(d, t) ==
  IF d \notin DOMAIN db.tokens THEN t.status
  ELSE IF canTransition(db.tokens[d].status, t.status) THEN t.status
  ELSE db.tokens[d].status

-----------------------------------------------------------------------------
(* The job.  detectReorg: the block at the cursor is no longer the node's. *)
Detected == db.cursor > 0 /\ db.cursor \in db.blocks /\ getBlockHash(chain, db.cursor) # db.cursor

To(pc) == job' = [job EXCEPT !.pc = pc]
Same == UNCHANGED <<chain, spent, stale, died>>

StartJob ==
  /\ job.pc = "idle"
  /\ To(IF Detected THEN "reset" ELSE "height")
  /\ UNCHANGED <<db, steady>> /\ Same

(* resetProjections: one DELETE after the other, no transaction around.    *)
Emptied(k) == [t \in DOMAIN db |->
                 IF \E i \in 1 .. k : Tables[i] = t THEN EmptyTables[t] ELSE db[t]]

resetProjections ==
  /\ job.pc = "reset"
  /\ db' = Emptied(Len(Tables))
  /\ stale' = FALSE
  /\ To("height")
  /\ UNCHANGED <<chain, spent, steady, died>>

(* syncMockToDb reads: each call sees the chain as it is by then.  Calls   *)
(* that follow one another are taken in two groups.                        *)
ReadStep(pc, values, next) ==
  /\ job.pc = pc
  /\ job' = [job EXCEPT !.pc = next, !.seen = Put(@, values)]
  /\ UNCHANGED db /\ Same

ReadTokens ==
  /\ ReadStep("height", [height |-> chain.height, tokens |-> chain.tokens,
                         listings |-> chain.listings], "events")
  /\ steady' = TRUE
ReadEvents ==
  /\ ReadStep("events", [balances |-> chain.wallets,
                         events |-> getEvents(chain, job.seen["height"])], "write")
  /\ UNCHANGED steady

(* The first transaction: the chain's rows, none taken away.               *)
WriteRows ==
  /\ job.pc = "write"
  /\ LET seen == job.seen
         evs  == seen["events"]
     IN  db' = [db EXCEPT
           !.tokens = Put(@, [d \in DOMAIN seen["tokens"] |->
              TokenRow(seen["tokens"][d], SyncedStatus(d, seen["tokens"][d]))]),
           !.listings = Put(@, ListingRows(seen["listings"])),
           !.balances = Put(@, BalanceRows(seen["balances"])),
           !.events = Put(@, EventRows(evs)),
           !.trades = Put(All(Kind(evs, "DEX_BID"), TRUE), @),
           !.mints = Put(@, All(Kind(evs, "MINT"), TRUE))]
  /\ job' = [job EXCEPT !.pc = "blocks", !.seen = [x \in {"height"} |-> @["height"]]]
  /\ UNCHANGED steady /\ Same

ReadBlocks ==
  /\ ReadStep("blocks", [blocks |-> DOMAIN chain.blocks, txids |-> getCanonicalTxids(chain)], "mark")
  /\ UNCHANGED steady

(* The second: the blocks, and what is no longer canonical.                *)
Marked(rows, ids) == [id \in DOMAIN rows |-> rows[id] /\ id \in ids]
MarkedTrades(rows, ids) == Marked(rows, ids)

MarkCanonical ==
  /\ job.pc = "mark"
  /\ LET ids == job.seen["txids"]
     IN  db' = [db EXCEPT
           !.blocks = @ \cup job.seen["blocks"],
           !.events = [id \in DOMAIN @ |-> <<@[id][1], @[id][2] /\ id \in ids>>],
           !.mints = Marked(@, ids),
           !.trades = MarkedTrades(@, ids)]
  /\ To("cursor")
  /\ UNCHANGED steady /\ Same

SetCursor ==
  /\ job.pc = "cursor"
  /\ db' = [db EXCEPT !.cursor = job.seen["height"]]
  /\ job' = [Idle EXCEPT !.pc = "graduate"]
  /\ UNCHANGED steady /\ Same

(* maybeGraduate: sold out on the chain and in the tables, and the last    *)
(* mint deep enough.                                                       *)
LastMint(c, d) ==
  LET hs == {c.events[id].height : id \in {i \in Canonical(c) :
               c.events[i].op = "MINT" /\ c.events[i].dep = d}}
  IN  IF hs = {} THEN c.height + 1 ELSE CHOOSE h \in hs : \A k \in hs : k <= h

Graduates(d) ==
  /\ chain.tokens[d].status = "SOLD_OUT"
  /\ chain.height - LastMint(chain, d) + 1 >= Finality

maybeGraduate ==
  /\ job.pc = "graduate"
  /\ job' = [job EXCEPT !.pc = "set", !.todo = {d \in DOMAIN chain.tokens : Graduates(d)}]
  /\ UNCHANGED <<db, steady>> /\ Same

(* setTokenStatus, then the transaction: two systems, two steps.           *)
SetGraduating ==
  /\ job.pc = "set"
  /\ LET todo == {d \in job.todo : d \in DOMAIN db.tokens /\ db.tokens[d].status = "SOLD_OUT"}
     IN  IF todo = {} THEN job' = Idle /\ UNCHANGED db
         ELSE \E d \in todo :
                /\ db' = [db EXCEPT !.tokens[d].status = "GRADUATING"]
                /\ job' = [job EXCEPT !.pc = "submit", !.todo = todo,
                                       !.seen = [x \in {"now"} |-> d]]
  /\ UNCHANGED steady /\ Same

SubmitGraduation ==
  /\ job.pc = "submit"
  /\ LET d == job.seen["now"]
     IN  IF d \in DOMAIN chain.tokens
         THEN /\ chain' = graduate(chain, d)
              /\ job' = [Idle EXCEPT !.pc = "set", !.todo = job.todo \ {d}]
         ELSE UNCHANGED chain /\ job' = Idle
  /\ UNCHANGED <<spent, db, steady, stale, died>>

(* The process dies, a reset may have emptied the first k tables, and is   *)
(* started again: its start seeds the demo tokens.                         *)
Crash ==
  /\ died < MaxCrashes
  /\ job.pc # "idle"
  /\ \E k \in 0 .. (IF job.pc = "reset" THEN Len(Tables) - 1 ELSE 0) : db' = Emptied(k)
  /\ job' = Idle
  /\ died' = died + 1
  /\ chain' = seedMockChain(chain)
  /\ steady' = FALSE
  /\ UNCHANGED <<spent, stale>>

JobStep ==
  \/ StartJob \/ resetProjections
  \/ ReadTokens \/ ReadEvents \/ WriteRows \/ ReadBlocks \/ MarkCanonical \/ SetCursor
  \/ maybeGraduate \/ SetGraduating \/ SubmitGraduation

Next ==
  \/ JobStep
  \/ Crash
  \/ WalletStep /\ job.pc = "idle" /\ UNCHANGED <<db, job, steady, stale, died>>
  \/ MineBlock /\ steady' = FALSE /\ UNCHANGED <<db, job, stale, died>>
  \/ \E k \in 1 .. 2 : Reorg(k) /\ steady' = FALSE /\ stale' = TRUE /\ UNCHANGED <<db, job, died>>

Spec == Init /\ [][Next]_vars
-----------------------------------------------------------------------------
Tokens(c) == {d \in DOMAIN c.tokens : ~c.tokens[d].seed}
SeedIds == {s.id : s \in Seeds}

(* What a demo token has minted before anybody bought any of it. *)
Given(d) == IF d \in SeedIds THEN (CHOOSE s \in Seeds : s.id = d).minted ELSE 0

(* Transactions of the blocks that are about a demo token. *)
OnDemo(c) == {id \in getCanonicalTxids(c) : c.txs[id].tx.dep \in SeedIds}
Total(f) == F!FoldFunction(LAMBDA x, y : x + y, 0, f)
Holdings(c, d) == [a \in DOMAIN c.wallets |-> Amount(c.wallets[a].tokens, d)]
OnOffer(c, a, d, states) ==
  [l \in {x \in DOMAIN c.listings : /\ c.listings[x].seller = a
                                    /\ c.listings[x].dep = d
                                    /\ c.listings[x].status \in states} |-> c.listings[l].amount]

Status == {"LIVE", "SOLD_OUT", "GRADUATING", "GRADUATED"}

(* Every variable keeps its shape. *)
TypeOK ==
  /\ chain.height = Len(chain.blocks)
  /\ \A d \in DOMAIN chain.tokens : chain.tokens[d].status \in Status \ {"GRADUATING"}
  /\ \A d \in DOMAIN db.tokens : db.tokens[d].status \in Status
  /\ \A l \in DOMAIN chain.listings :
       chain.listings[l].status \in {"OPEN", "TAKEN", "CANCELLED", "EXPIRED"}
  /\ \A id \in DOMAIN chain.txs :
       (chain.txs[id].status = "MEMPOOL") = (\E i \in DOMAIN chain.mempool : chain.mempool[i] = id)
  /\ db.cursor \in Nat
  /\ steady \in BOOLEAN /\ stale \in BOOLEAN

(* assertProtocolInvariants of chain.ts, with the lock accounting made     *)
(* exact: what of a token was bought somebody holds and has paid for, sold *)
(* out means minted in full, and what a wallet cannot spend is what its    *)
(* listings hold back, the expired ones included, for mineBlock expires a  *)
(* listing and leaves its lock.  A ticker names one token, but a demo      *)
(* token may come back beside a user's of the same ticker: a rebuild       *)
(* forgets it, the ticker is deployed, and the worker's start seeds it.    *)
ChainInvariants ==
  /\ \A d \in DOMAIN chain.tokens :
       LET t == chain.tokens[d]
       IN  /\ t.minted \in Given(d) .. Public
           /\ t.status # "LIVE" <=> t.minted = Public
           /\ t.reserve = Quote(0, t.minted)
           /\ Total(Holdings(chain, d)) = t.minted - Given(d)
  /\ \A a \in DOMAIN chain.wallets :
       LET w == chain.wallets[a]
       IN  /\ w.btc >= 0
           /\ \A d \in DOMAIN w.tokens : w.tokens[d] >= 0
           /\ \A d \in DOMAIN w.locked :
                /\ w.locked[d] = Total(OnOffer(chain, a, d, {"OPEN", "EXPIRED"}))
                /\ w.locked[d] <= Amount(w.tokens, d)
  /\ \A d, e \in DOMAIN chain.tokens :
       (chain.tokens[d].ticker = chain.tokens[e].ticker /\ d # e) =>
          spent.reorgs > 0 /\ died > 0 /\ chain.tokens[d].seed # chain.tokens[e].seed

(* No satoshi appears or is lost: what the faucet gave is in the wallets,  *)
(* in the reserves (a demo token's own apart, which nobody paid), or went  *)
(* to the miners.                                                          *)
BtcConserved ==
  LET paying == {id \in DOMAIN chain.txs : /\ chain.txs[id].status = "CONFIRMED"
                                           /\ chain.txs[id].tx.op \in {"DEPLOY", "MINT", "DEX_BID"}}
  IN  Faucet * Cardinality(DOMAIN chain.wallets)
        = Total([a \in DOMAIN chain.wallets |-> chain.wallets[a].btc])
          + Total([d \in DOMAIN chain.tokens |-> chain.tokens[d].reserve - Quote(0, Given(d))])
          + MinerFee * Cardinality(paying)

(* The chain's state is what its blocks replay to, whatever was mined and  *)
(* reorganised on the way, but for two things rebuildDerivedState forgets: *)
(* which listings had expired, and the demo tokens.  The transactions that *)
(* are about a demo token, confirmed ones too, are refused by the replay,  *)
(* with all that was bought and paid through them, and no other is; their  *)
(* events alone stay canonical without being confirmed.                    *)
ReplayAgrees ==
  LET again == rebuildDerivedState(chain)
      demo == OnDemo(chain)
  IN  /\ \A id \in DOMAIN chain.txs :
           IF id \in demo THEN again.txs[id].status = "REJECTED" ELSE again.txs[id] = chain.txs[id]
      /\ demo = {} => again.wallets = chain.wallets /\ again.earned = chain.earned
      /\ again.tokens = [d \in Tokens(chain) |-> chain.tokens[d]]
      /\ \A d \in Tokens(chain), a \in DOMAIN chain.wallets :
           Available(again, a, d) = Available(chain, a, d)
      /\ DOMAIN again.listings = {l \in DOMAIN chain.listings : chain.listings[l].dep \notin SeedIds}
      /\ \A l \in DOMAIN again.listings :
           \/ again.listings[l] = chain.listings[l]
           \/ /\ chain.listings[l].status = "EXPIRED"
              /\ again.listings[l] = [chain.listings[l] EXCEPT !.status = "OPEN"]
      /\ \A id \in Canonical(chain) \ demo : chain.txs[id].status = "CONFIRMED"

(* What a clean sync of the present chain writes, the statuses aside.      *)
RowsAgree ==
  LET evs == getEvents(chain, chain.height)
  IN  /\ DOMAIN db.tokens = DOMAIN chain.tokens
      /\ \A d \in DOMAIN chain.tokens :
           db.tokens[d] = TokenRow(chain.tokens[d], db.tokens[d].status)
      /\ db.balances = BalanceRows(chain.wallets)
      /\ db.listings = ListingRows(chain.listings)
      /\ db.events = EventRows(evs)
      /\ db.trades = All(Kind(evs, "DEX_BID"), TRUE)
      /\ db.mints = All(Kind(evs, "MINT"), TRUE)
      /\ db.cursor = chain.height

(* The row's status is the chain's, or one step ahead on the way there.    *)
StatusAgrees(d) ==
  \/ db.tokens[d].status = chain.tokens[d].status
  \/ db.tokens[d].status = "GRADUATING" /\ chain.tokens[d].status = "SOLD_OUT"

Synced == steady /\ job.pc \in {"idle", "graduate", "set", "submit"}

(* A sync that no block interrupted leaves the rows a clean reindex would  *)
(* write, after crashes and after a rebuild, unless a reorganisation is    *)
(* still unwiped.  The status agrees too while no block is ever removed: a *)
(* graduation that returns to the mempool is mined before the worker has   *)
(* marked the rebuilt row, and SOLD_OUT to GRADUATED is no legal step.     *)
SyncIsReindex ==
  Synced =>
    /\ ~stale => RowsAgree
    /\ spent.reorgs = 0 => \A d \in DOMAIN chain.tokens : StatusAgrees(d)

(* A token graduates once its last mint is final, if no block was removed  *)
(* in between; and a row says GRADUATING only with the transaction on its  *)
(* way, if the worker lived.                                               *)
GraduatesFinal ==
  /\ \A id \in DOMAIN chain.txs :
       LET tx == chain.txs[id].tx
       IN  (tx.op = "GRADUATION" /\ chain.txs[id].status = "CONFIRMED" /\ spent.reorgs = 0)
             => chain.txs[id].height >= LastMint(chain, tx.dep) + Finality
  /\ \A d \in DOMAIN db.tokens :
       (db.tokens[d].status = "GRADUATING" /\ died = 0 /\ spent.reorgs = 0) =>
          \/ job.pc = "submit" /\ d \in job.todo
          \/ \E id \in DOMAIN chain.txs :
               /\ chain.txs[id].tx.op = "GRADUATION"
               /\ chain.txs[id].tx.dep = d
               /\ chain.txs[id].status # "REJECTED"

(* The mock chain keeps its books: its own invariants hold, no satoshi is  *)
(* lost, and its state is the replay of its blocks after any reorg, except *)
(* for what happened on the demo tokens.                                   *)
ChainSound == TypeOK /\ ChainInvariants /\ ReplayAgrees /\ BtcConserved

(* The tables are what a clean reindex writes, and a token graduates only  *)
(* when its sale is final.                                                 *)
ProjectionRight == SyncIsReindex /\ GraduatesFinal
=============================================================================
