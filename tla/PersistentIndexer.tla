-------------------------- MODULE PersistentIndexer --------------------------
(***************************************************************************)
(* The V3 worker: the loop that keeps the index in step with Bitcoin Core. *)
(*                                                                         *)
(*   apps/worker/src/v3.ts                    tick                         *)
(*   packages/cove-indexer/src/v3/persistent.ts                            *)
(*   packages/cove-indexer/src/v3/hydrate.ts  hydrateState                 *)
(*   packages/cove-indexer/src/v3/health.ts   computeHealth                *)
(*                                                                         *)
(* Between any two calls to Core or Postgres the active chain may change,  *)
(* a call may fail, and the process may die.  What a block does to the     *)
(* balances is the subject of CoveLedger, where undoing a block is shown   *)
(* to restore them exactly; here the index is its journal, the blocks it   *)
(* has applied by height, and its cursor.                                  *)
(***************************************************************************)
EXTENDS BlockTree

CONSTANTS MaxMoves,    \* bound on the changes of the active chain
          MaxFaults    \* bound on crashes, failing calls and lost acknowledgements

VARIABLES core,    \* the tip of Core's active chain
          mem,     \* V3IndexerState of the worker: [cursor, journal]
          db,      \* the cove_v3 tables: [cursor, journal]
          pc,      \* where the tick stands
          loc,     \* the tick's local variables: [tip, h, anc]
          moves, faults,
          lost,    \* history: commits whose acknowledgement never came, since
                   \* memory and tables were last equal
          harm     \* history: what the chain's moves did to this tick

vars == <<core, mem, db, pc, loc, moves, faults, lost, harm>>

CV == INSTANCE ChainView WITH view <- db.cursor, torn <- (harm = "torn")

ASSUME BoundsAssumption ==
  /\ MaxMoves \in Nat
  /\ MaxFaults \in Nat

EmptyIndex == [cursor |-> NoBlock, journal |-> Nothing]

Init ==
  /\ core \in Block
  /\ mem = EmptyIndex
  /\ db = EmptyIndex
  /\ pc = "idle"
  /\ loc = [tip |-> 0, h |-> 0, anc |-> 0]
  /\ moves = 0
  /\ faults = 0
  /\ lost = 0
  /\ harm = "none"

-----------------------------------------------------------------------------
(* Bitcoin Core.  An extension, a reorganisation, or invalidateblock. *)
CoreMoves ==
  /\ moves < MaxMoves
  /\ core' \in Block \ {core}
  /\ moves' = moves + 1
  /\ UNCHANGED <<mem, db, pc, loc, faults>>

(* getBlockHash(h) answers, with the block of the active chain. *)
Answers(h) == h <= Height[core]
BlockHash(h) == Ancestor[core][h]

(* A call that throws ends the tick: tick() catches and waits. *)
Throws == pc' = "idle" /\ UNCHANGED <<core, mem, db, loc, moves, faults>>

-----------------------------------------------------------------------------
(* applyBlock and undoBlock on the journal and the cursor. *)
ApplyBlock(x, b) ==
  [cursor |-> b, journal |-> Put(x.journal, [h \in {Height[b]} |-> b])]

UndoBlock(x, h) ==
  [cursor |-> IF h - 1 \in DOMAIN x.journal THEN x.journal[h - 1] ELSE NoBlock,
   journal |-> Del(x.journal, {h})]

(* The unique indexes on blocks and undo (network, height) and on events   *)
(* (network, txid) refuse the block.                                       *)
Refuses(d, b) ==
  \/ Height[b] \in DOMAIN d.journal
  \/ \E h \in DOMAIN d.journal : CoveTxs[d.journal[h]] \cap CoveTxs[b] # {}

(* Mutant: the staged state is never adopted. *)
CommitNotAdopted(d, staged) ==
  /\ db' = d
  /\ loc' = [loc EXCEPT !.h = IF pc = "undo" THEN @ - 1 ELSE @ + 1]
  /\ UNCHANGED <<core, mem, pc, moves, faults>>

(* One database transaction, then adopt(staged): the memory follows only a *)
(* commit that is acknowledged.                                            *)
Commit(d, staged) ==
  /\ db' = d
  /\ mem' = staged
  /\ loc' = [loc EXCEPT !.h = IF pc = "undo" THEN @ - 1 ELSE @ + 1]
  /\ UNCHANGED <<core, pc, moves, faults>>

CommitUnacknowledged(d) ==
  /\ faults < MaxFaults
  /\ db' = d
  /\ pc' = "idle"
  /\ faults' = faults + 1
  /\ UNCHANGED <<core, mem, loc, moves>>

(* getBlockHash, getBlock, applyBlock on a clone, persistBlock, adopt.     *)
(* getBlock answers for any hash, so reading the block when its hash is    *)
(* read loses no behaviour.                                                *)
PersistBlock(b) ==
  \/ ~Refuses(db, b) /\ Commit(ApplyBlock(db, b), ApplyBlock(mem, b))
  \/ ~Refuses(db, b) /\ CommitUnacknowledged(ApplyBlock(db, b))
  \/ Refuses(db, b) /\ Throws

-----------------------------------------------------------------------------
(* Mutants: a reorg to a chain of equal height is not looked at; no reorg  *)
(* is looked at.                                                           *)
TickBelowTip ==
  /\ pc = "idle"
  /\ loc' = [loc EXCEPT !.tip = Height[core]]
  /\ pc' = IF mem.cursor # NoBlock /\ Height[mem.cursor] < Height[core]
             THEN "check" ELSE "sync"
  /\ UNCHANGED <<core, mem, db, moves, faults>>

TickUnchecked ==
  /\ pc = "idle"
  /\ loc' = [loc EXCEPT !.tip = Height[core]]
  /\ pc' = "sync"
  /\ UNCHANGED <<core, mem, db, moves, faults>>

(* tick: is the cursor's block still on the active chain? *)
Tick ==
  /\ pc = "idle"
  /\ loc' = [loc EXCEPT !.tip = Height[core]]
  /\ pc' = IF mem.cursor # NoBlock /\ Height[mem.cursor] <= Height[core]
             THEN "check" ELSE "sync"
  /\ UNCHANGED <<core, mem, db, moves, faults>>

CheckCursor ==
  /\ pc = "check"
  /\ \/ ~Answers(Height[mem.cursor]) /\ Throws
     \/ /\ Answers(Height[mem.cursor])
        /\ pc' = IF BlockHash(Height[mem.cursor]) = mem.cursor
                   THEN "sync" ELSE "reorg"
        /\ UNCHANGED <<core, mem, db, loc, moves, faults>>

(* reorgPersistentToTip: the tip is read once, then the common ancestor is *)
(* searched downwards, never below the block before activation.            *)
Floor == Activation - 1

ReorgTip ==
  /\ pc = "reorg"
  /\ loc' = LET capped == IF Height[mem.cursor] > Height[core]
                            THEN Height[core] ELSE Height[mem.cursor]
            IN  [tip |-> Height[core], h |-> Height[mem.cursor],
                 anc |-> IF capped < Floor THEN Floor ELSE capped]
  /\ pc' = "walk"
  /\ UNCHANGED <<core, mem, db, moves, faults>>

(* Mutant: the hash of the cursor is compared at every height. *)
CommonWithCursor(h) == mem.cursor = BlockHash(h)

Common(h) == h \in DOMAIN mem.journal /\ mem.journal[h] = BlockHash(h)

Walk ==
  /\ pc = "walk"
  /\ loc.anc > Floor
  /\ \/ ~Answers(loc.anc) /\ Throws
     \/ /\ Answers(loc.anc)
        /\ ~Common(loc.anc)
        /\ loc' = [loc EXCEPT !.anc = @ - 1]
        /\ UNCHANGED <<core, mem, db, pc, moves, faults>>

WalkDone ==
  /\ pc = "walk"
  /\ loc.anc > Floor => Answers(loc.anc) /\ Common(loc.anc)
  /\ pc' = "undo"
  /\ UNCHANGED <<core, mem, db, loc, moves, faults>>

(* Mutant: the whole rollback in one transaction. *)
UndoAtOnce ==
  /\ pc = "undo"
  /\ loc.h > loc.anc
  /\ LET kept == [h \in {k \in DOMAIN mem.journal : k <= loc.anc} |-> mem.journal[h]]
         back == [cursor |-> IF loc.anc \in DOMAIN kept THEN kept[loc.anc] ELSE NoBlock,
                  journal |-> kept]
     IN  db' = back /\ mem' = back
  /\ loc' = [loc EXCEPT !.h = loc.anc]
  /\ UNCHANGED <<core, pc, moves, faults>>

(* undoBlock on a clone, rollback in one transaction, adopt. *)
Undo ==
  /\ pc = "undo"
  /\ loc.h > loc.anc
  /\ \/ loc.h \notin DOMAIN mem.journal /\ Throws
     \/ /\ loc.h \in DOMAIN mem.journal
        /\ LET staged == UndoBlock(mem, loc.h)
               rolled == [cursor |-> staged.cursor,
                          journal |-> Del(db.journal, {loc.h})]
           IN  Commit(rolled, staged) \/ CommitUnacknowledged(rolled)

(* Mutant: the replay starts one block too high. *)
UndoDoneSkipping ==
  /\ pc = "undo"
  /\ loc.h <= loc.anc
  /\ loc' = [loc EXCEPT !.h = loc.anc + 2]
  /\ pc' = "replay"
  /\ UNCHANGED <<core, mem, db, moves, faults>>

UndoDone ==
  /\ pc = "undo"
  /\ loc.h <= loc.anc
  /\ loc' = [loc EXCEPT !.h = loc.anc + 1]
  /\ pc' = "replay"
  /\ UNCHANGED <<core, mem, db, moves, faults>>

ReplayBlock ==
  /\ pc = "replay"
  /\ loc.h <= loc.tip
  /\ \/ ~Answers(loc.h) /\ Throws
     \/ Answers(loc.h) /\ PersistBlock(BlockHash(loc.h))

ReplayDone ==
  /\ pc = "replay"
  /\ loc.h > loc.tip
  /\ pc' = "sync"
  /\ UNCHANGED <<core, mem, db, loc, moves, faults>>

(* persistentWorker: from the block after the cursor to the tip. *)
SyncTip ==
  /\ pc = "sync"
  /\ loc' = [loc EXCEPT !.tip = Height[core],
                        !.h = IF Height[mem.cursor] + 1 > Activation
                                THEN Height[mem.cursor] + 1 ELSE Activation]
  /\ pc' = "index"
  /\ UNCHANGED <<core, mem, db, moves, faults>>

IndexBlock ==
  /\ pc = "index"
  /\ loc.h <= loc.tip
  /\ \/ ~Answers(loc.h) /\ Throws
     \/ /\ Answers(loc.h)
        /\ Common(loc.h)
        /\ loc' = [loc EXCEPT !.h = @ + 1]
        /\ UNCHANGED <<core, mem, db, pc, moves, faults>>
     \/ /\ Answers(loc.h)
        /\ ~Common(loc.h)
        /\ PersistBlock(BlockHash(loc.h))

IndexDone ==
  /\ pc = "index"
  /\ loc.h > loc.tip
  /\ pc' = "idle"
  /\ UNCHANGED <<core, mem, db, loc, moves, faults>>

-----------------------------------------------------------------------------
(* Mutant: the exception is not caught and the loop ends. *)
CallFailsUncaught ==
  /\ pc \notin {"idle", "down"}
  /\ faults < MaxFaults
  /\ faults' = faults + 1
  /\ pc' = "exited"
  /\ UNCHANGED <<core, mem, db, loc, moves>>

(* A call to Core or Postgres fails; an open transaction is rolled back. *)
CallFails ==
  /\ pc \notin {"idle", "down"}
  /\ faults < MaxFaults
  /\ faults' = faults + 1
  /\ pc' = "idle"
  /\ UNCHANGED <<core, mem, db, loc, moves>>

(* The process dies and its memory with it. *)
Crash ==
  /\ pc # "down"
  /\ faults < MaxFaults
  /\ faults' = faults + 1
  /\ pc' = "down"
  /\ mem' = EmptyIndex
  /\ UNCHANGED <<core, db, loc, moves>>

(* hydrateState. *)
Restart ==
  /\ pc = "down"
  /\ mem' = db
  /\ pc' = "idle"
  /\ UNCHANGED <<core, db, loc, moves, faults>>

-----------------------------------------------------------------------------
(* The history, written by every step and read by none.  A move of the     *)
(* chain in the middle of a tick is remembered as "moved" until the tick   *)
(* ends, unless it only adds blocks above an index that is not above Core. *)
(* An index written to after such a move, or through a memory that is not  *)
(* the tables', is "torn" from then on.                                    *)
OnlyExtends ==
  /\ Height[mem.cursor] <= Height[core]
  /\ Height[core] <= Height[core']
  /\ Ancestor[core'][Height[core]] = core

Remember ==
  /\ lost' = IF pc' = "down" \/ mem' = db' THEN 0
             ELSE IF db' # db /\ pc' = "idle" THEN lost + 1 ELSE lost
  /\ harm' = IF \/ harm = "torn"
                \/ harm = "moved" /\ pc' # "down" /\ (db' # db \/ mem' # mem)
                \/ mem # db /\ db' # db
               THEN "torn"
             ELSE IF pc' \in {"idle", "down"} THEN "none"
             ELSE IF core' # core /\ ~OnlyExtends THEN "moved" ELSE harm

Step ==
  \/ Tick \/ CheckCursor
  \/ ReorgTip \/ Walk \/ WalkDone \/ Undo \/ UndoDone \/ ReplayBlock \/ ReplayDone
  \/ SyncTip \/ IndexBlock \/ IndexDone
  \/ Restart

Work == Step /\ Remember

Next ==
  \/ Work
  \/ CoreMoves /\ Remember
  \/ CallFails /\ Remember
  \/ Crash /\ Remember

Spec == Init /\ [][Next]_vars

(* The process polls for ever, and the supervisor restarts it. *)
FairSpec == Spec /\ WF_vars(Work)

-----------------------------------------------------------------------------
IsIndex(x) ==
  /\ x = [cursor |-> x.cursor, journal |-> x.journal]
  /\ x.cursor \in Cursor
  /\ x.journal \in [DOMAIN x.journal -> Block]
  /\ DOMAIN x.journal \subseteq Nat \ {0}

(* Type correctness; the loops of a tick stay within their bounds. *)
TypeOK ==
  /\ core \in Block
  /\ IsIndex(mem)
  /\ IsIndex(db)
  /\ pc \in {"idle", "check", "reorg", "walk", "undo", "replay", "sync",
             "index", "down"}
  /\ loc \in [tip : Nat, h : Nat, anc : Nat]
  /\ moves \in 0 .. MaxMoves
  /\ faults \in 0 .. MaxFaults
  /\ lost \in Nat
  /\ harm \in {"none", "moved", "torn"}

(* Memory and database are in lockstep (persistent.ts, lines 8-13): while  *)
(* the worker runs, its state is the tables', whatever fails, however the  *)
(* chain moves, unless the acknowledgement of a commit never arrived.      *)
Lockstep == pc # "down" /\ lost = 0 => mem = db

(* The index is the clean replay of the chain its cursor stands on, with   *)
(* no block of another branch, no gap and no leftover of a rollback, until *)
(* a tick goes on writing after a reorganisation overtook it, or a memory  *)
(* that missed a commit is written through.                                *)
CleanReplay == harm # "torn" => db.journal = Replay(db.cursor)

(* The heights at which memory and tables hold different blocks, or only   *)
(* one of them holds a block.                                              *)
Drift ==
  {h \in DOMAIN mem.journal \cup DOMAIN db.journal :
     \/ h \notin DOMAIN mem.journal \cap DOMAIN db.journal
     \/ mem.journal[h] # db.journal[h]}

(* A commit whose acknowledgement is lost sets memory and tables apart at  *)
(* one height, and nothing the worker does afterwards, torn or not, under  *)
(* any reorg, spreads the damage to another height.                        *)
DriftBounded == pc # "down" => Cardinality(Drift) <= lost

OnCore(b) == Answers(Height[b]) /\ BlockHash(Height[b]) = b

(* computeHealth answers HEALTHY, or would if the cursor row did not exist *)
(* yet: the cursor's block is Core's at that height, at most 2 behind.     *)
Healthy ==
  /\ Height[db.cursor] <= Height[core]
  /\ db.cursor # NoBlock => BlockHash(Height[db.cursor]) = db.cursor
  /\ Height[core] - Height[db.cursor] <= 2

(* An index that is called healthy and is not torn holds blocks of the     *)
(* active chain only: an incremental index after a reorg equals a clean    *)
(* replay of the chain Core has (docs/ARCHITECTURE.md, lines 106-107), in  *)
(* the middle of a tick and after a lost acknowledgement too.              *)
HealthyIsCanonical ==
  Healthy /\ harm # "torn" => \A h \in DOMAIN db.journal : OnCore(db.journal[h])

(* A block of the active chain is never rolled back, by a rollback that    *)
(* does not tear the index: the search for the common ancestor stops at    *)
(* the highest common block, and blocks mined meanwhile do not matter.     *)
OnlyOrphansUndone ==
  [][harm' # "torn" => \A h \in DOMAIN db.journal \ DOMAIN db.journal' :
       ~OnCore(db.journal[h])]_vars

(* The index moves along the tree one block at a time, and is only given   *)
(* up where the history says it is torn (module ChainView).                *)
FollowsChain == CV!Spec

(* Once Core stops moving and calls stop failing, the index reaches the    *)
(* tip and stays there, unless Core's chain got shorter than the index,    *)
(* which the tick does not look at, or memory and tables are still apart   *)
(* or the index is torn, which only a reindex repairs.                     *)
EventuallySynced ==
  <>[](\/ db.cursor = core \/ Height[db.cursor] > Height[core]
       \/ Height[core] < Activation
       \/ lost > 0 \/ harm = "torn")

-----------------------------------------------------------------------------
(* The inductive invariant: what each point of the tick knows about the    *)
(* block x the worker's memory stands at, as long as nothing but blocks on *)
(* top was added to the chain since the tick began.                        *)
AtTipOf(x, h) ==
  \/ x = NoBlock /\ h = Activation
  \/ x # NoBlock /\ OnCore(x) /\ h = Height[x] + 1

Shared(x, k) == k <= Height[core] /\ Ancestor[x][k] = BlockHash(k)

Searching(x) ==
  /\ loc.tip <= Height[core]
  /\ Floor <= loc.anc /\ loc.anc <= loc.h /\ loc.h <= Height[core]
  /\ x # NoBlock => loc.h = Height[x]
  /\ x = NoBlock => loc.h = Floor
  /\ \A k \in loc.anc + 1 .. loc.h : ~Shared(x, k)

Position(x) ==
  /\ pc \in {"check", "reorg"} => x # NoBlock /\ Height[x] <= Height[core]
  /\ pc = "walk" => x # NoBlock /\ Searching(x)
  /\ pc = "undo" => Searching(x) /\ (loc.anc > Floor => Shared(x, loc.anc))
  /\ pc = "replay" => loc.tip <= Height[core] /\ AtTipOf(x, loc.h)
  /\ pc = "sync" => x = NoBlock \/ OnCore(x) \/ Height[x] > Height[core]
  /\ pc = "index" => /\ loc.tip <= Height[core]
                     /\ loc.h > loc.tip \/ AtTipOf(x, loc.h)

(* x is a clean replay of a chain from the activation height. *)
Clean(x) ==
  /\ x.journal = Replay(x.cursor)
  /\ x.cursor # NoBlock => Height[x.cursor] >= Activation

IndexInv ==
  /\ TypeOK
  /\ Lockstep
  /\ harm # "torn" => Clean(db) /\ Clean(mem)
  /\ harm = "none" => Position(mem.cursor)
=============================================================================
