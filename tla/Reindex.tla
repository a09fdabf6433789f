------------------------------- MODULE Reindex -------------------------------
(***************************************************************************)
(* Rebuilding the index, and what it does to a worker.                     *)
(*                                                                         *)
(*   packages/cove-indexer/src/v3/reindex.ts   reindexDb                   *)
(*   packages/cove-indexer/src/v3/verify.ts    quickVerify, fullVerify     *)
(*   packages/cove-indexer/src/v3/cli-run.ts   the command                 *)
(*                                                                         *)
(* reindexDb marks the cursor in one transaction, deletes the projection   *)
(* in the next, replays block by block with rebuilding set, verifies and   *)
(* clears the flag; it may die between any two of them, and the active     *)
(* chain may change.  The worker of PersistentIndexer is here too, its     *)
(* ticks in steps of one transaction: the command takes no lock, so the    *)
(* two may run one after the other or beside each other.                   *)
(***************************************************************************)
EXTENDS BlockTree, FiniteSets

CONSTANTS MaxMoves,    \* bound on the changes of the active chain
          MaxRuns,     \* bound on the starts of the command
          MaxCrashes   \* bound on the deaths of either process

VARIABLES core,     \* the tip of Core's active chain
          db,       \* the tables: [cursor, journal, rebuilding]
          worker,   \* [pc, mem, tip, h, anc]
          rebuild,  \* reindexDb: [pc, mem, tip, h, seen, steady]
          beside,   \* the two processes may overlap
          used,     \* bounds: [moves, runs, crashes]
          torn      \* the chain moved while the rows of the index were replayed

vars == <<core, db, worker, rebuild, beside, used, torn>>

Empty == [cursor |-> NoBlock, journal |-> Nothing]
Content(journal) == UNION {CoveTxs[journal[h]] : h \in DOMAIN journal}
BlockHash(h) == Ancestor[core][h]
OnChain(b) == b # NoBlock /\ Height[b] <= Height[core] /\ BlockHash(Height[b]) = b

ApplyBlock(x, b) == [cursor |-> b, journal |-> PutAt(x.journal, Height[b], b)]
UndoBlock(x, h) ==
  [cursor |-> IF h - 1 \in DOMAIN x.journal THEN x.journal[h - 1] ELSE NoBlock,
   journal |-> Del(x.journal, {h})]

(* Mutant: there is no unique index. *)
RefusedNever(b) == FALSE

(* persistBlock, with the unique indexes on heights and on transactions.   *)
Refused(b) ==
  \/ Height[b] \in DOMAIN db.journal
  \/ CoveTxs[b] \cap Content(db.journal) # {}
Persisted(b, flag) ==
  [cursor |-> b, journal |-> ApplyBlock(db, b).journal, rebuilding |-> flag]

Start(x) == IF Height[x.cursor] + 1 > Activation THEN Height[x.cursor] + 1 ELSE Activation

Down == [pc |-> "down", mem |-> Empty, tip |-> 0, h |-> 0, anc |-> 0]
Idle == [pc |-> "idle", mem |-> Empty, tip |-> 0, h |-> 0, seen |-> {}, steady |-> TRUE]

(* The index has followed some chain when the story begins; below the      *)
(* activation height it has no cursor row, which reads as rebuilding.      *)
Standing(b) == IF Height[b] < Activation THEN NoBlock ELSE b

Init ==
  /\ core \in Block
  /\ db = [cursor |-> Standing(core), journal |-> Replay(core),
           rebuilding |-> Standing(core) = NoBlock]
  /\ worker = Down
  /\ rebuild = Idle
  /\ beside \in BOOLEAN
  /\ used = [moves |-> 0, runs |-> 0, crashes |-> 0]
  /\ torn = FALSE

(* External: the active chain changes, between two ticks of the worker.    *)
CoreMoves ==
  /\ used.moves < MaxMoves
  /\ worker.pc \in {"down", "idle"}
  /\ core' \in Block \ {core}
  /\ rebuild' = [rebuild EXCEPT !.steady = FALSE]
  /\ used' = [used EXCEPT !.moves = @ + 1]
  /\ torn' = (torn \/ rebuild.pc = "replay")
  /\ UNCHANGED <<db, worker, beside>>

-----------------------------------------------------------------------------
(* The worker *)

Hydrate ==
  /\ worker.pc = "down"
  /\ beside \/ rebuild.pc = "idle"
  /\ worker' = [Down EXCEPT !.pc = "idle", !.mem = [cursor |-> db.cursor, journal |-> db.journal]]
  /\ UNCHANGED <<core, db, rebuild, beside, used, torn>>

(* The highest height, up to the cursor and the tip, where memory and Core *)
(* agree; the chain does not move during a tick.                           *)
CommonHeight(x) ==
  LET agree == {h \in Activation .. Height[core] :
                  h <= Height[x.cursor] /\ h \in DOMAIN x.journal /\ x.journal[h] = BlockHash(h)}
  IN  IF agree = {} THEN Activation - 1 ELSE CHOOSE h \in agree : \A k \in agree : k <= h

Tick ==
  LET cur == worker.mem.cursor
      reorged == cur # NoBlock /\ Height[cur] <= Height[core] /\ ~OnChain(cur)
      anc == CommonHeight(worker.mem)
  IN  /\ worker.pc = "idle"
      /\ worker' = [worker EXCEPT !.pc = IF reorged THEN "undo" ELSE "sync",
                                  !.tip = Height[core],
                                  !.h = IF reorged THEN Height[cur] ELSE Start(worker.mem),
                                  !.anc = anc]
      /\ UNCHANGED <<core, db, rebuild, beside, used, torn>>

(* One orphaned block: rollback leaves the flag as it is; without its undo *)
(* record the tick throws.                                                 *)
Undo ==
  /\ worker.pc = "undo"
  /\ \/ /\ worker.h > worker.anc /\ worker.h \notin DOMAIN worker.mem.journal
        /\ worker' = [worker EXCEPT !.pc = "failed"] /\ UNCHANGED db
     \/ /\ worker.h > worker.anc /\ worker.h \in DOMAIN worker.mem.journal
        /\ LET back == UndoBlock(worker.mem, worker.h)
           IN  /\ db' = [db EXCEPT !.cursor = back.cursor, !.journal = Del(@, {worker.h})]
               /\ worker' = [worker EXCEPT !.mem = back, !.h = @ - 1]
     \/ /\ worker.h <= worker.anc
        /\ worker' = [worker EXCEPT !.pc = "sync",
                                    !.h = IF worker.anc + 1 > Activation THEN worker.anc + 1
                                          ELSE Activation]
        /\ UNCHANGED db
  /\ UNCHANGED <<core, rebuild, beside, used, torn>>

(* The next block: known, refused by a unique index, or persisted with     *)
(* rebuilding: false.                                                      *)
Sync ==
  /\ worker.pc = "sync"
  /\ LET b == BlockHash(worker.h)
         known == worker.h \in DOMAIN worker.mem.journal /\ worker.mem.journal[worker.h] = b
     IN  IF worker.h > worker.tip
         THEN worker' = [worker EXCEPT !.pc = "idle"] /\ UNCHANGED db
         ELSE IF known THEN worker' = [worker EXCEPT !.h = @ + 1] /\ UNCHANGED db
         ELSE IF Refused(b) THEN worker' = [worker EXCEPT !.pc = "failed"] /\ UNCHANGED db
         ELSE /\ db' = Persisted(b, FALSE)
              /\ worker' = [worker EXCEPT !.mem = ApplyBlock(@, b), !.h = @ + 1]
  /\ UNCHANGED <<core, rebuild, beside, used, torn>>

(* tick() catches, waits and tries again. *)
TryAgain ==
  /\ worker.pc = "failed"
  /\ worker' = [worker EXCEPT !.pc = "idle"]
  /\ UNCHANGED <<core, db, rebuild, beside, used, torn>>

(* It dies, or an operator stops it. *)
WorkerStops ==
  /\ worker.pc # "down" /\ used.crashes < MaxCrashes
  /\ worker' = Down
  /\ used' = [used EXCEPT !.crashes = @ + 1]
  /\ UNCHANGED <<core, db, rebuild, beside, torn>>

-----------------------------------------------------------------------------
(* reindexDb *)

(* The command starts, and marks the cursor. *)
Mark ==
  /\ rebuild.pc = "idle" /\ used.runs < MaxRuns
  /\ beside \/ worker.pc = "down"
  /\ db' = [db EXCEPT !.cursor = NoBlock, !.rebuilding = TRUE]
  /\ rebuild' = [Idle EXCEPT !.pc = "clear"]
  /\ used' = [used EXCEPT !.runs = @ + 1]
  /\ UNCHANGED <<core, worker, beside, torn>>

(* The derived tables are emptied; persistentWorker reads the tip. *)
Clear ==
  /\ rebuild.pc = "clear"
  /\ db' = [db EXCEPT !.journal = Nothing]
  /\ rebuild' = [rebuild EXCEPT !.pc = "replay", !.tip = Height[core], !.h = Activation]
  /\ torn' = FALSE
  /\ UNCHANGED <<core, worker, beside, used>>

(* A failing step throws: the process ends and leaves the flag as it is. *)
Fails == rebuild' = Idle /\ UNCHANGED <<core, db, worker, beside, used, torn>>

Go(r) == rebuild' = r /\ UNCHANGED <<core, db, worker, beside, used, torn>>

ReplayNext ==
  /\ rebuild.pc = "replay"
  /\ IF rebuild.h > rebuild.tip THEN Go([rebuild EXCEPT !.pc = "root"])
     ELSE IF rebuild.h > Height[core] \/ Refused(BlockHash(rebuild.h)) THEN Fails
     ELSE /\ db' = Persisted(BlockHash(rebuild.h), TRUE)
          /\ rebuild' = [rebuild EXCEPT !.mem = ApplyBlock(@, BlockHash(rebuild.h)), !.h = @ + 1]
          /\ UNCHANGED <<core, worker, beside, used, torn>>

(* computeStateRootFromDb against the root in memory. *)
CompareRoots ==
  /\ rebuild.pc = "root"
  /\ IF Content(db.journal) = Content(rebuild.mem.journal)
     THEN Go([rebuild EXCEPT !.pc = "quick"]) ELSE Fails

CursorHash == rebuild.mem.cursor = NoBlock \/ OnChain(rebuild.mem.cursor)

(* The cursor's hash, and every vault unspent in Core: a Cove transaction  *)
(* above the cursor, or its absence below, may have moved one.             *)
QuickVerify ==
  /\ rebuild.pc = "quick"
  /\ \/ CursorHash /\ Go([rebuild EXCEPT !.pc = "full", !.steady = TRUE])
     \/ ~CursorHash /\ Fails
     \/ CursorHash /\ Content(Replay(core)) # Content(rebuild.mem.journal) /\ Fails

(* fullVerify: the cursor's hash again, then a fresh replay from height 1, *)
(* of which applyBlock ignores what is below the activation height, and    *)
(* the roots compared.                                                     *)
FullVerify ==
  /\ rebuild.pc = "full"
  /\ IF CursorHash THEN Go([rebuild EXCEPT !.pc = "again", !.h = 1, !.seen = {}]) ELSE Fails

ReplayAgain ==
  /\ rebuild.pc = "again"
  /\ IF rebuild.h > Height[rebuild.mem.cursor]
     THEN IF rebuild.seen = Content(rebuild.mem.journal)
          THEN Go([rebuild EXCEPT !.pc = "finish"]) ELSE Fails
     ELSE IF rebuild.h > Height[core] THEN Fails
     ELSE Go([rebuild EXCEPT !.h = @ + 1,
                             !.seen = IF rebuild.h < Activation THEN @
                                      ELSE @ \cup CoveTxs[BlockHash(rebuild.h)]])

Finish ==
  /\ rebuild.pc = "finish"
  /\ db' = [db EXCEPT !.cursor = rebuild.mem.cursor, !.rebuilding = FALSE]
  /\ rebuild' = [rebuild EXCEPT !.pc = "done"]
  /\ UNCHANGED <<core, worker, beside, used, torn>>

Exit == rebuild.pc = "done" /\ Fails

CommandDies ==
  /\ rebuild.pc \notin {"idle", "done"} /\ used.crashes < MaxCrashes
  /\ rebuild' = Idle
  /\ used' = [used EXCEPT !.crashes = @ + 1]
  /\ UNCHANGED <<core, db, worker, beside, torn>>

WorkerNext == Hydrate \/ Tick \/ Undo \/ Sync \/ TryAgain \/ WorkerStops
CommandNext ==
  \/ Mark \/ Clear \/ ReplayNext \/ CompareRoots \/ QuickVerify \/ FullVerify
  \/ ReplayAgain \/ Finish \/ Exit \/ CommandDies
Next == CoreMoves \/ WorkerNext \/ CommandNext

Spec == Init /\ [][Next]_vars

-----------------------------------------------------------------------------
(* Properties *)

(* computeHealth *)
Healthy ==
  /\ ~db.rebuilding
  /\ db.cursor = NoBlock \/ OnChain(db.cursor)
  /\ Height[core] - Height[db.cursor] <= 2

TypeOK ==
  /\ core \in Block /\ db.cursor \in Cursor /\ db.rebuilding \in BOOLEAN
  /\ IsMap(db.journal, Nat, Block) /\ \A h \in DOMAIN db.journal : Height[db.journal[h]] = h
  /\ worker.pc \in {"down", "idle", "undo", "sync", "failed"}
  /\ worker.pc \in {"undo", "sync"} => worker.tip = Height[core]

(* When the worker is stopped for a reindex, the index calls itself        *)
(* healthy only over the content of Core's chain up to its cursor, however *)
(* often the command dies on the way and whichever process goes on after   *)
(* it.  If the chain moved while the rows were replayed, only a command    *)
(* that has verified them on a chain that stood still vouches for them.    *)
HealthyIsReplay ==
  (~beside /\ Healthy /\ (torn => rebuild.pc = "done") /\ (rebuild.pc = "done" => rebuild.steady)) =>
    Content(db.journal) = Content(Replay(db.cursor))

(* Even beside a worker, the command reports success only over the content *)
(* of the chain it verified.                                               *)
VerifiedIsReplay ==
  (rebuild.pc = "finish" /\ rebuild.steady) =>
    /\ CursorHash
    /\ Content(rebuild.mem.journal) = Content(Replay(rebuild.mem.cursor))

(* A tick of the worker throws only while rows lie above the cursor: the   *)
(* half reset that a command leaves when it dies between its first two     *)
(* transactions.                                                           *)
FailsOnlyHalfReset ==
  (worker.pc = "failed" /\ ~beside /\ ~torn) =>
    \E h \in DOMAIN db.journal : h > Height[db.cursor]

(* While the command rebuilds alone, nothing but its own success ends the  *)
(* rebuilding state.                                                       *)
HiddenWhileRebuilding ==
  (~beside /\ rebuild.pc \notin {"idle", "done"}) => db.rebuilding

(* A rebuild can be trusted: what it verified, and what calls itself       *)
(* healthy after it or after its death, is the content of the chain; it is *)
(* hidden while it lasts; and the worker fails only on a half reset.       *)
ReplayIsTrusted ==
  /\ TypeOK /\ HealthyIsReplay /\ VerifiedIsReplay
  /\ FailsOnlyHalfReset /\ HiddenWhileRebuilding
=============================================================================
