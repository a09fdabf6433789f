---------------------------- MODULE Reindex_proofs ----------------------------
(***************************************************************************)
(* Proofs about Reindex: a rebuild can be trusted on every tree of blocks, *)
(* wherever the command dies, whichever process goes on, however often     *)
(* the active chain changes.                                               *)
(***************************************************************************)
EXTENDS Reindex, MapTheorems

(* Where an index may stand, and the height it reads next. *)
Place == {NoBlock} \cup {b \in Block : Height[b] >= Activation}
NextHeight(c) == IF c = NoBlock THEN Activation ELSE Height[c] + 1

(* Index position c lies on the chain that ends in t; what a replay of     *)
(* that chain has seen below a height.                                     *)
Agrees(t, c) == c = NoBlock \/ (Height[c] <= Height[t] /\ Ancestor[t][Height[c]] = c)
SeenOn(t, h) == UNION {CoveTxs[Ancestor[t][k]] : k \in Activation .. h - 1}

(* The worker and the command exclude each other, each has in memory what  *)
(* is in the tables, and the command keeps its flag up until it is done.   *)
AloneInv ==
  ~beside =>
    /\ worker.pc # "down" =>
         /\ rebuild.pc = "idle"
         /\ worker.mem.cursor = db.cursor /\ worker.mem.journal = db.journal
    /\ rebuild.pc \notin {"idle", "done"} => db.rebuilding
    /\ rebuild.pc = "clear" => db.cursor = NoBlock /\ rebuild.mem = Empty
    /\ rebuild.pc \notin {"idle", "clear"} =>
         rebuild.mem.cursor = db.cursor /\ rebuild.mem.journal = db.journal

(* Rows that were not torn are the replay of one chain, up to the cursor   *)
(* unless the command died between its first two transactions.             *)
Whole == ~beside /\ ~torn
HalfReset == db.cursor = NoBlock /\ db.rebuilding
RowsInv ==
  Whole => \E b \in Place : db.journal = Replay(b) /\ (db.cursor = b \/ HalfReset)

(* Walking back, the index stands at the height it undoes next, above one  *)
(* where it agrees with Core.                                              *)
UndoInv ==
  (Whole /\ worker.pc = "undo") =>
    /\ db.cursor \in Place /\ db.journal = Replay(db.cursor)
    /\ worker.h = NextHeight(db.cursor) - 1
    /\ worker.anc \in Activation - 1 .. worker.h
    /\ worker.anc >= Activation =>
         /\ worker.anc <= Height[core]
         /\ db.journal[worker.anc] = Ancestor[core][worker.anc]

(* Reading on, it has agreed with Core so far. *)
SyncInv ==
  (Whole /\ worker.pc = "sync") =>
    \/ worker.h > worker.tip
    \/ /\ \A k \in Activation .. worker.h - 1 :
            k \in DOMAIN db.journal /\ db.journal[k] = Ancestor[core][k]
       /\ db.cursor # NoBlock => worker.h = Height[db.cursor] + 1

FailedInv ==
  (Whole /\ worker.pc = "failed") => \E h \in DOMAIN db.journal : h > Height[db.cursor]

(* The command's replay stands on Core's chain until Core moves. *)
ReplayInv ==
  (Whole /\ rebuild.pc \notin {"idle", "clear"}) =>
    /\ db.cursor \in Place /\ db.journal = Replay(db.cursor)
    /\ rebuild.pc = "replay" =>
         /\ rebuild.h = NextHeight(db.cursor)
         /\ Agrees(core, db.cursor)

(* What a verification has established, while Core stands still. *)
VerifyInv ==
  rebuild.steady =>
    /\ rebuild.pc \in {"full", "again", "finish", "done"} => Agrees(core, rebuild.mem.cursor)
    /\ rebuild.pc = "again" =>
         /\ rebuild.h \in 1 .. Height[rebuild.mem.cursor] + 1
         /\ rebuild.seen = SeenOn(core, rebuild.h)
    /\ rebuild.pc \in {"finish", "done"} =>
         Content(rebuild.mem.journal) = Content(Replay(rebuild.mem.cursor))

WholeInv == RowsInv /\ UndoInv /\ SyncInv /\ FailedInv /\ ReplayInv

-----------------------------------------------------------------------------
(* The tree of blocks *)

LEMMA Heights ==
  /\ \A b \in Block : Height[b] \in Nat /\ Height[b] >= 1 /\ b # NoBlock
  /\ Height[NoBlock] = 0
  /\ Activation \in Nat /\ Activation >= 1
  BY ChainAssumption

LEMMA Ancestry ==
  ASSUME NEW b \in Block, NEW h \in 1 .. Height[b]
  PROVE  /\ Ancestor[b][h] \in Block
         /\ Height[Ancestor[b][h]] = h
         /\ \A k \in 1 .. h : Ancestor[Ancestor[b][h]][k] = Ancestor[b][k]
         /\ h = Height[b] => Ancestor[b][h] = b
         /\ h < Height[b] => CoveTxs[Ancestor[b][h]] \cap CoveTxs[b] = {}
  BY ChainAssumption

(* A block above the activation height extends the place of its parent. *)
LEMMA ParentType ==
  ASSUME NEW b \in Block, Height[b] >= Activation
  PROVE  /\ Parent(b) \in Place
         /\ NextHeight(Parent(b)) = Height[b]
         /\ Parent(b) = NoBlock => Height[b] = Activation
         /\ \A k \in Activation .. Height[b] - 1 :
              Ancestor[Parent(b)][k] = Ancestor[b][k]
<1> USE Heights
<1>1. CASE Height[b] = Activation
  BY <1>1 DEF Parent, Place, NextHeight
<1>2. CASE Height[b] # Activation
  <2>1. Height[b] - 1 \in 1 .. Height[b] /\ Height[b] - 1 >= Activation
    BY <1>2
  <2>2. Parent(b) = Ancestor[b][Height[b] - 1]
    BY <1>2 DEF Parent
  <2>3. /\ Parent(b) \in Block /\ Height[Parent(b)] = Height[b] - 1
        /\ \A k \in 1 .. Height[b] - 1 : Ancestor[Parent(b)][k] = Ancestor[b][k]
    BY <2>1, <2>2, Ancestry
  <2> QED BY <1>2, <2>1, <2>3 DEF Place, NextHeight
<1> QED BY <1>1, <1>2

(* applyBlock of the next block, and undoBlock, on a clean replay. *)
LEMMA ReplayGrow ==
  ASSUME NEW b \in Block, Height[b] >= Activation
  PROVE  PutAt(Replay(Parent(b)), Height[b], b) = Replay(b)
<1> USE Heights
<1> DEFINE p == Parent(b)
           H == Height[b]
<1>1. /\ p \in Place /\ NextHeight(p) = H
      /\ \A k \in Activation .. H - 1 : Ancestor[p][k] = Ancestor[b][k]
  BY ParentType
<1>2. H \in Nat /\ H >= Activation /\ Ancestor[b][H] = b
  BY Ancestry
<1> HIDE DEF p, H
<1>3. Activation .. Height[p] = Activation .. H - 1
  BY <1>1, <1>2 DEF Place, NextHeight
<1>4. (Activation .. Height[p]) \cup {H} = Activation .. H
  BY <1>1, <1>2 DEF Place, NextHeight
<1>5. PutAt(Replay(p), H, b) = [k \in Activation .. H |-> IF k = H THEN b ELSE Replay(p)[k]]
  BY <1>4 DEF PutAt, Replay
<1>6. \A k \in Activation .. H : (IF k = H THEN b ELSE Replay(p)[k]) = Ancestor[b][k]
  <2>1. Replay(p) = [k \in Activation .. H - 1 |-> Ancestor[p][k]]
    BY <1>3, Zenon DEF Replay
  <2>2. \A k \in Activation .. H - 1 : Replay(p)[k] = Ancestor[b][k]
    BY <1>1, <2>1
  <2> QED BY <1>2, <2>2
<1>7. Replay(b) = [k \in Activation .. H |-> Ancestor[b][k]]
  BY DEF Replay, H
<1> QED BY <1>5, <1>6, <1>7 DEF p, H

LEMMA ReplayShrink ==
  ASSUME NEW b \in Block, Height[b] >= Activation
  PROVE  /\ Del(Replay(b), {Height[b]}) = Replay(Parent(b))
         /\ Parent(b) = IF Height[b] - 1 \in DOMAIN Replay(b)
                          THEN Replay(b)[Height[b] - 1] ELSE NoBlock
<1> USE Heights
<1> DEFINE p == Parent(b)
           H == Height[b]
<1>1. /\ p \in Place /\ NextHeight(p) = H
      /\ \A k \in Activation .. H - 1 : Ancestor[p][k] = Ancestor[b][k]
  BY ParentType
<1>2. H \in Nat /\ H >= Activation
  OBVIOUS
<1>3. p = IF H = Activation THEN NoBlock ELSE Ancestor[b][H - 1]
  BY DEF Parent
<1>4. Replay(b) = [k \in Activation .. H |-> Ancestor[b][k]]
  BY DEF Replay
<1> HIDE DEF p, H
<1>5. Activation .. Height[p] = Activation .. H - 1
  BY <1>1, <1>2 DEF Place, NextHeight
<1>6. (Activation .. H) \ {H} = Activation .. H - 1
  BY <1>2
<1>7. Del(Replay(b), {H}) = [k \in Activation .. H - 1 |-> Ancestor[b][k]]
  BY <1>4, <1>6 DEF Del
<1>8. Replay(p) = [k \in Activation .. H - 1 |-> Ancestor[b][k]]
  BY <1>1, <1>5 DEF Replay
<1>9. p = IF H - 1 \in DOMAIN Replay(b) THEN Replay(b)[H - 1] ELSE NoBlock
  BY <1>2, <1>3, <1>4
<1> QED BY <1>7, <1>8, <1>9 DEF p, H

(* No Cove transaction of a block is in the replay of its parent. *)
LEMMA FreshContent ==
  ASSUME NEW b \in Block, Height[b] >= Activation
  PROVE  CoveTxs[b] \cap Content(Replay(Parent(b))) = {}
<1> USE Heights
<1>1. \A k \in DOMAIN Replay(Parent(b)) :
        k \in 1 .. Height[b] /\ k < Height[b] /\ Replay(Parent(b))[k] = Ancestor[b][k]
  BY ParentType DEF Replay, Place, NextHeight
<1>2. \A k \in DOMAIN Replay(Parent(b)) : CoveTxs[Replay(Parent(b))[k]] \cap CoveTxs[b] = {}
  BY <1>1, Ancestry
<1> QED BY <1>2 DEF Content

LEMMA ReplayNothing == Replay(NoBlock) = Nothing
<1>1. Activation .. Height[NoBlock] = {}
  BY Heights
<1> QED BY <1>1 DEF Replay, Nothing

-----------------------------------------------------------------------------
(* Types *)

Journal ==
  {j \in UNION {[D -> Block] : D \in SUBSET Nat} :
     IsFiniteSet(DOMAIN j) /\ \A h \in DOMAIN j : Height[j[h]] = h}
Index == [cursor : Cursor, journal : Journal]
Tx == UNION {CoveTxs[b] : b \in Block}

WorkerPc == {"down", "idle", "undo", "sync", "failed"}
RebuildPc ==
  {"idle", "clear", "replay", "root", "quick", "full", "again", "finish", "done"}
DbType == [cursor : Cursor, journal : Journal, rebuilding : BOOLEAN]
WorkerType == [pc : WorkerPc, mem : Index, tip : Nat, h : Int, anc : Int]
RebuildType ==
  [pc : RebuildPc, mem : Index, tip : Nat, h : Int, seen : SUBSET Tx, steady : BOOLEAN]

TypeInv ==
  /\ core \in Block /\ beside \in BOOLEAN /\ torn \in BOOLEAN
  /\ db \in DbType /\ worker \in WorkerType /\ rebuild \in RebuildType
  /\ worker.pc \in {"undo", "sync"} => worker.tip = Height[core]
  /\ worker.pc = "sync" => worker.h >= Activation
  /\ rebuild.pc = "replay" => rebuild.h >= Activation
  /\ rebuild.pc = "again" => rebuild.h >= 1

LEMMA JournalIsMap ==
  ASSUME NEW j
  PROVE  j \in Journal <=> IsMap(j, Nat, Block) /\ \A h \in DOMAIN j : Height[j[h]] = h
<1>1. ASSUME j \in Journal
      PROVE  IsMap(j, Nat, Block) /\ \A h \in DOMAIN j : Height[j[h]] = h
  <2>1. PICK D \in SUBSET Nat : j \in [D -> Block]
    BY <1>1 DEF Journal
  <2>2. DOMAIN j = D
    BY <2>1
  <2> QED BY <1>1, <2>1, <2>2 DEF Journal, IsMap
<1>2. ASSUME IsMap(j, Nat, Block), \A h \in DOMAIN j : Height[j[h]] = h
      PROVE  j \in Journal
  <2>1. j \in UNION {[D -> Block] : D \in SUBSET Nat}
    BY <1>2 DEF IsMap
  <2> QED BY <1>2, <2>1 DEF Journal, IsMap
<1> QED BY <1>1, <1>2

LEMMA JournalNothing == Nothing \in Journal
  BY NothingIsMap, JournalIsMap

LEMMA JournalPut ==
  ASSUME NEW j \in Journal, NEW b \in Block
  PROVE  PutAt(j, Height[b], b) \in Journal
<1> DEFINE g == PutAt(j, Height[b], b)
<1>1. Height[b] \in Nat
  BY Heights
<1>2. IsMap(j, Nat, Block) /\ \A h \in DOMAIN j : Height[j[h]] = h
  BY JournalIsMap
<1>3. IsMap(g, Nat, Block)
  BY <1>1, <1>2, PutKeyType
<1>4. \A h \in DOMAIN g : Height[g[h]] = h
  <2>1. /\ DOMAIN g = DOMAIN j \cup {Height[b]} /\ g[Height[b]] = b
        /\ \A x \in DOMAIN j : x # Height[b] => g[x] = j[x]
    BY DEF PutAt
  <2> HIDE DEF g
  <2> QED BY <1>2, <2>1
<1> QED BY <1>3, <1>4, JournalIsMap

LEMMA JournalDel ==
  ASSUME NEW j \in Journal, NEW h
  PROVE  Del(j, {h}) \in Journal
<1> DEFINE g == Del(j, {h})
<1>1. IsMap(j, Nat, Block) /\ \A k \in DOMAIN j : Height[j[k]] = k
  BY JournalIsMap
<1>2. IsMap(g, Nat, Block)
  BY <1>1, DelKeyType
<1>3. \A k \in DOMAIN g : Height[g[k]] = k
  BY <1>1 DEF Del
<1> QED BY <1>2, <1>3, JournalIsMap

LEMMA JournalReplay ==
  ASSUME NEW b \in Block
  PROVE  Replay(b) \in Journal
<1>1. PICK D : D = Activation .. Height[b]
  OBVIOUS
<1>2. D \subseteq Nat /\ \A h \in D : h \in 1 .. Height[b]
  BY <1>1, Heights
<1>3. IsFiniteSet(D)
  BY <1>1, FS_Interval, Heights
<1>4. Replay(b) = [h \in D |-> Ancestor[b][h]]
  BY <1>1, Zenon DEF Replay
<1>5. \A h \in D : Ancestor[b][h] \in Block /\ Height[Ancestor[b][h]] = h
  BY <1>2, Ancestry
<1>6. DOMAIN Replay(b) = D /\ Replay(b) \in [D -> Block]
      /\ \A h \in D : Height[Replay(b)[h]] = h
  BY <1>4, <1>5
<1>7. IsMap(Replay(b), Nat, Block)
  BY <1>2, <1>3, <1>6 DEF IsMap
<1> QED BY <1>6, <1>7, JournalIsMap

LEMMA EmptyType == Empty \in Index
  BY JournalNothing DEF Empty, Index, Cursor

LEMMA ApplyType ==
  ASSUME NEW x \in Index, NEW b \in Block
  PROVE  ApplyBlock(x, b) \in Index
<1>1. PutAt(x.journal, Height[b], b) \in Journal
  BY JournalPut DEF Index
<1> QED BY <1>1 DEF ApplyBlock, Index, Cursor

LEMMA UndoType ==
  ASSUME NEW x \in Index, NEW h
  PROVE  UndoBlock(x, h) \in Index
<1>1. Del(x.journal, {h}) \in Journal
  BY JournalDel DEF Index
<1>2. \A k \in DOMAIN x.journal : x.journal[k] \in Block
  BY JournalIsMap DEF Index, IsMap
<1> QED BY <1>1, <1>2 DEF UndoBlock, Index, Cursor

LEMMA BlockHashType ==
  ASSUME core \in Block, NEW h \in Int, h >= 1, h <= Height[core]
  PROVE  /\ BlockHash(h) \in Block /\ Height[BlockHash(h)] = h
         /\ \A k \in 1 .. h : Ancestor[BlockHash(h)][k] = BlockHash(k)
<1>1. h \in 1 .. Height[core]
  BY Heights
<1> QED BY <1>1, Ancestry DEF BlockHash

(* The common height is the greatest on which memory and Core agree. *)
LEMMA CommonType ==
  ASSUME core \in Block, NEW x \in Index
  PROVE  /\ CommonHeight(x) \in Int
         /\ CommonHeight(x) >= Activation - 1
         /\ CommonHeight(x) >= Activation =>
              /\ CommonHeight(x) <= Height[x.cursor]
              /\ CommonHeight(x) <= Height[core]
              /\ CommonHeight(x) \in DOMAIN x.journal
              /\ x.journal[CommonHeight(x)] = BlockHash(CommonHeight(x))
<1> USE Heights
<1>1. PICK A : A = {h \in Activation .. Height[core] :
               h <= Height[x.cursor] /\ h \in DOMAIN x.journal /\ x.journal[h] = BlockHash(h)}
  OBVIOUS
<1>2. CommonHeight(x) = IF A = {} THEN Activation - 1
                        ELSE CHOOSE h \in A : \A k \in A : k <= h
  BY <1>1 DEF CommonHeight
<1>3. CASE A = {}
  BY <1>2, <1>3
<1>4. CASE A # {}
  <2>1. A \in SUBSET Nat /\ Height[core] \in Nat /\ \A t \in A : t <= Height[core]
    BY <1>1
  <2>2. \E n \in A : \A m \in A : n >= m
    BY <1>4, <2>1, GreatestNat
  <2>3. \E n \in A : \A m \in A : m <= n
    BY <2>1, <2>2
  <2>4. CommonHeight(x) \in A
    BY <1>2, <1>4, <2>3, Zenon
  <2> QED BY <1>1, <2>4
<1> QED BY <1>3, <1>4

(* The fields of the records, and the records of a step. *)
LEMMA Fields ==
  ASSUME TypeInv
  PROVE  /\ core \in Block /\ Height[core] \in Nat
         /\ db.cursor \in Cursor /\ db.journal \in Journal /\ db.rebuilding \in BOOLEAN
         /\ db = [cursor |-> db.cursor, journal |-> db.journal, rebuilding |-> db.rebuilding]
         /\ Height[db.cursor] \in Nat
         /\ worker.pc \in WorkerPc /\ worker.mem \in Index /\ worker.tip \in Nat
         /\ worker.h \in Int /\ worker.anc \in Int
         /\ worker.mem.cursor \in Cursor /\ worker.mem.journal \in Journal
         /\ Height[worker.mem.cursor] \in Nat
         /\ rebuild.pc \in RebuildPc /\ rebuild.mem \in Index /\ rebuild.tip \in Nat
         /\ rebuild.h \in Int /\ rebuild.seen \in SUBSET Tx /\ rebuild.steady \in BOOLEAN
         /\ rebuild.mem.cursor \in Cursor /\ rebuild.mem.journal \in Journal
         /\ Height[rebuild.mem.cursor] \in Nat
<1>1. db.cursor \in Cursor /\ db.journal \in Journal /\ db.rebuilding \in BOOLEAN
      /\ db = [cursor |-> db.cursor, journal |-> db.journal, rebuilding |-> db.rebuilding]
  BY DEF TypeInv, DbType
<1>2. /\ worker.pc \in WorkerPc /\ worker.mem \in Index /\ worker.tip \in Nat
      /\ worker.h \in Int /\ worker.anc \in Int
  BY DEF TypeInv, WorkerType
<1>3. /\ rebuild.pc \in RebuildPc /\ rebuild.mem \in Index /\ rebuild.tip \in Nat
      /\ rebuild.h \in Int /\ rebuild.seen \in SUBSET Tx /\ rebuild.steady \in BOOLEAN
  BY DEF TypeInv, RebuildType
<1>4. \A x \in Index : x.cursor \in Cursor /\ x.journal \in Journal
  BY DEF Index
<1>5. \A c \in Cursor : Height[c] \in Nat
  BY Heights DEF Cursor
<1>6. core \in Block /\ Height[core] \in Nat
  BY Heights DEF TypeInv
<1> QED BY <1>1, <1>2, <1>3, <1>4, <1>5, <1>6

LEMMA DownIdleTypes == Down \in WorkerType /\ Idle \in RebuildType
<1>1. Down \in WorkerType
  BY EmptyType DEF Down, WorkerType, WorkerPc
<1>2. Idle \in RebuildType
  BY EmptyType DEF Idle, RebuildType, RebuildPc
<1> QED BY <1>1, <1>2

LEMMA TypeInit == Init => TypeInv
<1> SUFFICES ASSUME Init PROVE TypeInv
  OBVIOUS
<1>1. core \in Block /\ Replay(core) \in Journal /\ Standing(core) \in Cursor
  BY JournalReplay DEF Init, Standing, Cursor
<1>2. db \in DbType
  BY <1>1 DEF Init, DbType
<1>3. worker.pc = "down" /\ rebuild.pc = "idle"
  BY DEF Init, Down, Idle
<1> QED BY <1>1, <1>2, <1>3, DownIdleTypes DEF Init, TypeInv

(* A command that fails or ends, a worker that goes on with other fields. *)
LEMMA TypeKept ==
  ASSUME TypeInv, core' = core, beside' = beside, torn' \in BOOLEAN,
         db' \in DbType, worker' \in WorkerType, rebuild' \in RebuildType,
         worker'.pc \in {"undo", "sync"} => worker'.tip = Height[core],
         worker'.pc = "sync" => worker'.h >= Activation,
         rebuild'.pc = "replay" => rebuild'.h >= Activation,
         rebuild'.pc = "again" => rebuild'.h >= 1
  PROVE  TypeInv'
  BY DEF TypeInv

LEMMA TypeWorker == TypeInv /\ WorkerNext => TypeInv'
<1> SUFFICES ASSUME TypeInv, WorkerNext PROVE TypeInv'
  OBVIOUS
<1> USE Heights
<1>0. /\ core' = core /\ beside' = beside /\ torn' = torn /\ rebuild' = rebuild
      /\ torn' \in BOOLEAN /\ rebuild' \in RebuildType
      /\ rebuild'.pc = "replay" => rebuild'.h >= Activation
      /\ rebuild'.pc = "again" => rebuild'.h >= 1
  BY DEF TypeInv, WorkerNext, Hydrate, Tick, Undo, Sync, TryAgain, WorkerStops
<1>1. CASE Hydrate
  <2>1. [cursor |-> db.cursor, journal |-> db.journal] \in Index
    BY Fields DEF Index
  <2>2. worker' \in WorkerType
    BY <1>1, <2>1, DownIdleTypes DEF Hydrate, WorkerPc, WorkerType
  <2>3. worker'.pc = "idle" /\ db' = db
    BY <1>1 DEF Hydrate, Down
  <2>4. db' \in DbType
    BY <2>3 DEF TypeInv
  <2> QED BY <1>0, <2>2, <2>3, <2>4, TypeKept
<1>2. CASE Tick
  <2>1. CommonHeight(worker.mem) \in Int
    BY Fields, CommonType
  <2>2. Start(worker.mem) \in Int /\ Start(worker.mem) >= Activation
    BY Fields DEF Start
  <2>3. PICK reorged \in BOOLEAN :
          worker' = [worker EXCEPT !.pc = IF reorged THEN "undo" ELSE "sync",
                                   !.tip = Height[core],
                                   !.h = IF reorged THEN Height[worker.mem.cursor]
                                         ELSE Start(worker.mem),
                                   !.anc = CommonHeight(worker.mem)]
    BY <1>2 DEF Tick
  <2>4. worker' \in WorkerType
    <3>1. PICK p, h : /\ p = IF reorged THEN "undo" ELSE "sync"
                      /\ h = IF reorged THEN Height[worker.mem.cursor] ELSE Start(worker.mem)
      OBVIOUS
    <3>2. h \in Int /\ p \in WorkerPc /\ Height[core] \in Nat
      BY <2>2, <3>1, Fields DEF WorkerPc
    <3>3. worker' = [worker EXCEPT !.pc = p, !.tip = Height[core], !.h = h,
                                   !.anc = CommonHeight(worker.mem)]
      BY <2>3, <3>1
    <3>4. worker \in WorkerType
      BY DEF TypeInv
    <3> QED BY <2>1, <3>2, <3>3, <3>4 DEF WorkerType
  <2>5. /\ worker'.tip = Height[core]
        /\ worker'.pc = "sync" => worker'.h >= Activation
    BY <2>2, <2>3 DEF TypeInv, WorkerType
  <2>6. db' \in DbType
    BY <1>2 DEF TypeInv, Tick
  <2> QED BY <1>0, <2>4, <2>5, <2>6, TypeKept
<1>3. CASE Undo
  <2>1. CASE worker.h > worker.anc /\ worker.h \notin DOMAIN worker.mem.journal
    <3>1. worker' = [worker EXCEPT !.pc = "failed"] /\ db' = db
      BY <1>3, <2>1, Fields DEF Undo
    <3>2. worker' \in WorkerType /\ worker'.pc = "failed" /\ db' \in DbType
      BY <3>1 DEF WorkerPc, TypeInv, WorkerType
    <3> QED BY <1>0, <3>2, TypeKept
  <2>2. CASE worker.h > worker.anc /\ worker.h \in DOMAIN worker.mem.journal
    <3>1. PICK back : back = UndoBlock(worker.mem, worker.h)
      OBVIOUS
    <3>2. /\ db' = [db EXCEPT !.cursor = back.cursor, !.journal = Del(@, {worker.h})]
          /\ worker' = [worker EXCEPT !.mem = back, !.h = @ - 1]
      BY <1>3, <2>2, <3>1, Fields DEF Undo
    <3>3. back \in Index /\ back.cursor \in Cursor /\ Del(db.journal, {worker.h}) \in Journal
      BY <3>1, Fields, UndoType, JournalDel DEF Index
    <3>4. db' \in DbType
      BY <3>2, <3>3, Fields DEF DbType
    <3>5. worker' = [worker EXCEPT !.mem = back, !.h = worker.h - 1]
      BY <3>2
    <3>6. worker' \in WorkerType
      <4>1. worker \in WorkerType /\ worker.h - 1 \in Int
        BY Fields DEF TypeInv
      <4> QED BY <3>3, <3>5, <4>1 DEF WorkerType
    <3>7. worker'.pc = "undo" /\ worker'.tip = worker.tip
      BY <1>3, <3>5 DEF Undo, TypeInv, WorkerType
    <3> QED BY <1>0, <1>3, <3>4, <3>6, <3>7, TypeKept DEF TypeInv, Undo
  <2>3. CASE worker.h <= worker.anc
    <3>0. PICK h : h = IF worker.anc + 1 > Activation THEN worker.anc + 1 ELSE Activation
      OBVIOUS
    <3>1. /\ worker' = [worker EXCEPT !.pc = "sync", !.h = h] /\ db' = db
          /\ h \in Int /\ h >= Activation
      BY <1>3, <2>3, <3>0, Fields DEF Undo
    <3>2. worker' \in WorkerType
      BY <3>1 DEF WorkerPc, TypeInv, WorkerType
    <3>3. worker'.tip = worker.tip /\ worker'.h = h /\ db' \in DbType
      BY <3>1 DEF TypeInv, WorkerType
    <3> QED BY <1>0, <1>3, <3>1, <3>2, <3>3, TypeKept DEF TypeInv, Undo
  <2> QED BY <2>1, <2>2, <2>3, Fields
<1>4. CASE Sync
  <2>0. worker.pc = "sync" /\ worker.tip = Height[core] /\ worker.h >= Activation
        /\ worker \in WorkerType
    BY <1>4 DEF Sync, TypeInv
  <2>1. CASE db' = db
    <3>1. \/ worker' = [worker EXCEPT !.pc = "idle"]
          \/ worker' = [worker EXCEPT !.pc = "failed"]
          \/ worker' = [worker EXCEPT !.h = @ + 1]
      <4>1. ASSUME ~Refused(BlockHash(worker.h)), db' = Persisted(BlockHash(worker.h), FALSE)
            PROVE  FALSE
        <5>1. Height[BlockHash(worker.h)] \in DOMAIN db'.journal
          BY <4>1 DEF Persisted, ApplyBlock, PutAt
        <5> QED BY <2>1, <4>1, <5>1 DEF Refused
      <4> QED BY <1>4, <4>1 DEF Sync
    <3>2. worker' \in WorkerType
      BY <2>0, <3>1, Fields DEF WorkerPc, WorkerType
    <3>3. worker'.tip = worker.tip /\ worker'.h >= Activation
      BY <2>0, <3>1, Fields DEF WorkerType
    <3>4. db' \in DbType
      BY <2>1 DEF TypeInv
    <3> QED BY <1>0, <2>0, <3>2, <3>3, <3>4, TypeKept
  <2>2. CASE db' # db
    <3>1. worker.h \in Int /\ worker.h >= 1 /\ worker.h <= Height[core]
      <4>1. ~(worker.h > worker.tip)
        BY <1>4, <2>2 DEF Sync
      <4> QED BY <2>0, <4>1, Fields
    <3>2. PICK b : b = BlockHash(worker.h)
      OBVIOUS
    <3>3. b \in Block
      BY <3>1, <3>2, Fields, BlockHashType
    <3>4. /\ ApplyBlock(worker.mem, b) \in Index
          /\ PutAt(db.journal, Height[b], b) \in Journal
      BY <3>3, Fields, ApplyType, JournalPut
    <3>5. Persisted(b, FALSE) \in DbType
      BY <3>3, <3>4 DEF Persisted, ApplyBlock, Cursor, DbType
    <3>6. db' = Persisted(b, FALSE)
          /\ worker' = [worker EXCEPT !.mem = ApplyBlock(worker.mem, b), !.h = worker.h + 1]
      BY <1>4, <2>2, <3>2 DEF Sync
    <3>7. worker' \in WorkerType
      <4>1. worker.h + 1 \in Int
        BY <3>1
      <4> QED BY <2>0, <3>4, <3>6, <4>1 DEF WorkerType
    <3>8. worker'.tip = worker.tip /\ worker'.h = worker.h + 1
      BY <2>0, <3>6 DEF WorkerType
    <3> QED BY <1>0, <2>0, <3>1, <3>5, <3>6, <3>7, <3>8, TypeKept
  <2> QED BY <2>1, <2>2
<1>5. CASE TryAgain
  <2>1. worker' = [worker EXCEPT !.pc = "idle"] /\ db' \in DbType
    BY <1>5 DEF TryAgain, TypeInv
  <2>2. worker' \in WorkerType /\ worker'.pc = "idle"
    BY <2>1 DEF TypeInv, WorkerPc, WorkerType
  <2> QED BY <1>0, <2>1, <2>2, TypeKept
<1>6. CASE WorkerStops
  <2>1. worker' \in WorkerType /\ worker'.pc = "down" /\ db' \in DbType
    BY <1>6, DownIdleTypes DEF WorkerStops, Down, TypeInv
  <2> QED BY <1>0, <2>1, TypeKept
<1> QED BY <1>1, <1>2, <1>3, <1>4, <1>5, <1>6 DEF WorkerNext

LEMMA TypeCommand == TypeInv /\ CommandNext => TypeInv'
<1> SUFFICES ASSUME TypeInv, CommandNext PROVE TypeInv'
  OBVIOUS
<1> USE Heights
<1>0. /\ core' = core /\ beside' = beside /\ worker' = worker /\ torn' \in BOOLEAN
      /\ worker' \in WorkerType
      /\ worker'.pc \in {"undo", "sync"} => worker'.tip = Height[core]
      /\ worker'.pc = "sync" => worker'.h >= Activation
  BY DEF TypeInv, CommandNext, Mark, Clear, ReplayNext, CompareRoots, QuickVerify,
         FullVerify, ReplayAgain, Finish, Exit, CommandDies, Fails, Go
<1>1. rebuild \in RebuildType /\ db \in DbType
  BY DEF TypeInv
<1>2. ASSUME db' \in DbType, rebuild' \in RebuildType,
             rebuild'.pc = "replay" => rebuild'.h >= Activation,
             rebuild'.pc = "again" => rebuild'.h >= 1
      PROVE  TypeInv'
  BY <1>0, <1>2, TypeKept
<1>3. ASSUME db' = db, rebuild' = Idle PROVE TypeInv'
  <2>1. rebuild' \in RebuildType /\ rebuild'.pc = "idle"
    BY <1>3, DownIdleTypes DEF Idle
  <2> QED BY <1>1, <1>2, <1>3, <2>1
<1>4. ASSUME NEW p \in {"root", "quick", "full", "finish"}, NEW f \in BOOLEAN, db' = db,
             rebuild' = [rebuild EXCEPT !.pc = p] \/ rebuild' = [rebuild EXCEPT !.pc = p, !.steady = f]
      PROVE  TypeInv'
  <2>1. rebuild' \in RebuildType /\ rebuild'.pc = p
    BY <1>1, <1>4 DEF RebuildType, RebuildPc
  <2> QED BY <1>1, <1>2, <1>4, <2>1
<1>5. CASE Mark
  <2>1. rebuild' \in RebuildType /\ rebuild'.pc = "clear"
    <3>1. rebuild' = [Idle EXCEPT !.pc = "clear"] /\ "clear" \in RebuildPc
      BY <1>5 DEF Mark, RebuildPc
    <3>2. rebuild' \in RebuildType
      BY <3>1, DownIdleTypes DEF RebuildType
    <3>3. rebuild'.pc = "clear"
      BY <3>1 DEF Idle
    <3> QED BY <3>2, <3>3
  <2>2. db' \in DbType
    BY <1>1, <1>5 DEF Mark, DbType, Cursor
  <2> QED BY <1>2, <2>1, <2>2
<1>6. CASE Clear
  <2>1. rebuild' = [rebuild EXCEPT !.pc = "replay", !.tip = Height[core], !.h = Activation]
    BY <1>6 DEF Clear
  <2>2. Height[core] \in Nat
    BY Fields
  <2>3. rebuild' \in RebuildType /\ rebuild'.h = Activation /\ rebuild'.pc = "replay"
    <3>1. "replay" \in RebuildPc /\ Activation \in Int
      BY DEF RebuildPc
    <3> QED BY <1>1, <2>1, <2>2, <3>1 DEF RebuildType
  <2>4. db' \in DbType
    BY <1>1, <1>6, JournalNothing DEF Clear, DbType
  <2> QED BY <1>2, <2>3, <2>4
<1>7. CASE ReplayNext
  <2>1. CASE rebuild.h > rebuild.tip
    BY <1>4, <1>7, <2>1 DEF ReplayNext, Go
  <2>2. CASE ~(rebuild.h > rebuild.tip) /\ (rebuild.h > Height[core] \/ Refused(BlockHash(rebuild.h)))
    BY <1>3, <1>7, <2>2 DEF ReplayNext, Fails
  <2>3. CASE ~(rebuild.h > rebuild.tip) /\ ~(rebuild.h > Height[core]) /\ ~Refused(BlockHash(rebuild.h))
    <3>0. rebuild.h \in Int /\ rebuild.h >= Activation /\ Height[core] \in Nat
      BY <1>7, Fields DEF TypeInv, ReplayNext
    <3>1. rebuild.h \in Int /\ rebuild.h >= 1 /\ rebuild.h <= Height[core]
      BY <2>3, <3>0
    <3>2. PICK b : b = BlockHash(rebuild.h)
      OBVIOUS
    <3>3. b \in Block
      BY <3>1, <3>2, Fields, BlockHashType
    <3>4. /\ ApplyBlock(rebuild.mem, b) \in Index
          /\ PutAt(db.journal, Height[b], b) \in Journal
      BY <3>3, Fields, ApplyType, JournalPut
    <3>5. Persisted(b, TRUE) \in DbType
      BY <3>3, <3>4 DEF Persisted, ApplyBlock, Cursor, DbType
    <3>6. db' = Persisted(b, TRUE)
          /\ rebuild' = [rebuild EXCEPT !.mem = ApplyBlock(rebuild.mem, b), !.h = rebuild.h + 1]
      BY <1>7, <2>3, <3>2 DEF ReplayNext
    <3>7. rebuild.h + 1 \in Int /\ rebuild.h + 1 >= Activation /\ rebuild.h + 1 >= 1
      BY <3>0
    <3>8. rebuild' \in RebuildType /\ rebuild'.h = rebuild.h + 1
      BY <1>1, <3>4, <3>6, <3>7 DEF RebuildType
    <3> QED BY <1>2, <3>5, <3>6, <3>7, <3>8
  <2> QED BY <2>1, <2>2, <2>3
<1>8. CASE CompareRoots
  BY <1>3, <1>4, <1>8 DEF CompareRoots, Go, Fails
<1>9. CASE QuickVerify
  BY <1>3, <1>4, <1>9 DEF QuickVerify, Go, Fails
<1>10. CASE FullVerify
  <2>1. CASE CursorHash
    <3>1. db' = db /\ rebuild' = [rebuild EXCEPT !.pc = "again", !.h = 1, !.seen = {}]
      BY <1>10, <2>1 DEF FullVerify, Go
    <3>2. rebuild' \in RebuildType /\ rebuild'.h = 1 /\ rebuild'.pc = "again"
      <4>1. \A r \in RebuildType : \A p \in RebuildPc, h \in Int, seen \in SUBSET Tx :
              [r EXCEPT !.pc = p, !.h = h, !.seen = seen] \in RebuildType
        BY DEF RebuildType
      <4>2. "again" \in RebuildPc /\ {} \in SUBSET Tx /\ 1 \in Int
        BY DEF RebuildPc
      <4>3. rebuild' \in RebuildType
        BY <1>1, <3>1, <4>1, <4>2, Zenon
      <4>4. rebuild'.h = 1 /\ rebuild'.pc = "again"
        BY <1>1, <3>1 DEF RebuildType
      <4> QED BY <4>3, <4>4
    <3> QED BY <1>1, <1>2, <3>1, <3>2
  <2> QED BY <1>3, <1>10, <2>1 DEF FullVerify, Fails
<1>11. CASE ReplayAgain
  <2>1. CASE rebuild.h > Height[rebuild.mem.cursor]
    BY <1>3, <1>4, <1>11, <2>1 DEF ReplayAgain, Go, Fails
  <2>2. CASE ~(rebuild.h > Height[rebuild.mem.cursor]) /\ rebuild.h > Height[core]
    BY <1>3, <1>11, <2>2 DEF ReplayAgain, Fails
  <2>3. CASE ~(rebuild.h > Height[rebuild.mem.cursor]) /\ ~(rebuild.h > Height[core])
    <3>1. rebuild.h \in Int /\ rebuild.h >= 1 /\ rebuild.h <= Height[core] /\ rebuild.pc = "again"
      BY <1>11, <2>3, Fields DEF TypeInv, ReplayAgain
    <3>2. BlockHash(rebuild.h) \in Block
      BY <3>1, Fields, BlockHashType
    <3>3. CoveTxs[BlockHash(rebuild.h)] \subseteq Tx
      BY <3>2 DEF Tx
    <3>4. PICK s : s = IF rebuild.h < Activation THEN rebuild.seen
                       ELSE rebuild.seen \cup CoveTxs[BlockHash(rebuild.h)]
      OBVIOUS
    <3>5. s \in SUBSET Tx
      BY <3>3, <3>4, Fields
    <3>6. db' = db /\ rebuild' = [rebuild EXCEPT !.h = rebuild.h + 1, !.seen = s]
      BY <1>11, <2>3, <3>4 DEF ReplayAgain, Go
    <3>7. rebuild.h + 1 \in Int /\ rebuild.h + 1 >= 1
      BY <3>1
    <3>8. rebuild' \in RebuildType /\ rebuild'.h = rebuild.h + 1 /\ rebuild'.pc = "again"
      BY <1>1, <3>1, <3>5, <3>6, <3>7 DEF RebuildType
    <3> QED BY <1>1, <1>2, <3>6, <3>7, <3>8
  <2> QED BY <2>1, <2>2, <2>3
<1>12. CASE Finish
  <2>1. rebuild' \in RebuildType /\ rebuild'.pc = "done"
    BY <1>1, <1>12 DEF Finish, RebuildType, RebuildPc
  <2>2. rebuild.mem.cursor \in Cursor
    BY Fields
  <2>3. db' \in DbType
    BY <1>1, <1>12, <2>2 DEF Finish, DbType
  <2> QED BY <1>2, <2>1, <2>3
<1>13. CASE Exit
  BY <1>3, <1>13 DEF Exit, Fails
<1>14. CASE CommandDies
  BY <1>3, <1>14 DEF CommandDies
<1> QED BY <1>5, <1>6, <1>7, <1>8, <1>9, <1>10, <1>11, <1>12, <1>13, <1>14 DEF CommandNext

LEMMA TypeStep == TypeInv /\ [Next]_vars => TypeInv'
<1> SUFFICES ASSUME TypeInv, [Next]_vars PROVE TypeInv'
  OBVIOUS
<1>1. CASE CoreMoves
  <2>1. rebuild' \in RebuildType /\ rebuild'.pc = rebuild.pc /\ rebuild'.h = rebuild.h
    BY <1>1 DEF CoreMoves, TypeInv, RebuildType
  <2>2. worker.pc \notin {"undo", "sync"} /\ core' \in Block /\ torn' \in BOOLEAN
        /\ worker' = worker /\ db' = db /\ beside' = beside
    BY <1>1 DEF CoreMoves, TypeInv
  <2> QED BY <2>1, <2>2 DEF TypeInv
<1>2. CASE UNCHANGED vars
  BY <1>2 DEF TypeInv, vars
<1> QED BY <1>1, <1>2, TypeWorker, TypeCommand DEF Next

-----------------------------------------------------------------------------
(* What each step does to the fields of the records *)

Known(h) == h \in DOMAIN worker.mem.journal /\ worker.mem.journal[h] = BlockHash(h)

LEMMA HydrateFields ==
  ASSUME Hydrate
  PROVE  /\ worker.pc = "down" /\ worker'.pc = "idle" /\ UNCHANGED <<core, db, rebuild, beside, torn>>
         /\ beside \/ rebuild.pc = "idle"
         /\ worker'.mem.cursor = db.cursor /\ worker'.mem.journal = db.journal
  BY DEF Hydrate, Down

LEMMA TickFields ==
  ASSUME TypeInv, Tick
  PROVE  /\ worker.pc = "idle" /\ UNCHANGED <<core, db, rebuild, beside, torn>>
         /\ worker'.mem = worker.mem /\ worker'.tip = Height[core]
         /\ worker'.anc = CommonHeight(worker.mem)
         /\ \/ /\ worker'.pc = "undo" /\ worker'.h = Height[worker.mem.cursor]
               /\ worker.mem.cursor # NoBlock
            \/ /\ worker'.pc = "sync" /\ worker'.h = Start(worker.mem)
               /\ \/ worker.mem.cursor = NoBlock \/ Height[worker.mem.cursor] > Height[core]
                  \/ OnChain(worker.mem.cursor)
<1>1. PICK reorged \in BOOLEAN :
        /\ reorged = (worker.mem.cursor # NoBlock /\ Height[worker.mem.cursor] <= Height[core]
                       /\ ~OnChain(worker.mem.cursor))
        /\ worker' = [worker EXCEPT !.pc = IF reorged THEN "undo" ELSE "sync",
                                   !.tip = Height[core],
                                   !.h = IF reorged THEN Height[worker.mem.cursor]
                                         ELSE Start(worker.mem),
                                   !.anc = CommonHeight(worker.mem)]
  BY DEF Tick
<1>2. worker.pc = "idle" /\ UNCHANGED <<core, db, rebuild, beside, torn>>
  BY DEF Tick
<1>3. /\ worker'.mem = worker.mem /\ worker'.tip = Height[core]
      /\ worker'.anc = CommonHeight(worker.mem)
      /\ worker'.pc = (IF reorged THEN "undo" ELSE "sync")
      /\ worker'.h = (IF reorged THEN Height[worker.mem.cursor] ELSE Start(worker.mem))
  BY <1>1 DEF TypeInv, WorkerType
<1>4. Height[worker.mem.cursor] \in Nat /\ Height[core] \in Nat
  BY Fields
<1>5. CASE reorged
  BY <1>1, <1>2, <1>3, <1>5, Zenon
<1>6. CASE ~reorged
  <2>1. \/ worker.mem.cursor = NoBlock \/ Height[worker.mem.cursor] > Height[core]
        \/ OnChain(worker.mem.cursor)
    <3>1. ~(/\ worker.mem.cursor # NoBlock /\ Height[worker.mem.cursor] <= Height[core]
            /\ ~OnChain(worker.mem.cursor))
      BY <1>1, <1>6, Zenon
    <3> QED BY <1>4, <3>1
  <2>2. worker'.pc = "sync" /\ worker'.h = Start(worker.mem)
    BY <1>3, <1>6
  <2> QED BY <1>2, <1>3, <2>1, <2>2, Zenon
<1> QED BY <1>5, <1>6

LEMMA UndoFields ==
  ASSUME TypeInv, Undo
  PROVE  /\ worker.pc = "undo" /\ UNCHANGED <<core, rebuild, beside, torn>>
         /\ worker'.tip = worker.tip /\ worker'.anc = worker.anc
         /\ \/ /\ worker.h > worker.anc /\ worker.h \notin DOMAIN worker.mem.journal
               /\ worker'.pc = "failed" /\ worker'.mem = worker.mem /\ db' = db
            \/ /\ worker.h > worker.anc /\ worker.h \in DOMAIN worker.mem.journal
               /\ worker'.pc = "undo" /\ worker'.h = worker.h - 1
               /\ worker'.mem = UndoBlock(worker.mem, worker.h)
               /\ db'.cursor = worker'.mem.cursor /\ db'.rebuilding = db.rebuilding
               /\ db'.journal = Del(db.journal, {worker.h})
            \/ /\ worker.h <= worker.anc /\ worker'.mem = worker.mem /\ db' = db
               /\ worker'.pc = "sync"
               /\ worker'.h = IF worker.anc + 1 > Activation THEN worker.anc + 1 ELSE Activation
<1>0. worker \in WorkerType /\ db \in DbType
  BY DEF TypeInv
<1>1. worker.pc = "undo" /\ UNCHANGED <<core, rebuild, beside, torn>>
  BY DEF Undo
<1>2. CASE /\ worker.h > worker.anc /\ worker.h \notin DOMAIN worker.mem.journal
           /\ worker' = [worker EXCEPT !.pc = "failed"] /\ db' = db
  <2>1. /\ worker'.tip = worker.tip /\ worker'.anc = worker.anc
        /\ worker'.pc = "failed" /\ worker'.mem = worker.mem
    BY <1>0, <1>2 DEF WorkerType
  <2> QED BY <1>1, <1>2, <2>1
<1>3. ASSUME NEW back, back = UndoBlock(worker.mem, worker.h),
             worker.h > worker.anc, worker.h \in DOMAIN worker.mem.journal,
             db' = [db EXCEPT !.cursor = back.cursor, !.journal = Del(@, {worker.h})],
             worker' = [worker EXCEPT !.mem = back, !.h = @ - 1]
      PROVE  /\ worker'.tip = worker.tip /\ worker'.anc = worker.anc
             /\ worker'.pc = worker.pc /\ worker'.h = worker.h - 1
             /\ worker'.mem = back
             /\ db'.cursor = back.cursor /\ db'.rebuilding = db.rebuilding
             /\ db'.journal = Del(db.journal, {worker.h})
  <2>1. /\ worker'.tip = worker.tip /\ worker'.anc = worker.anc
        /\ worker'.pc = worker.pc /\ worker'.h = worker.h - 1
        /\ worker'.mem = back
    BY <1>0, <1>3 DEF WorkerType
  <2>2. /\ db'.cursor = back.cursor /\ db'.rebuilding = db.rebuilding
        /\ db'.journal = Del(db.journal, {worker.h})
    BY <1>0, <1>3 DEF DbType
  <2> QED BY <2>1, <2>2
<1>4. CASE /\ worker.h <= worker.anc /\ db' = db
           /\ worker' = [worker EXCEPT !.pc = "sync",
                                       !.h = IF worker.anc + 1 > Activation THEN worker.anc + 1
                                             ELSE Activation]
  <2>1. /\ worker'.tip = worker.tip /\ worker'.anc = worker.anc
        /\ worker'.pc = "sync" /\ worker'.mem = worker.mem
        /\ worker'.h = IF worker.anc + 1 > Activation THEN worker.anc + 1 ELSE Activation
    BY <1>0, <1>4 DEF WorkerType
  <2> QED BY <1>1, <1>4, <2>1
<1> QED BY <1>1, <1>2, <1>3, <1>4 DEF Undo

LEMMA SyncFields ==
  ASSUME TypeInv, Sync
  PROVE  /\ worker.pc = "sync" /\ UNCHANGED <<core, rebuild, beside, torn>>
         /\ worker'.tip = worker.tip
         /\ \/ /\ worker.h > worker.tip /\ worker'.pc = "idle"
               /\ worker'.mem = worker.mem /\ db' = db
            \/ /\ worker.h <= worker.tip /\ Known(worker.h) /\ worker'.pc = "sync"
               /\ worker'.h = worker.h + 1 /\ worker'.mem = worker.mem /\ db' = db
            \/ /\ worker.h <= worker.tip /\ Refused(BlockHash(worker.h)) /\ ~Known(worker.h)
               /\ worker'.pc = "failed" /\ worker'.mem = worker.mem /\ db' = db
            \/ /\ worker.h <= worker.tip /\ ~Refused(BlockHash(worker.h))
               /\ worker'.pc = "sync" /\ worker'.h = worker.h + 1
               /\ worker'.mem = ApplyBlock(worker.mem, BlockHash(worker.h))
               /\ db' = Persisted(BlockHash(worker.h), FALSE)
<1>0. worker \in WorkerType /\ worker.h \in Int /\ worker.tip \in Nat
  BY Fields DEF TypeInv
<1>1. worker.pc = "sync" /\ UNCHANGED <<core, rebuild, beside, torn>>
  BY DEF Sync
<1>2. CASE worker.h > worker.tip
  <2>1. worker' = [worker EXCEPT !.pc = "idle"] /\ db' = db
    BY <1>2 DEF Sync
  <2>2. worker'.pc = "idle" /\ worker'.mem = worker.mem /\ worker'.tip = worker.tip
    BY <1>0, <2>1 DEF WorkerType
  <2> QED BY <1>1, <1>2, <2>1, <2>2
<1>3. CASE ~(worker.h > worker.tip) /\ Known(worker.h)
  <2>1. worker' = [worker EXCEPT !.h = @ + 1] /\ db' = db
    BY <1>3 DEF Sync, Known
  <2>2. worker'.pc = worker.pc /\ worker'.mem = worker.mem /\ worker'.tip = worker.tip
        /\ worker'.h = worker.h + 1
    BY <1>0, <2>1 DEF WorkerType
  <2>3. worker.h <= worker.tip
    BY <1>0, <1>3
  <2> QED BY <1>1, <1>3, <2>1, <2>2, <2>3, Zenon
<1>4. CASE ~(worker.h > worker.tip) /\ ~Known(worker.h) /\ Refused(BlockHash(worker.h))
  <2>1. worker' = [worker EXCEPT !.pc = "failed"] /\ db' = db
    BY <1>4 DEF Sync, Known
  <2>2. worker'.pc = "failed" /\ worker'.mem = worker.mem /\ worker'.tip = worker.tip
    BY <1>0, <2>1 DEF WorkerType
  <2>3. worker.h <= worker.tip
    BY <1>0, <1>4
  <2> QED BY <1>1, <1>4, <2>1, <2>2, <2>3, Zenon
<1>5. CASE ~(worker.h > worker.tip) /\ ~Known(worker.h) /\ ~Refused(BlockHash(worker.h))
  <2>1. /\ worker' = [worker EXCEPT !.mem = ApplyBlock(worker.mem, BlockHash(worker.h)),
                                    !.h = worker.h + 1]
        /\ db' = Persisted(BlockHash(worker.h), FALSE)
    BY <1>5 DEF Sync, Known
  <2>2. /\ worker'.pc = worker.pc /\ worker'.tip = worker.tip
        /\ worker'.mem = ApplyBlock(worker.mem, BlockHash(worker.h))
        /\ worker'.h = worker.h + 1
    BY <1>0, <2>1 DEF WorkerType
  <2>3. worker.h <= worker.tip
    BY <1>0, <1>5
  <2> QED BY <1>1, <1>5, <2>1, <2>2, <2>3, Zenon
<1> QED BY <1>2, <1>3, <1>4, <1>5

LEMMA StopFields ==
  ASSUME TypeInv, TryAgain \/ WorkerStops
  PROVE  /\ UNCHANGED <<core, db, rebuild, beside, torn>>
         /\ \/ worker'.pc = "down"
            \/ worker.pc = "failed" /\ worker'.pc = "idle" /\ worker'.mem = worker.mem
<1>1. CASE TryAgain
  BY <1>1 DEF TryAgain, TypeInv, WorkerType
<1>2. CASE WorkerStops
  BY <1>2 DEF WorkerStops, Down
<1> QED BY <1>1, <1>2


(* The command's steps by their fields: from pc p to pc q, from memory to  *)
(* memory.                                                                 *)
From(p, q) == rebuild.pc = p /\ rebuild'.pc = q
SameMem == rebuild'.mem = rebuild.mem
Marks ==
  /\ From("idle", "clear") /\ (beside \/ worker.pc = "down") /\ torn' = torn
  /\ db'.cursor = NoBlock /\ db'.journal = db.journal /\ db'.rebuilding = TRUE
  /\ rebuild'.mem = Empty
Clears ==
  /\ From("clear", "replay") /\ SameMem /\ rebuild'.h = Activation /\ torn' = FALSE
  /\ db'.cursor = db.cursor /\ db'.journal = Nothing /\ db'.rebuilding = db.rebuilding
Replays ==
  /\ From("replay", "replay") /\ torn' = torn
  /\ rebuild.h <= Height[core] /\ ~Refused(BlockHash(rebuild.h))
  /\ db' = Persisted(BlockHash(rebuild.h), TRUE)
  /\ rebuild'.mem = ApplyBlock(rebuild.mem, BlockHash(rebuild.h))
  /\ rebuild'.h = rebuild.h + 1
Verifies ==
  /\ db' = db /\ torn' = torn /\ SameMem
  /\ \/ From("replay", "root") \/ From("root", "quick")
     \/ From("quick", "full") /\ CursorHash
     \/ From("full", "again") /\ CursorHash /\ rebuild'.h = 1 /\ rebuild'.seen = {}
        /\ rebuild'.steady = rebuild.steady
     \/ From("again", "again") /\ rebuild'.steady = rebuild.steady
        /\ rebuild.h <= Height[rebuild.mem.cursor] /\ rebuild.h <= Height[core]
        /\ rebuild'.h = rebuild.h + 1
        /\ rebuild'.seen = IF rebuild.h < Activation THEN rebuild.seen
                           ELSE rebuild.seen \cup CoveTxs[BlockHash(rebuild.h)]
     \/ From("again", "finish") /\ rebuild'.steady = rebuild.steady
        /\ rebuild.h > Height[rebuild.mem.cursor]
        /\ rebuild.seen = Content(rebuild.mem.journal)
Ends == rebuild' = Idle /\ db' = db /\ torn' = torn
Finishes ==
  /\ From("finish", "done") /\ SameMem /\ rebuild'.steady = rebuild.steady /\ torn' = torn
  /\ db'.cursor = rebuild.mem.cursor /\ db'.journal = db.journal /\ db'.rebuilding = FALSE

LEMMA CommandFields ==
  ASSUME TypeInv, CommandNext
  PROVE  /\ UNCHANGED <<core, worker, beside>>
         /\ Marks \/ Clears \/ Replays \/ Verifies \/ Ends \/ Finishes
<1>0. rebuild \in RebuildType /\ db \in DbType
  BY DEF TypeInv
<1>1. UNCHANGED <<core, worker, beside>>
  BY DEF CommandNext, Mark, Clear, ReplayNext, CompareRoots, QuickVerify,
         FullVerify, ReplayAgain, Finish, Exit, CommandDies, Fails, Go
<1>2. ASSUME Fails PROVE Ends
  BY <1>2 DEF Fails, Ends
<1>3. CASE Mark
  <2>1. rebuild'.pc = "clear" /\ rebuild'.mem = Empty
    BY <1>3 DEF Mark, Idle
  <2>2. db'.cursor = NoBlock /\ db'.journal = db.journal /\ db'.rebuilding = TRUE
    BY <1>0, <1>3 DEF Mark, DbType
  <2> QED BY <1>1, <1>3, <2>1, <2>2 DEF Mark, Marks, From
<1>4. CASE Clear
  <2>1. rebuild'.pc = "replay" /\ SameMem /\ rebuild'.h = Activation
    BY <1>0, <1>4 DEF Clear, RebuildType, SameMem
  <2>2. db'.cursor = db.cursor /\ db'.journal = Nothing /\ db'.rebuilding = db.rebuilding
    BY <1>0, <1>4 DEF Clear, DbType
  <2> QED BY <1>1, <1>4, <2>1, <2>2 DEF Clear, Clears, From
<1>5. CASE ReplayNext
  <2>1. CASE rebuild.h > rebuild.tip
    <3>1. rebuild' = [rebuild EXCEPT !.pc = "root"] /\ db' = db /\ torn' = torn /\ rebuild.pc = "replay"
      BY <1>5, <2>1 DEF ReplayNext, Go
    <3>2. rebuild'.pc = "root" /\ SameMem
      BY <1>0, <3>1 DEF RebuildType, SameMem
    <3> QED BY <1>1, <3>1, <3>2 DEF Verifies, From
  <2>2. CASE ~(rebuild.h > rebuild.tip) /\ (rebuild.h > Height[core] \/ Refused(BlockHash(rebuild.h)))
    BY <1>1, <1>2, <1>5, <2>2 DEF ReplayNext
  <2>3. CASE ~(rebuild.h > rebuild.tip) /\ ~(rebuild.h > Height[core]) /\ ~Refused(BlockHash(rebuild.h))
    <3>1. /\ rebuild' = [rebuild EXCEPT !.mem = ApplyBlock(rebuild.mem, BlockHash(rebuild.h)),
                                        !.h = rebuild.h + 1]
          /\ db' = Persisted(BlockHash(rebuild.h), TRUE) /\ torn' = torn /\ rebuild.pc = "replay"
      BY <1>5, <2>3 DEF ReplayNext
    <3>2. /\ rebuild'.pc = rebuild.pc /\ rebuild'.h = rebuild.h + 1
          /\ rebuild'.mem = ApplyBlock(rebuild.mem, BlockHash(rebuild.h))
      BY <1>0, <3>1 DEF RebuildType
    <3>3. rebuild.h <= Height[core]
      BY <2>3, Fields
    <3> QED BY <1>1, <2>3, <3>1, <3>2, <3>3 DEF Replays, From
  <2> QED BY <2>1, <2>2, <2>3
<1>6. CASE CompareRoots
  <2>1. CASE rebuild' = [rebuild EXCEPT !.pc = "quick"]
    <3>1. rebuild'.pc = "quick" /\ SameMem
      BY <1>0, <2>1 DEF RebuildType, SameMem
    <3> QED BY <1>1, <1>2, <1>6, <3>1 DEF CompareRoots, Verifies, From, Go
  <2> QED BY <1>1, <1>2, <1>6, <2>1 DEF CompareRoots, Go
<1>7. CASE QuickVerify
  <2>1. CASE rebuild' = [rebuild EXCEPT !.pc = "full", !.steady = TRUE]
    <3>1. rebuild'.pc = "full" /\ SameMem
      BY <1>0, <2>1 DEF RebuildType, SameMem
    <3> QED BY <1>1, <1>2, <1>7, <3>1 DEF QuickVerify, Verifies, From, Go
  <2> QED BY <1>1, <1>2, <1>7, <2>1 DEF QuickVerify, Go
<1>8. CASE FullVerify
  <2>1. CASE rebuild' = [rebuild EXCEPT !.pc = "again", !.h = 1, !.seen = {}]
    <3>1. /\ rebuild'.pc = "again" /\ SameMem /\ rebuild'.h = 1 /\ rebuild'.seen = {}
          /\ rebuild'.steady = rebuild.steady
      BY <1>0, <2>1 DEF RebuildType, SameMem
    <3> QED BY <1>1, <1>2, <1>8, <3>1 DEF FullVerify, Verifies, From, Go
  <2> QED BY <1>1, <1>2, <1>8, <2>1 DEF FullVerify, Go
<1>9. CASE ReplayAgain
  <2>1. CASE rebuild.h > Height[rebuild.mem.cursor] /\ rebuild.seen = Content(rebuild.mem.journal)
    <3>1. rebuild' = [rebuild EXCEPT !.pc = "finish"] /\ db' = db /\ torn' = torn /\ rebuild.pc = "again"
      BY <1>9, <2>1 DEF ReplayAgain, Go
    <3>2. rebuild'.pc = "finish" /\ SameMem /\ rebuild'.steady = rebuild.steady
      BY <1>0, <3>1 DEF RebuildType, SameMem
    <3> QED BY <1>1, <2>1, <3>1, <3>2 DEF Verifies, From
  <2>2. CASE ~(rebuild.h > Height[rebuild.mem.cursor]) /\ ~(rebuild.h > Height[core])
    <3>1. PICK s : s = IF rebuild.h < Activation THEN rebuild.seen
                       ELSE rebuild.seen \cup CoveTxs[BlockHash(rebuild.h)]
      OBVIOUS
    <3>2. /\ rebuild' = [rebuild EXCEPT !.h = rebuild.h + 1, !.seen = s]
          /\ db' = db /\ torn' = torn /\ rebuild.pc = "again"
      BY <1>9, <2>2, <3>1 DEF ReplayAgain, Go
    <3>3. /\ rebuild'.pc = rebuild.pc /\ SameMem /\ rebuild'.steady = rebuild.steady
          /\ rebuild'.h = rebuild.h + 1 /\ rebuild'.seen = s
      BY <1>0, <3>2 DEF RebuildType, SameMem
    <3>4. rebuild.h <= Height[rebuild.mem.cursor] /\ rebuild.h <= Height[core]
      BY <2>2, Fields
    <3> QED BY <1>1, <3>1, <3>2, <3>3, <3>4 DEF Verifies, From
  <2> QED BY <1>1, <1>2, <1>9, <2>1, <2>2 DEF ReplayAgain
<1>10. CASE Finish
  <2>1. rebuild'.pc = "done" /\ SameMem /\ rebuild'.steady = rebuild.steady
    BY <1>0, <1>10 DEF Finish, RebuildType, SameMem
  <2>2. db'.cursor = rebuild.mem.cursor /\ db'.journal = db.journal /\ db'.rebuilding = FALSE
    BY <1>0, <1>10 DEF Finish, DbType
  <2> QED BY <1>1, <1>10, <2>1, <2>2 DEF Finish, Finishes, From
<1>11. CASE Exit
  BY <1>1, <1>2, <1>11 DEF Exit
<1>12. CASE CommandDies
  BY <1>1, <1>12 DEF CommandDies, Ends
<1> QED BY <1>3, <1>4, <1>5, <1>6, <1>7, <1>8, <1>9, <1>10, <1>11, <1>12 DEF CommandNext

-----------------------------------------------------------------------------
(* The two processes *)

LEMMA BesideFixed ==
  ASSUME [Next]_vars
  PROVE  beside' = beside
<1>1. CASE CoreMoves \/ UNCHANGED vars
  BY <1>1 DEF CoreMoves, vars
<1>2. CASE WorkerNext
  BY <1>2 DEF WorkerNext, Hydrate, Tick, Undo, Sync, TryAgain, WorkerStops
<1>3. CASE CommandNext
  BY <1>3 DEF CommandNext, Mark, Clear, ReplayNext, CompareRoots, QuickVerify, FullVerify,
              ReplayAgain, Finish, Exit, CommandDies, Fails, Go
<1> QED BY <1>1, <1>2, <1>3 DEF Next

LEMMA AloneStep == TypeInv /\ AloneInv /\ [Next]_vars => AloneInv'
<1> SUFFICES ASSUME TypeInv, AloneInv, [Next]_vars, ~beside' PROVE AloneInv'
  BY DEF AloneInv
<1>0. beside' = beside /\ ~beside
  BY BesideFixed
<1>1. CASE CoreMoves
  <2>1. rebuild'.pc = rebuild.pc /\ rebuild'.mem = rebuild.mem /\ worker' = worker /\ db' = db
    BY <1>1 DEF CoreMoves, TypeInv, RebuildType
  <2> QED BY <1>0, <2>1 DEF AloneInv
<1>2. CASE WorkerNext
  <2>1. CASE Hydrate
    BY <1>0, <2>1, HydrateFields DEF AloneInv
  <2>2. CASE Tick
    BY <1>0, <2>2, TickFields DEF AloneInv
  <2>3. CASE Undo
    <3>1. worker.mem.cursor = db.cursor /\ worker.mem.journal = db.journal /\ rebuild.pc = "idle"
          /\ rebuild' = rebuild /\ worker'.pc # "down"
      BY <1>0, <2>3, UndoFields DEF AloneInv
    <3>2. worker'.mem.cursor = db'.cursor /\ worker'.mem.journal = db'.journal
      BY <2>3, <3>1, UndoFields DEF UndoBlock
    <3> QED BY <1>0, <3>1, <3>2 DEF AloneInv
  <2>4. CASE Sync
    <3>1. worker.mem.cursor = db.cursor /\ worker.mem.journal = db.journal /\ rebuild.pc = "idle"
          /\ rebuild' = rebuild /\ worker'.pc # "down"
      BY <1>0, <2>4, SyncFields DEF AloneInv
    <3>2. worker'.mem.cursor = db'.cursor /\ worker'.mem.journal = db'.journal
      BY <2>4, <3>1, SyncFields DEF ApplyBlock, Persisted
    <3> QED BY <1>0, <3>1, <3>2 DEF AloneInv
  <2>5. CASE TryAgain \/ WorkerStops
    BY <1>0, <2>5, StopFields DEF AloneInv
  <2> QED BY <1>2, <2>1, <2>2, <2>3, <2>4, <2>5 DEF WorkerNext
<1>3. CASE CommandNext
  <2>0. worker' = worker
    BY <1>3, CommandFields
  <2>1. CASE Marks
    BY <1>0, <2>0, <2>1 DEF AloneInv, Marks, From
  <2>2. CASE Clears
    BY <1>0, <2>0, <2>2 DEF AloneInv, Clears, From, SameMem, Empty
  <2>3. CASE Replays
    <3>1. worker.pc = "down" /\ rebuild.mem.cursor = db.cursor /\ rebuild.mem.journal = db.journal
      BY <1>0, <2>3, Fields DEF AloneInv, Replays, From
    <3>2. rebuild'.mem.cursor = db'.cursor /\ rebuild'.mem.journal = db'.journal /\ db'.rebuilding
      BY <2>3, <3>1 DEF Replays, ApplyBlock, Persisted
    <3> QED BY <1>0, <2>0, <2>3, <3>1, <3>2 DEF AloneInv, Replays, From
  <2>4. CASE Verifies
    <3>1. /\ rebuild.pc \notin {"idle", "clear", "done"} /\ rebuild'.pc \notin {"idle", "clear"}
          /\ rebuild'.mem = rebuild.mem /\ db' = db
      BY <2>4 DEF Verifies, From, SameMem
    <3> QED BY <1>0, <2>0, <3>1 DEF AloneInv
  <2>5. CASE Ends
    BY <1>0, <2>0, <2>5 DEF AloneInv, Ends, Idle
  <2>6. CASE Finishes
    BY <1>0, <2>0, <2>6 DEF AloneInv, Finishes, From, SameMem
  <2> QED BY <1>3, <2>1, <2>2, <2>3, <2>4, <2>5, <2>6, CommandFields
<1>4. CASE UNCHANGED vars
  BY <1>4 DEF AloneInv, vars
<1> QED BY <1>1, <1>2, <1>3, <1>4 DEF Next

-----------------------------------------------------------------------------
(* Verification *)

LEMMA SeenMember ==
  ASSUME NEW t, NEW h \in Int, NEW x
  PROVE  x \in SeenOn(t, h) <=> \E k \in Activation .. h - 1 : x \in CoveTxs[Ancestor[t][k]]
  BY DEF SeenOn

LEMMA SeenGrow ==
  ASSUME NEW t, NEW h \in Int
  PROVE  SeenOn(t, h + 1) = IF h < Activation THEN SeenOn(t, h)
                           ELSE SeenOn(t, h) \cup CoveTxs[Ancestor[t][h]]
<1> USE Heights
<1>1. CASE h < Activation
  <2>1. Activation .. h + 1 - 1 = {} /\ Activation .. h - 1 = {}
    BY <1>1
  <2>2. SeenOn(t, h + 1) = {} /\ SeenOn(t, h) = {}
    BY <2>1 DEF SeenOn
  <2> QED BY <1>1, <2>2
<1>2. CASE ~(h < Activation)
  <2>1. \A k : k \in Activation .. h + 1 - 1 <=> k \in Activation .. h - 1 \/ k = h
    BY <1>2
  <2>2. \A x : x \in SeenOn(t, h + 1) <=> x \in SeenOn(t, h) \/ x \in CoveTxs[Ancestor[t][h]]
    BY <2>1 DEF SeenOn
  <2> QED BY <1>2, <2>2
<1> QED BY <1>1, <1>2

LEMMA SeenAll ==
  ASSUME NEW t \in Block, NEW c \in Cursor, Agrees(t, c)
  PROVE  SeenOn(t, Height[c] + 1) = Content(Replay(c))
<1> USE Heights
<1>1. Height[c] \in Nat /\ Height[t] \in Nat
  BY DEF Cursor
<1>2. \A k \in Activation .. Height[c] : Ancestor[c][k] = Ancestor[t][k]
  <2> SUFFICES ASSUME NEW k \in Activation .. Height[c] PROVE Ancestor[c][k] = Ancestor[t][k]
    OBVIOUS
  <2>1. c # NoBlock /\ Height[c] >= 1
    BY <1>1
  <2>2. Height[c] \in 1 .. Height[t] /\ Ancestor[t][Height[c]] = c /\ k \in 1 .. Height[c]
    BY <1>1, <2>1 DEF Agrees
  <2> QED BY <2>2, Ancestry
<1>3. PICK H : H = Height[c]
  OBVIOUS
<1>4. DOMAIN Replay(c) = Activation .. H /\ \A k \in Activation .. H : Replay(c)[k] = Ancestor[t][k]
  BY <1>2, <1>3 DEF Replay
<1>5. \A k : k \in Activation .. H + 1 - 1 <=> k \in Activation .. H
  BY <1>1, <1>3
<1>6. \A x : x \in SeenOn(t, H + 1) <=> x \in Content(Replay(c))
  <2>1. \A x : x \in SeenOn(t, H + 1) <=> \E k \in Activation .. H + 1 - 1 : x \in CoveTxs[Ancestor[t][k]]
    BY <1>1, <1>3, SeenMember
  <2>2. \A x : x \in Content(Replay(c)) <=> \E k \in DOMAIN Replay(c) : x \in CoveTxs[Replay(c)[k]]
    BY DEF Content
  <2>3. \A k : k \in DOMAIN Replay(c) <=> k \in Activation .. H
    BY <1>4
  <2>4. \A k \in DOMAIN Replay(c) : Replay(c)[k] = Ancestor[t][k]
    BY <1>4
  <2> QED BY <1>5, <2>1, <2>2, <2>3, <2>4, Zenon
<1> QED BY <1>3, <1>6

LEMMA VerifyStep == TypeInv /\ VerifyInv /\ [Next]_vars => VerifyInv'
<1> SUFFICES ASSUME TypeInv, VerifyInv, [Next]_vars, rebuild'.steady PROVE VerifyInv'
  BY DEF VerifyInv
<1> USE Heights
<1>1. CASE CoreMoves
  BY <1>1 DEF CoreMoves, TypeInv, RebuildType
<1>2. CASE rebuild' = rebuild /\ core' = core
  BY <1>2 DEF VerifyInv
<1>3. CASE CommandNext
  <2>0. core' = core
    BY <1>3, CommandFields
  <2>a. CursorHash => Agrees(core, rebuild.mem.cursor)
    BY DEF CursorHash, OnChain, BlockHash, Agrees
  <2>1. CASE Marks \/ Clears \/ Replays \/ Ends
    <3>1. rebuild'.pc \in {"clear", "replay", "idle"}
      <4>1. Ends => rebuild'.pc = "idle"
        BY DEF Ends, Idle
      <4> QED BY <2>1, <4>1 DEF Marks, Clears, Replays, From
    <3> QED BY <3>1 DEF VerifyInv
  <2>2. CASE Verifies
    <3>0. SameMem
      BY <2>2 DEF Verifies
    <3>1. CASE From("replay", "root") \/ From("root", "quick")
      BY <3>1 DEF VerifyInv, From
    <3>2. CASE From("quick", "full") /\ CursorHash
      BY <2>0, <2>a, <3>0, <3>2 DEF VerifyInv, From, SameMem
    <3>3. CASE /\ From("full", "again") /\ CursorHash /\ rebuild'.h = 1 /\ rebuild'.seen = {}
               /\ rebuild'.steady = rebuild.steady
      <4>1. Activation .. 1 - 1 = {}
        OBVIOUS
      <4>2. SeenOn(core, 1) = {}
        BY <4>1 DEF SeenOn
      <4>3. rebuild'.h \in 1 .. Height[rebuild'.mem.cursor] + 1
        BY <3>0, <3>3, Fields DEF SameMem
      <4>4. rebuild'.seen = SeenOn(core', rebuild'.h)
        BY <2>0, <3>3, <4>2
      <4> QED BY <2>0, <2>a, <3>0, <3>3, <4>3, <4>4 DEF VerifyInv, From, SameMem
    <3>4. CASE /\ From("again", "again") /\ rebuild'.steady = rebuild.steady
               /\ rebuild.h <= Height[rebuild.mem.cursor] /\ rebuild.h <= Height[core]
               /\ rebuild'.h = rebuild.h + 1
               /\ rebuild'.seen = IF rebuild.h < Activation THEN rebuild.seen
                                  ELSE rebuild.seen \cup CoveTxs[BlockHash(rebuild.h)]
      <4>1. Agrees(core, rebuild.mem.cursor) /\ rebuild.h \in 1 .. Height[rebuild.mem.cursor] + 1
            /\ rebuild.seen = SeenOn(core, rebuild.h)
        BY <3>4 DEF VerifyInv, From
      <4>2. rebuild'.h \in 1 .. Height[rebuild'.mem.cursor] + 1
        BY <3>0, <3>4, <4>1, Fields DEF SameMem
      <4>3. rebuild'.seen = SeenOn(core, rebuild.h + 1)
        BY <3>4, <4>1, SeenGrow, Fields DEF BlockHash
      <4>4. rebuild'.seen = SeenOn(core', rebuild'.h)
        BY <2>0, <3>4, <4>3
      <4> QED BY <2>0, <3>0, <3>4, <4>1, <4>2, <4>4 DEF VerifyInv, From, SameMem
    <3>5. CASE /\ From("again", "finish") /\ rebuild'.steady = rebuild.steady
               /\ rebuild.h > Height[rebuild.mem.cursor]
               /\ rebuild.seen = Content(rebuild.mem.journal)
      <4>1. Agrees(core, rebuild.mem.cursor) /\ rebuild.h \in 1 .. Height[rebuild.mem.cursor] + 1
            /\ rebuild.seen = SeenOn(core, rebuild.h)
        BY <3>5 DEF VerifyInv, From
      <4>2. rebuild.h = Height[rebuild.mem.cursor] + 1
        BY <3>5, <4>1, Fields
      <4>3. SeenOn(core, Height[rebuild.mem.cursor] + 1) = Content(Replay(rebuild.mem.cursor))
        BY <4>1, SeenAll, Fields
      <4>4. Content(rebuild.mem.journal) = Content(Replay(rebuild.mem.cursor))
        BY <3>5, <4>1, <4>2, <4>3
      <4> QED BY <2>0, <3>0, <3>5, <4>1, <4>4 DEF VerifyInv, From, SameMem
    <3> QED BY <2>2, <3>1, <3>2, <3>3, <3>4, <3>5 DEF Verifies
  <2>3. CASE Finishes
    BY <2>0, <2>3 DEF VerifyInv, Finishes, From, SameMem
  <2> QED BY <1>3, <2>1, <2>2, <2>3, CommandFields
<1>4. CASE WorkerNext \/ UNCHANGED vars
  <2>1. rebuild' = rebuild /\ core' = core
    BY <1>4 DEF WorkerNext, Hydrate, Tick, Undo, Sync, TryAgain, WorkerStops, vars
  <2> QED BY <1>2, <2>1
<1> QED BY <1>1, <1>3, <1>4 DEF Next

-----------------------------------------------------------------------------
(* Rows that were not torn *)

(* An index on Core's chain knows the blocks below the next height. *)
LEMMA AgreesKnown ==
  ASSUME NEW t \in Block, NEW c \in Place, Agrees(t, c)
  PROVE  \A k \in Activation .. NextHeight(c) - 1 :
           k \in DOMAIN Replay(c) /\ Replay(c)[k] = Ancestor[t][k]
<1> USE Heights
<1> SUFFICES ASSUME NEW k \in Activation .. NextHeight(c) - 1
             PROVE  k \in DOMAIN Replay(c) /\ Replay(c)[k] = Ancestor[t][k]
  OBVIOUS
<1>1. c # NoBlock /\ c \in Block /\ Height[c] \in Nat /\ Height[t] \in Nat
  BY DEF Place, NextHeight
<1>2. k \in Activation .. Height[c] /\ k \in 1 .. Height[c]
  BY <1>1 DEF NextHeight
<1>3. Height[c] \in 1 .. Height[t] /\ Ancestor[t][Height[c]] = c
  BY <1>1 DEF Agrees
<1>4. Ancestor[c][k] = Ancestor[t][k]
  BY <1>2, <1>3, Ancestry
<1> QED BY <1>2, <1>4 DEF Replay

(* The first block that such an index does not know is its child. *)
LEMMA NextIsChild ==
  ASSUME NEW t \in Block, NEW b \in Place, NEW h \in Int,
         h >= Activation, h <= Height[t], h \notin DOMAIN Replay(b),
         \A k \in Activation .. h - 1 : k \in DOMAIN Replay(b) /\ Replay(b)[k] = Ancestor[t][k],
         NEW B, B = Ancestor[t][h]
  PROVE  /\ B \in Block /\ Height[B] = h /\ B \in Place
         /\ Parent(B) = b /\ Agrees(t, B)
<1> USE Heights
<1>1. h \in 1 .. Height[t]
  OBVIOUS
<1>2. B \in Block /\ Height[B] = h /\ \A k \in 1 .. h : Ancestor[B][k] = Ancestor[t][k]
  BY <1>1, Ancestry
<1>3. B \in Place /\ Agrees(t, B)
  BY <1>2 DEF Place, Agrees
<1>4. \A k : k \in DOMAIN Replay(b) <=> k \in Activation .. Height[b]
  BY DEF Replay
<1>5. CASE b = NoBlock
  <2>1. \A k : k \notin DOMAIN Replay(b)
    BY <1>4, <1>5
  <2>2. h = Activation
    BY <2>1
  <2> QED BY <1>2, <1>3, <1>5, <2>2 DEF Parent
<1>6. CASE b # NoBlock
  <2>1. b \in Block /\ Height[b] >= Activation /\ Height[b] \in Nat
    BY <1>6 DEF Place
  <2>2. h > Height[b]
    BY <1>4, <2>1
  <2>3. h - 1 \in DOMAIN Replay(b) /\ Replay(b)[h - 1] = Ancestor[t][h - 1]
    BY <2>1, <2>2
  <2>4. h - 1 = Height[b]
    BY <1>4, <2>1, <2>2, <2>3
  <2>5. Ancestor[t][h - 1] = b
    <3>1. Replay(b)[Height[b]] = Ancestor[b][Height[b]]
      BY <2>1 DEF Replay
    <3>2. Height[b] \in 1 .. Height[b]
      BY <2>1
    <3>3. Ancestor[b][Height[b]] = b
      BY <2>1, <3>2, Ancestry
    <3> QED BY <2>3, <2>4, <3>1, <3>3
  <2>6. Parent(B) = Ancestor[B][h - 1] /\ h - 1 \in 1 .. h
    BY <1>2, <2>1, <2>4 DEF Parent
  <2> QED BY <1>2, <1>3, <2>5, <2>6
<1> QED BY <1>5, <1>6

LEMMA PersistedFields ==
  ASSUME NEW B, NEW f
  PROVE  /\ Persisted(B, f).cursor = B /\ Persisted(B, f).rebuilding = f
         /\ Persisted(B, f).journal = PutAt(db.journal, Height[B], B)
  BY DEF Persisted, ApplyBlock

(* The rows of a whole index stay whole. *)
LEMMA RowsGrow ==
  ASSUME NEW b, NEW B \in Block, B \in Place, Parent(B) = b, db.journal = Replay(b),
         NEW f, db' = Persisted(B, f)
  PROVE  db'.cursor = B /\ db'.journal = Replay(B)
<1>1. Height[B] >= Activation
  BY Heights DEF Place
<1>2. PutAt(Replay(b), Height[B], B) = Replay(B)
  BY <1>1, ReplayGrow
<1> QED BY <1>2, PersistedFields

LEMMA RowsKept ==
  ASSUME RowsInv, UNCHANGED <<db, beside, torn>>
  PROVE  RowsInv'
  BY DEF RowsInv, Whole, HalfReset

LEMMA WholeTick ==
  ASSUME TypeInv, AloneInv, WholeInv, Whole, Tick
  PROVE  WholeInv'
<1> USE Heights
<1>0. /\ core \in Block /\ Height[core] \in Nat /\ worker.mem \in Index
      /\ Height[db.cursor] \in Nat
  BY Fields
<1>1. /\ worker.pc = "idle" /\ UNCHANGED <<core, db, rebuild, beside, torn>>
      /\ worker'.mem = worker.mem /\ worker'.tip = Height[core]
      /\ worker'.anc = CommonHeight(worker.mem)
  BY TickFields
<1>2. rebuild.pc = "idle" /\ worker.mem.cursor = db.cursor /\ worker.mem.journal = db.journal
  BY <1>1 DEF AloneInv, Whole
<1>3. PICK b \in Place : db.journal = Replay(b) /\ (db.cursor = b \/ HalfReset)
  BY DEF WholeInv, RowsInv
<1>4. RowsInv'
  BY <1>1, RowsKept DEF WholeInv
<1>5. ReplayInv'
  BY <1>1, <1>2 DEF ReplayInv
<1>6. db.cursor # NoBlock => db.cursor = b
  BY <1>3 DEF HalfReset
<1>7. CASE /\ worker'.pc = "undo" /\ worker'.h = Height[worker.mem.cursor]
           /\ worker.mem.cursor # NoBlock
  <2>1. db.cursor \in Place /\ db.journal = Replay(db.cursor) /\ Height[db.cursor] >= Activation
    BY <1>2, <1>3, <1>6, <1>7 DEF Place
  <2>2. worker'.h = NextHeight(db.cursor) - 1 /\ worker'.h = Height[db.cursor]
    BY <1>0, <1>2, <1>7 DEF NextHeight
  <2>3. PICK a : a = CommonHeight(worker.mem)
    OBVIOUS
  <2>4. /\ a \in Int /\ a >= Activation - 1
        /\ a >= Activation =>
              a <= Height[db.cursor] /\ a <= Height[core] /\ db.journal[a] = Ancestor[core][a]
    BY <1>0, <1>2, <2>3, CommonType DEF BlockHash
  <2>5. a \in Activation - 1 .. worker'.h
    BY <1>0, <2>1, <2>2, <2>4
  <2>6. UndoInv'
    BY <1>1, <2>1, <2>2, <2>3, <2>4, <2>5 DEF UndoInv
  <2> QED BY <1>4, <1>5, <1>7, <2>6 DEF WholeInv, SyncInv, FailedInv
<1>8. CASE /\ worker'.pc = "sync" /\ worker'.h = Start(worker.mem)
           /\ \/ worker.mem.cursor = NoBlock \/ Height[worker.mem.cursor] > Height[core]
              \/ OnChain(worker.mem.cursor)
  <2>1. worker'.h = IF Height[db.cursor] + 1 > Activation THEN Height[db.cursor] + 1 ELSE Activation
    BY <1>2, <1>8 DEF Start
  <2>2. CASE db.cursor = NoBlock
    <3>1. worker'.h = Activation /\ \A k \in Activation .. worker'.h - 1 : FALSE
      BY <2>1, <2>2
    <3> QED BY <1>1, <1>4, <1>5, <1>8, <2>2, <3>1 DEF WholeInv, UndoInv, FailedInv, SyncInv
  <2>3. CASE Height[db.cursor] > Height[core]
    <3>1. worker'.h > worker'.tip
      BY <1>0, <1>1, <2>1, <2>3
    <3> QED BY <1>1, <1>4, <1>5, <1>8, <3>1 DEF WholeInv, UndoInv, FailedInv, SyncInv
  <2>4. CASE OnChain(db.cursor) /\ db.cursor # NoBlock
    <3>1. db.cursor \in Place /\ db.journal = Replay(db.cursor) /\ Height[db.cursor] >= Activation
      BY <1>3, <1>6, <2>4 DEF Place
    <3>2. Agrees(core, db.cursor)
      BY <2>4 DEF OnChain, Agrees, BlockHash
    <3>3. worker'.h = Height[db.cursor] + 1 /\ worker'.h = NextHeight(db.cursor)
      BY <1>0, <2>1, <2>4, <3>1 DEF NextHeight
    <3>4. \A k \in Activation .. worker'.h - 1 :
            k \in DOMAIN db.journal /\ db.journal[k] = Ancestor[core][k]
      BY <1>0, <3>1, <3>2, <3>3, AgreesKnown
    <3>5. SyncInv'
      BY <1>1, <3>3, <3>4 DEF SyncInv
    <3> QED BY <1>4, <1>5, <1>8, <3>5 DEF WholeInv, UndoInv, FailedInv
  <2> QED BY <1>2, <1>8, <2>2, <2>3, <2>4
<1> QED BY <1>7, <1>8, TickFields

LEMMA WholeUndo ==
  ASSUME TypeInv, AloneInv, WholeInv, Whole, Undo
  PROVE  WholeInv'
<1> USE Heights
<1>0. /\ core \in Block /\ Height[core] \in Nat /\ Height[db.cursor] \in Nat
      /\ worker.h \in Int /\ worker.anc \in Int
  BY Fields
<1>1. /\ worker.pc = "undo" /\ UNCHANGED <<core, rebuild, beside, torn>>
      /\ worker'.tip = worker.tip /\ worker'.anc = worker.anc
  BY UndoFields
<1>2. rebuild.pc = "idle" /\ worker.mem.cursor = db.cursor /\ worker.mem.journal = db.journal
  BY <1>1 DEF AloneInv, Whole
<1>3. ReplayInv'
  BY <1>1, <1>2 DEF ReplayInv
<1>4. /\ db.cursor \in Place /\ db.journal = Replay(db.cursor)
      /\ worker.h = NextHeight(db.cursor) - 1
      /\ worker.anc \in Activation - 1 .. worker.h
      /\ worker.anc >= Activation =>
           worker.anc <= Height[core] /\ db.journal[worker.anc] = Ancestor[core][worker.anc]
  BY <1>1 DEF WholeInv, UndoInv
<1>5. worker.h > worker.anc =>
        /\ db.cursor # NoBlock /\ db.cursor \in Block /\ Height[db.cursor] >= Activation
        /\ worker.h = Height[db.cursor] /\ worker.h \in DOMAIN db.journal
  <2> SUFFICES ASSUME worker.h > worker.anc
               PROVE  /\ db.cursor # NoBlock /\ db.cursor \in Block /\ Height[db.cursor] >= Activation
                      /\ worker.h = Height[db.cursor] /\ worker.h \in DOMAIN db.journal
    OBVIOUS
  <2>1. db.cursor # NoBlock
    BY <1>4 DEF NextHeight
  <2>2. db.cursor \in Block /\ Height[db.cursor] >= Activation /\ worker.h = Height[db.cursor]
    BY <1>0, <1>4, <2>1 DEF Place, NextHeight
  <2>3. worker.h \in DOMAIN db.journal
    BY <1>0, <1>4, <2>2 DEF Replay
  <2> QED BY <2>1, <2>2, <2>3
<1>6. CASE /\ worker.h > worker.anc /\ worker.h \in DOMAIN worker.mem.journal
           /\ worker'.pc = "undo" /\ worker'.h = worker.h - 1
           /\ worker'.mem = UndoBlock(worker.mem, worker.h)
           /\ db'.cursor = worker'.mem.cursor /\ db'.rebuilding = db.rebuilding
           /\ db'.journal = Del(db.journal, {worker.h})
  <2>1. PICK c, p : c = db.cursor /\ p = Parent(db.cursor)
    OBVIOUS
  <2>2. c \in Block /\ Height[c] >= Activation /\ worker.h = Height[c] /\ db.journal = Replay(c)
    BY <1>4, <1>5, <1>6, <2>1
  <2>3. /\ Del(Replay(c), {Height[c]}) = Replay(p)
        /\ p = IF Height[c] - 1 \in DOMAIN Replay(c) THEN Replay(c)[Height[c] - 1] ELSE NoBlock
    BY <2>1, <2>2, ReplayShrink
  <2>4. db'.journal = Replay(p)
    BY <1>6, <2>2, <2>3
  <2>5. db'.cursor = p
    <3>1. worker'.mem.cursor = IF worker.h - 1 \in DOMAIN db.journal THEN db.journal[worker.h - 1]
                               ELSE NoBlock
      BY <1>2, <1>6 DEF UndoBlock
    <3> QED BY <1>6, <2>2, <2>3, <3>1
  <2>6. /\ p \in Place /\ NextHeight(p) = Height[c]
        /\ \A k \in Activation .. Height[c] - 1 : Ancestor[p][k] = Ancestor[c][k]
    BY <2>1, <2>2, ParentType
  <2>7. RowsInv'
    BY <2>4, <2>5, <2>6 DEF RowsInv
  <2>8. worker'.h = NextHeight(p) - 1 /\ worker'.anc \in Activation - 1 .. worker'.h
    BY <1>0, <1>1, <1>4, <1>6, <2>2, <2>6
  <2>9. ASSUME worker.anc >= Activation
        PROVE  worker.anc <= Height[core] /\ db'.journal[worker.anc] = Ancestor[core][worker.anc]
    <3>1. worker.anc \in Activation .. Height[c] - 1
      BY <1>0, <1>4, <1>6, <2>2, <2>9
    <3>2. Replay(c)[worker.anc] = Ancestor[c][worker.anc]
      BY <1>0, <2>2, <3>1 DEF Replay
    <3>3. Height[p] = Height[c] - 1
      BY <1>0, <2>2, <2>6, <3>1 DEF NextHeight, Place
    <3>4. Replay(p)[worker.anc] = Ancestor[p][worker.anc]
      BY <1>0, <2>2, <3>1, <3>3 DEF Replay
    <3> QED BY <1>4, <2>2, <2>4, <2>6, <2>9, <3>1, <3>2, <3>4
  <2>10. UndoInv'
    BY <1>1, <2>4, <2>5, <2>6, <2>8, <2>9 DEF UndoInv
  <2> QED BY <1>3, <1>6, <2>7, <2>10 DEF WholeInv, SyncInv, FailedInv
<1>7. CASE /\ worker.h <= worker.anc /\ worker'.mem = worker.mem /\ db' = db
           /\ worker'.pc = "sync"
           /\ worker'.h = IF worker.anc + 1 > Activation THEN worker.anc + 1 ELSE Activation
  <2>1. worker.anc = worker.h /\ worker'.h = NextHeight(db.cursor)
    BY <1>0, <1>4, <1>7 DEF NextHeight, Place
  <2>2. Agrees(core, db.cursor)
    <3>1. CASE db.cursor = NoBlock
      BY <3>1 DEF Agrees
    <3>2. CASE db.cursor # NoBlock
      <4>1. db.cursor \in Block /\ Height[db.cursor] >= Activation /\ worker.anc = Height[db.cursor]
        BY <1>0, <1>4, <2>1, <3>2 DEF Place, NextHeight
      <4>2. Height[db.cursor] <= Height[core]
            /\ db.journal[Height[db.cursor]] = Ancestor[core][Height[db.cursor]]
        BY <1>4, <4>1
      <4>3. db.journal[Height[db.cursor]] = Ancestor[db.cursor][Height[db.cursor]]
        BY <1>0, <1>4, <4>1 DEF Replay
      <4>4. Height[db.cursor] \in 1 .. Height[db.cursor]
        BY <1>0, <4>1
      <4>5. Ancestor[db.cursor][Height[db.cursor]] = db.cursor
        BY <4>1, <4>4, Ancestry
      <4> QED BY <4>2, <4>3, <4>5 DEF Agrees
    <3> QED BY <3>1, <3>2
  <2>3. \A k \in Activation .. worker'.h - 1 :
          k \in DOMAIN db.journal /\ db.journal[k] = Ancestor[core][k]
    BY <1>0, <1>4, <2>1, <2>2, AgreesKnown
  <2>4. SyncInv'
    BY <1>1, <1>7, <2>1, <2>3 DEF SyncInv, NextHeight
  <2>5. RowsInv'
    BY <1>1, <1>7, RowsKept DEF WholeInv
  <2> QED BY <1>3, <1>7, <2>4, <2>5 DEF WholeInv, UndoInv, FailedInv
<1> QED BY <1>2, <1>5, <1>6, <1>7, UndoFields

LEMMA WholeSync ==
  ASSUME TypeInv, AloneInv, WholeInv, Whole, Sync
  PROVE  WholeInv'
<1> USE Heights
<1>0. /\ core \in Block /\ Height[core] \in Nat /\ Height[db.cursor] \in Nat
      /\ worker.h \in Int
  BY Fields
<1>1. worker.pc = "sync" /\ UNCHANGED <<core, rebuild, beside, torn>> /\ worker'.tip = worker.tip
  BY SyncFields
<1>2. rebuild.pc = "idle" /\ worker.mem.cursor = db.cursor /\ worker.mem.journal = db.journal
  BY <1>1 DEF AloneInv, Whole
<1>3. ReplayInv'
  BY <1>1, <1>2 DEF ReplayInv
<1>4. PICK b \in Place : db.journal = Replay(b) /\ (db.cursor = b \/ HalfReset)
  BY DEF WholeInv, RowsInv
<1>5. worker.tip = Height[core] /\ worker.h >= Activation
  BY <1>1 DEF TypeInv
<1>6. worker.h <= worker.tip =>
        /\ \A k \in Activation .. worker.h - 1 :
             k \in DOMAIN Replay(b) /\ Replay(b)[k] = Ancestor[core][k]
        /\ db.cursor # NoBlock => worker.h = Height[db.cursor] + 1
  BY <1>0, <1>1, <1>4, <1>5 DEF WholeInv, SyncInv
<1>7. \A k : k \in DOMAIN Replay(b) <=> k \in Activation .. Height[b]
  BY DEF Replay
<1>8. Height[b] \in Nat /\ (b # NoBlock => Height[b] >= Activation)
  BY DEF Place
<1>9. PICK B : B = Ancestor[core][worker.h] /\ B = BlockHash(worker.h)
  BY DEF BlockHash
<1>10. (worker.h <= worker.tip /\ worker.h \notin DOMAIN Replay(b)) =>
          /\ B \in Block /\ Height[B] = worker.h /\ B \in Place
          /\ Parent(B) = b /\ Agrees(core, B)
  BY <1>0, <1>5, <1>6, <1>9, NextIsChild
<1>11. CASE /\ worker.h > worker.tip /\ worker'.pc = "idle"
            /\ worker'.mem = worker.mem /\ db' = db
  <2>1. RowsInv'
    BY <1>1, <1>11, RowsKept DEF WholeInv
  <2> QED BY <1>3, <1>11, <2>1 DEF WholeInv, UndoInv, SyncInv, FailedInv
<1>12. CASE /\ worker.h <= worker.tip /\ Known(worker.h) /\ worker'.pc = "sync"
            /\ worker'.h = worker.h + 1 /\ worker'.mem = worker.mem /\ db' = db
  <2>1. RowsInv'
    BY <1>1, <1>12, RowsKept DEF WholeInv
  <2>2. worker.h \in DOMAIN Replay(b) /\ Replay(b)[worker.h] = Ancestor[core][worker.h]
    BY <1>2, <1>4, <1>12 DEF Known, BlockHash
  <2>3. db.cursor = NoBlock
    <3> SUFFICES ASSUME db.cursor # NoBlock PROVE FALSE
      OBVIOUS
    <3>1. db.cursor = b /\ worker.h = Height[b] + 1
      BY <1>4, <1>6, <1>12 DEF HalfReset
    <3> QED BY <1>7, <1>8, <2>2, <3>1
  <2>4. \A k \in Activation .. worker'.h - 1 :
          k \in DOMAIN Replay(b) /\ Replay(b)[k] = Ancestor[core][k]
    <3>1. \A k \in Activation .. worker'.h - 1 : k \in Activation .. worker.h - 1 \/ k = worker.h
      BY <1>0, <1>12
    <3> QED BY <1>6, <1>12, <2>2, <3>1
  <2>5. SyncInv'
    BY <1>1, <1>4, <1>12, <2>3, <2>4 DEF SyncInv
  <2> QED BY <1>3, <1>12, <2>1, <2>5 DEF WholeInv, UndoInv, FailedInv
<1>13. CASE /\ worker.h <= worker.tip /\ Refused(BlockHash(worker.h)) /\ ~Known(worker.h)
            /\ worker'.pc = "failed" /\ worker'.mem = worker.mem /\ db' = db
  <2>1. RowsInv'
    BY <1>1, <1>13, RowsKept DEF WholeInv
  <2>2. db.cursor # b
    <3> SUFFICES ASSUME db.cursor = b PROVE FALSE
      OBVIOUS
    <3>1. worker.h \notin DOMAIN Replay(b)
      BY <1>6, <1>7, <1>8, <1>13
    <3>2. B \in Block /\ Height[B] = worker.h /\ B \in Place /\ Parent(B) = b
      BY <1>10, <1>13, <3>1
    <3>3. Height[B] \notin DOMAIN db.journal
      BY <1>4, <3>1, <3>2
    <3>4. Height[B] >= Activation
      BY <1>5, <3>2
    <3>5. CoveTxs[B] \cap Content(db.journal) = {}
      BY <1>4, <3>2, <3>4, FreshContent
    <3> QED BY <1>9, <1>13, <3>3, <3>5 DEF Refused
  <2>3. db.cursor = NoBlock /\ b # NoBlock
    BY <1>4, <2>2 DEF HalfReset
  <2>4. Height[b] \in DOMAIN db.journal /\ Height[b] > Height[db.cursor]
    BY <1>4, <1>7, <1>8, <2>3
  <2>5. FailedInv'
    BY <1>13, <2>4 DEF FailedInv
  <2> QED BY <1>3, <1>13, <2>1, <2>5 DEF WholeInv, UndoInv, SyncInv
<1>14. CASE /\ worker.h <= worker.tip /\ ~Refused(BlockHash(worker.h))
            /\ worker'.pc = "sync" /\ worker'.h = worker.h + 1
            /\ worker'.mem = ApplyBlock(worker.mem, BlockHash(worker.h))
            /\ db' = Persisted(BlockHash(worker.h), FALSE)
  <2>0. Height[B] = worker.h
    BY <1>0, <1>5, <1>9, <1>14, BlockHashType
  <2>1. worker.h \notin DOMAIN Replay(b)
    BY <1>4, <1>9, <1>14, <2>0 DEF Refused
  <2>2. B \in Block /\ Height[B] = worker.h /\ B \in Place /\ Parent(B) = b /\ Agrees(core, B)
    BY <1>10, <1>14, <2>1
  <2>3. db' = Persisted(B, FALSE)
    BY <1>9, <1>14
  <2>4. db'.cursor = B /\ db'.journal = Replay(B)
    BY <1>4, <2>2, <2>3, RowsGrow
  <2>5. RowsInv'
    BY <2>2, <2>4 DEF RowsInv
  <2>6. worker'.h = NextHeight(B) /\ worker'.h = Height[B] + 1
    BY <1>14, <2>2 DEF NextHeight
  <2>7. \A k \in Activation .. worker'.h - 1 :
          k \in DOMAIN Replay(B) /\ Replay(B)[k] = Ancestor[core][k]
    BY <1>0, <2>2, <2>6, AgreesKnown
  <2>8. SyncInv'
    BY <1>1, <2>4, <2>6, <2>7 DEF SyncInv
  <2> QED BY <1>3, <1>14, <2>5, <2>8 DEF WholeInv, UndoInv, FailedInv
<1> QED BY <1>11, <1>12, <1>13, <1>14, SyncFields

LEMMA WholeCommand ==
  ASSUME TypeInv, AloneInv, WholeInv, CommandNext, Whole'
  PROVE  WholeInv'
<1> USE Heights
<1>0. /\ core \in Block /\ Height[core] \in Nat /\ Height[db.cursor] \in Nat
      /\ rebuild.h \in Int
  BY Fields
<1>1. UNCHANGED <<core, worker, beside>> /\ ~beside
  BY CommandFields DEF Whole
<1>2. ASSUME worker.pc = "down", RowsInv', ReplayInv' PROVE WholeInv'
  BY <1>1, <1>2 DEF WholeInv, UndoInv, SyncInv, FailedInv
<1>3. rebuild.pc # "idle" => worker.pc = "down"
  BY <1>1 DEF AloneInv
<1>4. CASE Marks
  <2>1. worker.pc = "down" /\ Whole /\ rebuild'.pc = "clear"
    BY <1>1, <1>4 DEF Marks, From, Whole
  <2>2. RowsInv'
    BY <1>4, <2>1 DEF Marks, WholeInv, RowsInv, HalfReset
  <2> QED BY <1>2, <2>1, <2>2 DEF ReplayInv
<1>5. CASE Clears
  <2>1. worker.pc = "down" /\ db'.cursor = NoBlock /\ rebuild'.pc = "replay"
        /\ rebuild'.h = Activation /\ db'.journal = Replay(NoBlock)
    BY <1>1, <1>3, <1>5, ReplayNothing DEF AloneInv, Clears, From
  <2>2. NoBlock \in Place /\ NextHeight(NoBlock) = Activation /\ Agrees(core, NoBlock)
    BY DEF Place, NextHeight, Agrees
  <2>3. RowsInv'
    BY <2>1, <2>2 DEF RowsInv
  <2>4. ReplayInv'
    BY <1>1, <2>1, <2>2 DEF ReplayInv
  <2> QED BY <1>2, <2>1, <2>3, <2>4
<1>6. CASE Replays
  <2>1. /\ worker.pc = "down" /\ Whole /\ rebuild.pc = "replay" /\ rebuild'.pc = "replay"
        /\ rebuild.h <= Height[core] /\ ~Refused(BlockHash(rebuild.h))
        /\ db' = Persisted(BlockHash(rebuild.h), TRUE) /\ rebuild'.h = rebuild.h + 1
    BY <1>1, <1>3, <1>6 DEF Replays, From, Whole
  <2>2. /\ db.cursor \in Place /\ db.journal = Replay(db.cursor)
        /\ rebuild.h = NextHeight(db.cursor) /\ Agrees(core, db.cursor)
    BY <2>1 DEF WholeInv, ReplayInv
  <2>3. PICK B : B = Ancestor[core][rebuild.h] /\ B = BlockHash(rebuild.h)
    BY DEF BlockHash
  <2>4. rebuild.h >= Activation
    BY <2>1 DEF TypeInv
  <2>5. Height[B] = rebuild.h
    BY <1>0, <2>1, <2>3, <2>4, BlockHashType
  <2>6. rebuild.h \notin DOMAIN Replay(db.cursor)
    BY <2>1, <2>2, <2>3, <2>5 DEF Refused
  <2>7. \A k \in Activation .. rebuild.h - 1 :
          k \in DOMAIN Replay(db.cursor) /\ Replay(db.cursor)[k] = Ancestor[core][k]
    BY <1>0, <2>2, AgreesKnown
  <2>8. B \in Block /\ B \in Place /\ Parent(B) = db.cursor /\ Agrees(core, B)
    <3>1. PICK c : c = db.cursor
      OBVIOUS
    <3>2. PICK h : h = rebuild.h
      OBVIOUS
    <3>3. /\ c \in Place /\ h \in Int /\ h >= Activation /\ h <= Height[core]
          /\ h \notin DOMAIN Replay(c) /\ B = Ancestor[core][h]
      BY <1>0, <2>1, <2>2, <2>3, <2>4, <2>6, <3>1, <3>2
    <3>4. \A k \in Activation .. h - 1 :
            k \in DOMAIN Replay(c) /\ Replay(c)[k] = Ancestor[core][k]
      BY <2>7, <3>1, <3>2
    <3>5. B \in Block /\ B \in Place /\ Parent(B) = c /\ Agrees(core, B)
      BY <1>0, <3>3, <3>4, NextIsChild
    <3> QED BY <3>1, <3>5
  <2>9. db' = Persisted(B, TRUE)
    BY <2>1, <2>3
  <2>10. db'.cursor = B /\ db'.journal = Replay(B)
    BY <2>2, <2>8, <2>9, RowsGrow
  <2>11. rebuild'.h = NextHeight(B)
    BY <2>1, <2>5, <2>8 DEF NextHeight
  <2>12. RowsInv'
    BY <2>8, <2>10 DEF RowsInv
  <2>13. ReplayInv'
    BY <1>1, <2>8, <2>10, <2>11 DEF ReplayInv
  <2> QED BY <1>2, <2>1, <2>12, <2>13
<1>7. CASE Verifies
  <2>1. /\ rebuild.pc \notin {"idle", "clear"} /\ rebuild'.pc \notin {"idle", "clear", "replay"}
        /\ db' = db /\ torn' = torn
    BY <1>7 DEF Verifies, From
  <2>2. Whole /\ worker.pc = "down"
    BY <1>1, <1>3, <2>1 DEF Whole
  <2>3. RowsInv'
    BY <1>1, <2>1, RowsKept DEF WholeInv
  <2>4. ReplayInv'
    BY <2>1, <2>2 DEF WholeInv, ReplayInv
  <2> QED BY <1>2, <2>2, <2>3, <2>4
<1>8. CASE Ends
  <2>1. rebuild'.pc = "idle" /\ db' = db /\ torn' = torn
    <3>1. Idle.pc = "idle"
      BY DEF Idle
    <3> QED BY <1>8, <3>1 DEF Ends
  <2>2. Whole
    BY <1>1, <2>1 DEF Whole
  <2>3. RowsInv'
    BY <1>1, <2>1, RowsKept DEF WholeInv
  <2> QED BY <1>1, <2>1, <2>2, <2>3 DEF WholeInv, UndoInv, SyncInv, FailedInv, ReplayInv
<1>9. CASE Finishes
  <2>1. /\ rebuild.pc = "finish" /\ rebuild'.pc = "done" /\ torn' = torn
        /\ db'.cursor = rebuild.mem.cursor /\ db'.journal = db.journal
    BY <1>9 DEF Finishes, From
  <2>2. Whole /\ worker.pc = "down" /\ db'.cursor = db.cursor
    BY <1>1, <1>3, <2>1 DEF Whole, AloneInv
  <2>3. db.cursor \in Place /\ db.journal = Replay(db.cursor)
    BY <2>1, <2>2 DEF WholeInv, ReplayInv
  <2>4. RowsInv'
    BY <2>1, <2>2, <2>3 DEF RowsInv
  <2>5. ReplayInv'
    BY <2>1, <2>2, <2>3 DEF ReplayInv
  <2> QED BY <1>2, <2>2, <2>4, <2>5
<1> QED BY <1>4, <1>5, <1>6, <1>7, <1>8, <1>9, CommandFields

LEMMA WholeStep == TypeInv /\ AloneInv /\ WholeInv /\ [Next]_vars => WholeInv'
<1> SUFFICES ASSUME TypeInv, AloneInv, WholeInv, [Next]_vars, Whole' PROVE WholeInv'
  BY DEF WholeInv, RowsInv, UndoInv, SyncInv, FailedInv, ReplayInv
<1>1. CASE CoreMoves
  <2>1. /\ rebuild'.pc = rebuild.pc /\ worker' = worker /\ db' = db /\ beside' = beside
        /\ worker.pc \in {"down", "idle"} /\ (torn' <=> (torn \/ rebuild.pc = "replay"))
    BY <1>1 DEF CoreMoves, TypeInv, RebuildType
  <2>2. Whole /\ rebuild.pc # "replay" /\ torn' = torn
    <3>1. torn \in BOOLEAN /\ torn' \in BOOLEAN
      BY TypeStep DEF TypeInv
    <3>2. ~torn' /\ ~torn /\ rebuild.pc # "replay" /\ ~beside
      BY <2>1, Zenon DEF Whole
    <3> QED BY <3>1, <3>2 DEF Whole
  <2>3. RowsInv'
    BY <2>1, <2>2, RowsKept DEF WholeInv
  <2>4. ReplayInv'
    BY <2>1, <2>2 DEF WholeInv, ReplayInv
  <2> QED BY <2>1, <2>3, <2>4 DEF WholeInv, UndoInv, SyncInv, FailedInv
<1>2. CASE WorkerNext
  <2>0. Whole
    <3>1. UNCHANGED <<beside, torn>>
      BY <1>2 DEF WorkerNext, Hydrate, Tick, Undo, Sync, TryAgain, WorkerStops
    <3> QED BY <3>1 DEF Whole
  <2>1. CASE Hydrate \/ TryAgain \/ WorkerStops
    <3>1. UNCHANGED <<core, db, rebuild, beside, torn>> /\ worker'.pc \in {"idle", "down"}
      BY <2>1, HydrateFields, StopFields
    <3>2. RowsInv'
      BY <3>1, RowsKept DEF WholeInv
    <3>3. ReplayInv'
      BY <2>0, <3>1 DEF WholeInv, ReplayInv
    <3> QED BY <3>1, <3>2, <3>3 DEF WholeInv, UndoInv, SyncInv, FailedInv
  <2> QED BY <1>2, <2>0, <2>1, WholeTick, WholeUndo, WholeSync DEF WorkerNext
<1>3. CASE CommandNext
  BY <1>3, WholeCommand
<1>4. CASE UNCHANGED vars
  <2>1. Whole /\ UNCHANGED <<core, db, worker, rebuild, beside, torn>>
    BY <1>4 DEF vars, Whole
  <2>2. RowsInv'
    BY <2>1, RowsKept DEF WholeInv
  <2> QED BY <2>1, <2>2 DEF WholeInv, UndoInv, SyncInv, FailedInv, ReplayInv
<1> QED BY <1>1, <1>2, <1>3, <1>4 DEF Next

LEMMA WholeInit == Init => AloneInv /\ WholeInv /\ VerifyInv
<1> SUFFICES ASSUME Init PROVE AloneInv /\ WholeInv /\ VerifyInv
  OBVIOUS
<1>1. worker.pc = "down" /\ rebuild.pc = "idle"
  BY DEF Init, Down, Idle
<1>2. core \in Block /\ db.cursor = Standing(core) /\ db.journal = Replay(core)
  BY DEF Init
<1>3. Standing(core) \in Place /\ Replay(core) = Replay(Standing(core))
  <2>1. CASE Height[core] < Activation
    <3>1. Activation .. Height[core] = {}
      BY <1>2, <2>1, Heights
    <3>2. Replay(core) = Nothing
      BY <3>1 DEF Replay, Nothing
    <3> QED BY <2>1, <3>2, ReplayNothing DEF Standing, Place
  <2>2. CASE ~(Height[core] < Activation)
    BY <1>2, <2>2, Heights DEF Standing, Place
  <2> QED BY <2>1, <2>2
<1>4. RowsInv
  BY <1>2, <1>3 DEF RowsInv
<1>5. WholeInv
  BY <1>1, <1>4 DEF WholeInv, UndoInv, SyncInv, FailedInv, ReplayInv
<1> QED BY <1>1, <1>5 DEF AloneInv, VerifyInv

-----------------------------------------------------------------------------
(* The properties *)

LEMMA StoryIsTrusted == TypeInv /\ AloneInv /\ WholeInv /\ VerifyInv => ReplayIsTrusted
<1> SUFFICES ASSUME TypeInv, AloneInv, WholeInv, VerifyInv PROVE ReplayIsTrusted
  OBVIOUS
<1>1. TypeOK
  <2>1. IsMap(db.journal, Nat, Block) /\ \A h \in DOMAIN db.journal : Height[db.journal[h]] = h
    BY Fields, JournalIsMap
  <2>2. worker.pc \in {"down", "idle", "undo", "sync", "failed"}
    BY Fields DEF WorkerPc
  <2>3. core \in Block /\ db.cursor \in Cursor /\ db.rebuilding \in BOOLEAN
    BY Fields
  <2> QED BY <2>1, <2>2, <2>3 DEF TypeOK, TypeInv
<1>2. HealthyIsReplay
  <2> SUFFICES ASSUME ~beside, Healthy, torn => rebuild.pc = "done",
                      rebuild.pc = "done" => rebuild.steady
               PROVE  Content(db.journal) = Content(Replay(db.cursor))
    BY DEF HealthyIsReplay
  <2>1. CASE torn
    <3>1. rebuild.pc = "done" /\ rebuild.steady
      BY <2>1
    <3>2. /\ Content(rebuild.mem.journal) = Content(Replay(rebuild.mem.cursor))
          /\ rebuild.mem.cursor = db.cursor /\ rebuild.mem.journal = db.journal
      BY <3>1 DEF VerifyInv, AloneInv
    <3> QED BY <3>2
  <2>2. CASE ~torn
    <3>1. PICK b \in Place : db.journal = Replay(b) /\ (db.cursor = b \/ HalfReset)
      BY <2>2 DEF WholeInv, RowsInv, Whole
    <3> QED BY <3>1 DEF HalfReset, Healthy
  <2> QED BY <2>1, <2>2
<1>3. VerifiedIsReplay
  <2>1. Agrees(core, rebuild.mem.cursor) => CursorHash
    BY DEF Agrees, CursorHash, OnChain, BlockHash
  <2> QED BY <2>1 DEF VerifiedIsReplay, VerifyInv
<1>4. FailsOnlyHalfReset
  BY DEF FailsOnlyHalfReset, WholeInv, FailedInv, Whole
<1>5. HiddenWhileRebuilding
  BY DEF HiddenWhileRebuilding, AloneInv
<1> QED BY <1>1, <1>2, <1>3, <1>4, <1>5 DEF ReplayIsTrusted

(* Wherever the reindex command dies, however often the chain moves and    *)
(* whichever process goes on: the index calls itself healthy only over the *)
(* content of its chain, a verification vouches only for what it replayed, *)
(* and the worker fails only on a half reset.                              *)
THEOREM RebuildsAreTrusted == Spec => []ReplayIsTrusted
<1>1. Init => TypeInv /\ AloneInv /\ WholeInv /\ VerifyInv
  BY TypeInit, WholeInit
<1>2. TypeInv /\ AloneInv /\ WholeInv /\ VerifyInv /\ [Next]_vars
        => (TypeInv /\ AloneInv /\ WholeInv /\ VerifyInv)'
  BY TypeStep, AloneStep, WholeStep, VerifyStep
<1> QED BY <1>1, <1>2, StoryIsTrusted, PTL DEF Spec
=============================================================================
