----------------------- MODULE PersistentIndexer_proofs -----------------------
(***************************************************************************)
(* Proofs about PersistentIndexer, for every tree of blocks, activation    *)
(* height and bound, and every behaviour: the chain moves at any moment,   *)
(* calls fail, acknowledgements are lost and the process dies.             *)
(***************************************************************************)
EXTENDS PersistentIndexer, FiniteSetTheorems, TLAPS

(* What the assumption on the tree says of one block and one height. *)
LEMMA Ancestry ==
  ASSUME NEW b \in Block, NEW h \in 1 .. Height[b]
  PROVE  /\ Ancestor[b][h] \in Block
         /\ Height[Ancestor[b][h]] = h
         /\ \A k \in 1 .. h : Ancestor[Ancestor[b][h]][k] = Ancestor[b][k]
         /\ h = Height[b] => Ancestor[b][h] = b
  BY ChainAssumption

LEMMA Heights ==
  /\ \A b \in Block : Height[b] \in Nat /\ Height[b] >= 1 /\ b # NoBlock
  /\ Height[NoBlock] = 0
  /\ Activation \in Nat /\ Activation >= 1
  /\ Floor \in Nat /\ Floor = Activation - 1
  BY ChainAssumption DEF Floor

(* Applying and undoing a block keeps the shape of an index. *)
LEMMA ApplyType ==
  ASSUME NEW x, IsIndex(x), NEW b \in Block
  PROVE  IsIndex(ApplyBlock(x, b))
<1> DEFINE y == ApplyBlock(x, b)
<1>1. Height[b] \in Nat \ {0} /\ b \in Cursor
  BY Heights DEF Cursor
<1>2. /\ y = [cursor |-> y.cursor, journal |-> y.journal] /\ y.cursor = b
      /\ y.journal = Put(x.journal, [h \in {Height[b]} |-> b])
  BY DEF ApplyBlock
<1>3. DOMAIN y.journal = DOMAIN x.journal \cup {Height[b]}
  BY <1>2 DEF Put
<1>4. y.journal \in [DOMAIN y.journal -> Block]
  BY <1>2, <1>3 DEF Put, IsIndex
<1> HIDE DEF y
<1> QED BY <1>1, <1>2, <1>3, <1>4 DEF IsIndex, y

LEMMA UndoType ==
  ASSUME NEW x, IsIndex(x), NEW d, IsIndex(d), NEW h
  PROVE  /\ IsIndex(UndoBlock(x, h))
         /\ IsIndex([cursor |-> UndoBlock(x, h).cursor,
                     journal |-> Del(d.journal, {h})])
<1>1. UndoBlock(x, h).cursor \in Cursor
  BY DEF UndoBlock, IsIndex, Cursor
<1>2. \A z : IsIndex(z) =>
        /\ Del(z.journal, {h}) \in [DOMAIN Del(z.journal, {h}) -> Block]
        /\ DOMAIN Del(z.journal, {h}) \subseteq Nat \ {0}
  BY DEF Del, IsIndex
<1>3. UndoBlock(x, h).journal = Del(x.journal, {h})
      /\ UndoBlock(x, h) = [cursor |-> UndoBlock(x, h).cursor,
                            journal |-> UndoBlock(x, h).journal]
  BY DEF UndoBlock
<1> QED BY <1>1, <1>2, <1>3 DEF IsIndex

-----------------------------------------------------------------------------
(* The two ways a tick writes: a block of the active chain is added, or    *)
(* the block at loc.h is taken back.                                       *)
LEMMA BlockHashType ==
  ASSUME TypeOK, NEW h \in Nat, h >= 1, Answers(h)
  PROVE  BlockHash(h) \in Block /\ Height[BlockHash(h)] = h
<1>1. h \in 1 .. Height[core] /\ core \in Block
  BY Heights DEF TypeOK, Answers
<1> QED BY <1>1, Ancestry DEF BlockHash

LEMMA EmptyIsIndex == IsIndex(EmptyIndex)
  BY DEF IsIndex, EmptyIndex, Nothing, Cursor

(* A write of a tick keeps the types. *)
LEMMA PersistType ==
  ASSUME TypeOK, NEW b \in Block, PersistBlock(b), pc \in {"replay", "index"},
         lost' \in Nat, harm' \in {"none", "moved", "torn"}
  PROVE  TypeOK'
<1>1. IsIndex(ApplyBlock(db, b)) /\ IsIndex(ApplyBlock(mem, b))
  BY ApplyType DEF TypeOK
<1>2. CASE Commit(ApplyBlock(db, b), ApplyBlock(mem, b))
  BY <1>1, <1>2 DEF TypeOK, Commit
<1>3. CASE CommitUnacknowledged(ApplyBlock(db, b))
  BY <1>1, <1>3, BoundsAssumption DEF TypeOK, CommitUnacknowledged
<1>4. CASE Throws
  BY <1>4 DEF TypeOK, Throws
<1> QED BY <1>2, <1>3, <1>4 DEF PersistBlock

(* TypeOK is inductive once the loops are known to start above height 0. *)
TypeInv == TypeOK /\ (pc \in {"replay", "index"} => loc.h >= 1)

(* The history has its type after every step. *)
LEMMA RememberType ==
  ASSUME lost \in Nat, harm \in {"none", "moved", "torn"}, Remember
  PROVE  lost' \in Nat /\ harm' \in {"none", "moved", "torn"}
  BY DEF Remember

LEMMA TypeStep == TypeInv /\ [Next]_vars => TypeInv'
<1> SUFFICES ASSUME TypeInv, [Next]_vars PROVE TypeInv'
  OBVIOUS
<1> USE Heights, BoundsAssumption
<1>0. TypeOK /\ loc.h \in Nat /\ loc.tip \in Nat /\ loc.anc \in Nat
      /\ Height[mem.cursor] \in Nat /\ Height[core] \in Nat
  BY DEF TypeInv, TypeOK, IsIndex, Cursor
<1>00. lost' \in Nat /\ harm' \in {"none", "moved", "torn"}
  BY <1>0, RememberType DEF Next, Work, vars, TypeOK
<1>1. CASE Tick
  BY <1>0, <1>00, <1>1 DEF TypeInv, TypeOK, Tick
<1>2. CASE CheckCursor
  BY <1>0, <1>00, <1>2 DEF TypeInv, TypeOK, CheckCursor, Throws
<1>3. CASE ReorgTip
  BY <1>0, <1>00, <1>3 DEF TypeInv, TypeOK, ReorgTip
<1>4. CASE Walk
  BY <1>0, <1>00, <1>4 DEF TypeInv, TypeOK, Walk, Throws
<1>5. CASE WalkDone
  BY <1>0, <1>00, <1>5 DEF TypeInv, TypeOK, WalkDone
<1>6. CASE Undo
  <2> DEFINE staged == UndoBlock(mem, loc.h)
             rolled == [cursor |-> staged.cursor,
                        journal |-> Del(db.journal, {loc.h})]
  <2>1. IsIndex(staged) /\ IsIndex(rolled)
    BY <1>0, UndoType DEF TypeOK
  <2>2. pc = "undo" /\ loc.h > loc.anc
        /\ (Throws \/ Commit(rolled, staged) \/ CommitUnacknowledged(rolled))
    BY <1>6 DEF Undo
  <2> HIDE DEF staged, rolled
  <2>3. CASE Throws
    BY <1>0, <1>00, <2>3 DEF TypeInv, TypeOK, Throws
  <2>4. CASE Commit(rolled, staged)
    BY <1>0, <1>00, <2>1, <2>2, <2>4 DEF TypeInv, TypeOK, Commit
  <2>5. CASE CommitUnacknowledged(rolled)
    BY <1>0, <1>00, <2>1, <2>5 DEF TypeInv, TypeOK, CommitUnacknowledged
  <2> QED BY <2>2, <2>3, <2>4, <2>5
<1>7. CASE UndoDone
  BY <1>0, <1>00, <1>7 DEF TypeInv, TypeOK, UndoDone
<1>8. CASE ReplayBlock
  <2>1. CASE Throws
    BY <1>0, <1>00, <2>1 DEF TypeInv, TypeOK, Throws
  <2>2. CASE Answers(loc.h) /\ PersistBlock(BlockHash(loc.h))
    <3>1. pc = "replay" /\ loc.h >= 1
      BY <1>8 DEF ReplayBlock, TypeInv
    <3>2. BlockHash(loc.h) \in Block
      BY <1>0, <2>2, <3>1, BlockHashType
    <3>3. TypeOK'
      BY <1>0, <1>00, <2>2, <3>1, <3>2, PersistType
    <3>4. loc'.h >= 1 \/ pc' = "idle"
      BY <1>0, <1>00, <2>2, <3>1 DEF PersistBlock, Commit, CommitUnacknowledged, Throws,
                              TypeOK
    <3> QED BY <3>3, <3>4 DEF TypeInv
  <2> QED BY <1>8, <2>1, <2>2 DEF ReplayBlock
<1>9. CASE ReplayDone
  BY <1>0, <1>00, <1>9 DEF TypeInv, TypeOK, ReplayDone
<1>10. CASE SyncTip
  <2> DEFINE start == IF Height[mem.cursor] + 1 > Activation
                        THEN Height[mem.cursor] + 1 ELSE Activation
  <2>1. start \in Nat /\ start >= 1
    BY <1>0
  <2>2. loc' = [loc EXCEPT !.tip = Height[core], !.h = start] /\ pc' = "index"
        /\ UNCHANGED <<core, mem, db, moves, faults>>
    BY <1>10 DEF SyncTip
  <2> HIDE DEF start
  <2>3. loc'.h = start
    BY <1>0, <1>00, <2>2 DEF TypeOK
  <2> QED BY <1>0, <1>00, <2>1, <2>2, <2>3 DEF TypeInv, TypeOK
<1>11. CASE IndexBlock
  <2>0. pc = "index" /\ loc.h >= 1
    BY <1>11 DEF IndexBlock, TypeInv
  <2>1. CASE Throws
    BY <1>0, <1>00, <2>1 DEF TypeInv, TypeOK, Throws
  <2>2. CASE Answers(loc.h) /\ PersistBlock(BlockHash(loc.h))
    <3>2. BlockHash(loc.h) \in Block
      BY <1>0, <2>0, <2>2, BlockHashType
    <3>3. TypeOK'
      BY <1>0, <1>00, <2>0, <2>2, <3>2, PersistType
    <3>4. loc'.h >= 1 \/ pc' = "idle"
      BY <1>0, <1>00, <2>0, <2>2 DEF PersistBlock, Commit, CommitUnacknowledged, Throws,
                              TypeOK
    <3> QED BY <3>3, <3>4 DEF TypeInv
  <2>3. CASE /\ loc' = [loc EXCEPT !.h = @ + 1]
             /\ UNCHANGED <<core, mem, db, pc, moves, faults>>
    BY <1>0, <1>00, <2>0, <2>3 DEF TypeInv, TypeOK
  <2> QED BY <1>11, <2>1, <2>2, <2>3 DEF IndexBlock
<1>12. CASE IndexDone
  BY <1>0, <1>00, <1>12 DEF TypeInv, TypeOK, IndexDone
<1>13. CASE Restart
  BY <1>0, <1>00, <1>13 DEF TypeInv, TypeOK, Restart
<1>14. CASE CoreMoves
  BY <1>0, <1>00, <1>14 DEF TypeInv, TypeOK, CoreMoves
<1>15. CASE CallFails
  BY <1>0, <1>00, <1>15 DEF TypeInv, TypeOK, CallFails
<1>16. CASE Crash
  BY <1>0, <1>00, <1>16, EmptyIsIndex DEF TypeInv, TypeOK, Crash
<1>17. CASE UNCHANGED vars
  BY <1>0, <1>00, <1>17 DEF TypeInv, TypeOK, vars
<1> QED BY <1>1, <1>2, <1>3, <1>4, <1>5, <1>6, <1>7, <1>8, <1>9, <1>10, <1>11,
           <1>12, <1>13, <1>14, <1>15, <1>16, <1>17 DEF Next, Work, Step

LEMMA TypeInit == Init => TypeInv
  BY EmptyIsIndex, BoundsAssumption DEF Init, TypeInv, TypeOK

(* The index and the locals of a tick are well formed, whatever fails. *)
THEOREM TypeCorrect == Spec => []TypeOK
<1>1. TypeInv => TypeOK
  BY DEF TypeInv
<1> QED BY <1>1, TypeInit, TypeStep, PTL DEF Spec

-----------------------------------------------------------------------------
(* Memory and tables are written together and read back together. *)
LEMMA LockstepStep == TypeOK /\ Lockstep /\ [Next]_vars => Lockstep'
<1> SUFFICES ASSUME TypeOK, Lockstep, [Next]_vars, pc' # "down", lost' = 0
             PROVE  mem' = db'
  BY DEF Lockstep
<1>1. CASE UNCHANGED vars
  BY <1>1 DEF vars, Lockstep
<1>2. CASE mem' = db'
  BY <1>2
<1>3. CASE Next /\ mem' # db'
  <2>1. lost = 0 /\ (pc' = "idle" => db' = db)
    BY <1>3 DEF Next, Work, Remember, TypeOK
  <2>2. pc # "down" => mem = db
    BY <2>1 DEF Lockstep
  <2>3. ASSUME NEW b, PersistBlock(b), pc # "down" PROVE mem' = db'
    BY <2>1, <2>2, <2>3 DEF PersistBlock, Commit, CommitUnacknowledged, Throws
  <2>4. CASE Undo
    <3> DEFINE staged == UndoBlock(mem, loc.h)
               rolled == [cursor |-> staged.cursor,
                          journal |-> Del(db.journal, {loc.h})]
    <3>1. mem = db /\ pc = "undo"
      BY <2>2, <2>4 DEF Undo
    <3>2. staged = rolled
      BY <3>1 DEF UndoBlock
    <3>3. Throws \/ Commit(rolled, staged) \/ CommitUnacknowledged(rolled)
      BY <2>4 DEF Undo
    <3> HIDE DEF staged, rolled
    <3> QED BY <2>1, <3>1, <3>2, <3>3 DEF Throws, Commit, CommitUnacknowledged
  <2>5. CASE ReplayBlock
    BY <2>2, <2>3, <2>5 DEF ReplayBlock, Throws
  <2>6. CASE IndexBlock
    BY <2>2, <2>3, <2>6 DEF IndexBlock, Throws
  <2>7. CASE \/ Tick \/ CheckCursor \/ ReorgTip \/ Walk \/ WalkDone \/ UndoDone
             \/ ReplayDone \/ SyncTip \/ IndexDone \/ CoreMoves \/ CallFails
    BY <2>2, <2>7 DEF Tick, CheckCursor, ReorgTip, Walk, WalkDone, UndoDone,
                      ReplayDone, SyncTip, IndexDone, CoreMoves, CallFails, Throws
  <2>8. CASE Restart \/ Crash
    BY <2>8 DEF Restart, Crash
  <2>9. Step \/ CoreMoves \/ CallFails \/ Crash
    BY <1>3 DEF Next, Work
  <2> QED BY <2>4, <2>5, <2>6, <2>7, <2>8, <2>9 DEF Step
<1> QED BY <1>1, <1>2, <1>3

(* Memory and tables stay in lockstep until an acknowledgement is lost,    *)
(* and again from the moment they are equal: however Core's chain moves    *)
(* during a tick, and whichever other call fails.                          *)
THEOREM InLockstep == Spec => []Lockstep
<1>1. Init => Lockstep
  BY DEF Init, Lockstep
<1>2. Spec => []TypeOK
  BY TypeCorrect
<1> QED BY <1>1, <1>2, LockstepStep, PTL DEF Spec
-----------------------------------------------------------------------------
(* Journals of clean replays, and how they grow and shrink. *)
LEMMA ParentType ==
  ASSUME NEW b \in Block, Height[b] >= Activation
  PROVE  /\ Parent(b) = NoBlock => Height[b] = Activation
         /\ Parent(b) # NoBlock => /\ Parent(b) \in Block
                                   /\ Height[Parent(b)] = Height[b] - 1
                                   /\ Height[b] > Activation
         /\ \A k \in Activation .. Height[b] - 1 :
              Parent(b) # NoBlock /\ Ancestor[Parent(b)][k] = Ancestor[b][k]
<1>1. CASE Height[b] = Activation
  BY <1>1, Heights DEF Parent
<1>2. CASE Height[b] # Activation
  <2>1. Height[b] - 1 \in 1 .. Height[b] /\ Height[b] > Activation
    BY <1>2, Heights
  <2>2. Parent(b) = Ancestor[b][Height[b] - 1]
    BY <1>2 DEF Parent
  <2>3. \A k \in Activation .. Height[b] - 1 : k \in 1 .. Height[b] - 1
    BY Heights
  <2> QED BY <2>1, <2>2, <2>3, Ancestry, Heights
<1> QED BY <1>1, <1>2

LEMMA ReplayGrow ==
  ASSUME NEW b \in Block, Height[b] >= Activation
  PROVE  Put(Replay(Parent(b)), [k \in {Height[b]} |-> b]) = Replay(b)
<1> DEFINE p == Parent(b)
           H == Height[b]
<1>1. /\ p = NoBlock => H = Activation
      /\ p # NoBlock => Height[p] = H - 1
      /\ \A k \in Activation .. H - 1 : Ancestor[p][k] = Ancestor[b][k]
  BY ParentType
<1>2. H \in Nat /\ Activation \in Nat /\ Height[NoBlock] = 0 /\ Activation >= 1
      /\ H >= Activation
  BY Heights
<1>3. Ancestor[b][H] = b
  BY <1>2, Ancestry
<1> HIDE DEF p
<1>4. (Activation .. Height[p]) \cup {H} = Activation .. H
  BY <1>1, <1>2
<1>5. \A k \in Activation .. Height[p] : k \in Activation .. H - 1 /\ k # H
  BY <1>1, <1>2
<1>6. Put(Replay(p), [k \in {H} |-> b]) =
        [k \in (Activation .. Height[p]) \cup {H} |->
           IF k = H THEN b ELSE Ancestor[p][k]]
  BY <1>5 DEF Put, Replay
<1>7. \A k \in Activation .. H : (IF k = H THEN b ELSE Ancestor[p][k]) = Ancestor[b][k]
  BY <1>1, <1>2, <1>3
<1> QED BY <1>4, <1>6, <1>7 DEF Replay, p

LEMMA ReplayShrink ==
  ASSUME NEW b \in Block, Height[b] >= Activation
  PROVE  /\ Del(Replay(b), {Height[b]}) = Replay(Parent(b))
         /\ Parent(b) = IF Height[b] - 1 \in DOMAIN Replay(b)
                          THEN Replay(b)[Height[b] - 1] ELSE NoBlock
<1> DEFINE p == Parent(b)
           H == Height[b]
<1>1. /\ p = NoBlock => H = Activation
      /\ p # NoBlock => Height[p] = H - 1
      /\ \A k \in Activation .. H - 1 : Ancestor[p][k] = Ancestor[b][k]
  BY ParentType
<1>2. H \in Nat /\ Activation \in Nat /\ Height[NoBlock] = 0 /\ Activation >= 1
      /\ H >= Activation
  BY Heights
<1>3. p = IF H = Activation THEN NoBlock ELSE Ancestor[b][H - 1]
  BY DEF Parent
<1> HIDE DEF p
<1>4. (Activation .. H) \ {H} = Activation .. Height[p]
  BY <1>1, <1>2
<1>5. \A k \in Activation .. Height[p] : Ancestor[p][k] = Ancestor[b][k]
  BY <1>1, <1>2
<1>6. Del(Replay(b), {H}) = [k \in (Activation .. H) \ {H} |-> Ancestor[b][k]]
  BY DEF Del, Replay
<1>7. Del(Replay(b), {H}) = Replay(p)
  BY <1>4, <1>5, <1>6 DEF Replay
<1>8. DOMAIN Replay(b) = Activation .. H
  BY DEF Replay
<1>9. H - 1 \in DOMAIN Replay(b) <=> H # Activation
  BY <1>2, <1>8
<1>10. H # Activation => Replay(b)[H - 1] = Ancestor[b][H - 1]
  BY <1>8, <1>9 DEF Replay
<1> QED BY <1>3, <1>7, <1>9, <1>10 DEF p

-----------------------------------------------------------------------------
(* The two ways a tick writes when nothing but blocks on top was added to  *)
(* the chain: memory follows the tables unless the acknowledgement is lost. *)
GrowTo(b) ==
  /\ b \in Block /\ Height[b] >= Activation /\ mem.cursor = Parent(b)
  /\ OnCore(b) /\ loc.h = Height[b]
  /\ db' = ApplyBlock(db, b) /\ core' = core
  /\ \/ /\ mem' = [cursor |-> b, journal |-> Replay(b)]
        /\ pc' = pc /\ loc' = [loc EXCEPT !.h = @ + 1]
     \/ mem' = mem /\ pc' = "idle"

ShrinkOne ==
  /\ mem.cursor \in Block /\ loc.h = Height[mem.cursor] /\ loc.h > loc.anc
  /\ db' = [cursor |-> Parent(mem.cursor), journal |-> Del(db.journal, {loc.h})]
  /\ core' = core
  /\ \/ /\ mem' = [cursor |-> Parent(mem.cursor), journal |-> Replay(Parent(mem.cursor))]
        /\ pc' = pc /\ loc' = [loc EXCEPT !.h = @ - 1]
     \/ mem' = mem /\ pc' = "idle"

(* The facts about the current state that every step of a tick uses. *)
Facts ==
  /\ TypeOK /\ core \in Block
  /\ Height[core] \in Nat /\ Height[core] >= 1
  /\ loc \in [tip : Nat, h : Nat, anc : Nat]
  /\ loc.h \in Nat /\ loc.tip \in Nat /\ loc.anc \in Nat
  /\ mem.cursor \in Cursor /\ Height[mem.cursor] \in Nat
  /\ mem.cursor # NoBlock => mem.cursor \in Block /\ Height[mem.cursor] >= Activation
  /\ mem.journal = Replay(mem.cursor)
  /\ DOMAIN mem.journal = Activation .. Height[mem.cursor]
  /\ \A k \in Activation .. Height[mem.cursor] :
       mem.journal[k] = Ancestor[mem.cursor][k]

LEMMA FactsHold == IndexInv /\ harm # "torn" => Facts
<1> SUFFICES ASSUME IndexInv, harm # "torn" PROVE Facts
  OBVIOUS
<1>1. TypeOK /\ mem.journal = Replay(mem.cursor)
      /\ (mem.cursor # NoBlock => Height[mem.cursor] >= Activation)
  BY DEF IndexInv, Clean
<1>2. core \in Block /\ mem.cursor \in Cursor /\ loc \in [tip : Nat, h : Nat, anc : Nat]
  BY <1>1 DEF TypeOK, IsIndex
<1>3. Height[mem.cursor] \in Nat /\ Height[core] \in Nat /\ Height[core] >= 1
      /\ (mem.cursor # NoBlock => mem.cursor \in Block)
  BY <1>2, Heights DEF Cursor
<1>5. /\ DOMAIN mem.journal = Activation .. Height[mem.cursor]
      /\ \A k \in Activation .. Height[mem.cursor] :
           mem.journal[k] = Ancestor[mem.cursor][k]
  BY <1>1 DEF Replay
<1>6. loc.h \in Nat /\ loc.tip \in Nat /\ loc.anc \in Nat
  BY <1>2
<1> QED BY <1>1, <1>2, <1>3, <1>5, <1>6 DEF Facts

(* The block of the active chain just above the index is its child. *)
LEMMA NextOnCore ==
  ASSUME Facts, NEW h \in Nat, AtTipOf(mem.cursor, h), h <= Height[core]
  PROVE  /\ BlockHash(h) \in Block /\ Height[BlockHash(h)] = h /\ h >= Activation
         /\ mem.cursor = Parent(BlockHash(h)) /\ OnCore(BlockHash(h))
<1> DEFINE b == BlockHash(h)
           x == mem.cursor
<1>1. h >= Activation /\ h \in 1 .. Height[core] /\ core \in Block
  BY Heights DEF Facts, AtTipOf
<1>2. b = Ancestor[core][h] /\ b \in Block /\ Height[b] = h
      /\ \A k \in 1 .. h : Ancestor[b][k] = Ancestor[core][k]
  BY <1>1, Ancestry DEF BlockHash
<1>3. OnCore(b)
  BY <1>1, <1>2 DEF OnCore, Answers, BlockHash
<1>4. CASE x = NoBlock /\ h = Activation
  BY <1>1, <1>2, <1>3, <1>4 DEF Parent
<1>5. CASE x # NoBlock /\ OnCore(x) /\ h = Height[x] + 1
  <2>1. h # Activation /\ h - 1 = Height[x] /\ h - 1 \in 1 .. h
    BY <1>5, Heights DEF Facts
  <2>2. Parent(b) = Ancestor[b][h - 1]
    BY <1>2, <2>1 DEF Parent
  <2>3. x = Ancestor[core][h - 1]
    BY <1>5, <2>1 DEF OnCore, BlockHash
  <2>4. x = Parent(b)
    BY <1>2, <2>1, <2>2, <2>3
  <2> QED BY <1>1, <1>2, <1>3, <2>4
<1> QED BY <1>1, <1>2, <1>3, <1>4, <1>5 DEF AtTipOf

LEMMA PersistGrows ==
  ASSUME Facts, PersistBlock(BlockHash(loc.h)), pc \in {"replay", "index"},
         AtTipOf(mem.cursor, loc.h), loc.h <= Height[core]
  PROVE  Throws \/ GrowTo(BlockHash(loc.h))
<1> DEFINE b == BlockHash(loc.h)
<1>1. loc.h \in Nat
  BY DEF Facts
<1>2. b \in Block /\ Height[b] = loc.h /\ loc.h >= Activation
      /\ mem.cursor = Parent(b) /\ OnCore(b)
  BY <1>1, NextOnCore
<1>3. PersistBlock(b)
  OBVIOUS
<1> HIDE DEF b
<1>4. ApplyBlock(mem, b) = [cursor |-> b, journal |-> Replay(b)]
  BY <1>2, ReplayGrow DEF Facts, ApplyBlock
<1>5. \/ Throws
      \/ Commit(ApplyBlock(db, b), ApplyBlock(mem, b))
      \/ CommitUnacknowledged(ApplyBlock(db, b))
  BY <1>3 DEF PersistBlock
<1>6. CASE Commit(ApplyBlock(db, b), ApplyBlock(mem, b))
  <2>1. loc' = [loc EXCEPT !.h = @ + 1] /\ core' = core /\ pc' = pc
        /\ db' = ApplyBlock(db, b) /\ mem' = ApplyBlock(mem, b)
    BY <1>6 DEF Commit
  <2> QED BY <1>2, <1>4, <2>1 DEF GrowTo, b
<1>7. CASE CommitUnacknowledged(ApplyBlock(db, b))
  BY <1>2, <1>7 DEF CommitUnacknowledged, GrowTo, b
<1> QED BY <1>5, <1>6, <1>7

LEMMA UndoShrinks ==
  ASSUME Facts, Undo, Searching(mem.cursor)
  PROVE  ShrinkOne
<1> DEFINE x == mem.cursor
           staged == UndoBlock(mem, loc.h)
           rolled == [cursor |-> staged.cursor, journal |-> Del(db.journal, {loc.h})]
<1>1. pc = "undo" /\ loc.h > loc.anc
  BY DEF Undo, Facts
<1>2. x \in Block /\ loc.h = Height[x] /\ Height[x] >= Activation
  BY <1>1, Heights DEF Facts, Searching
<1>3. loc.h \in DOMAIN mem.journal
  BY <1>1, <1>2, Heights DEF Facts
<1>4. Commit(rolled, staged) \/ CommitUnacknowledged(rolled)
  BY <1>3 DEF Undo
<1>5. staged = [cursor |-> Parent(x), journal |-> Replay(Parent(x))]
  BY <1>1, <1>2, ReplayShrink DEF UndoBlock, Facts
<1>6. rolled = [cursor |-> Parent(x), journal |-> Del(db.journal, {loc.h})]
  BY <1>5
<1> HIDE DEF staged, rolled
<1>7. CASE Commit(rolled, staged)
  <2>1. loc' = [loc EXCEPT !.h = @ - 1] /\ core' = core /\ pc' = pc /\ db' = rolled
        /\ mem' = staged
    BY <1>1, <1>7 DEF Commit
  <2> QED BY <1>1, <1>2, <1>5, <1>6, <2>1 DEF ShrinkOne
<1>8. CASE CommitUnacknowledged(rolled)
  BY <1>1, <1>2, <1>6, <1>8 DEF ShrinkOne, CommitUnacknowledged
<1> QED BY <1>4, <1>7, <1>8

-----------------------------------------------------------------------------
(* Every step of an undisturbed tick leaves the index alone, adds the next *)
(* block of the active chain, or takes back an orphan.                     *)
LEMMA CalmWrites ==
  ASSUME IndexInv, harm = "none", [Next]_vars
  PROVE  \/ db' = db /\ mem' \in {mem, db, EmptyIndex}
         \/ pc \in {"replay", "index"} /\ GrowTo(BlockHash(loc.h))
         \/ pc = "undo" /\ Searching(mem.cursor) /\ ShrinkOne
<1>1. Facts /\ Position(mem.cursor)
  BY FactsHold DEF IndexInv
<1>2. CASE Undo
  <2>1. pc = "undo" /\ Searching(mem.cursor)
    BY <1>1, <1>2 DEF Undo, Position
  <2> QED BY <1>1, <1>2, <2>1, UndoShrinks
<1>3. CASE ReplayBlock
  <2>1. pc = "replay" /\ loc.h <= Height[core] /\ AtTipOf(mem.cursor, loc.h)
    BY <1>1, <1>3 DEF ReplayBlock, Position, Facts
  <2>2. Throws \/ PersistBlock(BlockHash(loc.h))
    BY <1>3 DEF ReplayBlock
  <2>3. Throws \/ GrowTo(BlockHash(loc.h))
    BY <1>1, <2>1, <2>2, PersistGrows
  <2> QED BY <2>1, <2>3 DEF Throws
<1>4. CASE IndexBlock
  <2>1. pc = "index" /\ loc.h <= Height[core] /\ AtTipOf(mem.cursor, loc.h)
    BY <1>1, <1>4 DEF IndexBlock, Position, Facts
  <2>2. (db' = db /\ mem' = mem) \/ Throws \/ PersistBlock(BlockHash(loc.h))
    BY <1>4 DEF IndexBlock
  <2>3. (db' = db /\ mem' = mem) \/ Throws \/ GrowTo(BlockHash(loc.h))
    BY <1>1, <2>1, <2>2, PersistGrows
  <2> QED BY <2>1, <2>3 DEF Throws
<1>5. CASE \/ Tick \/ CheckCursor \/ ReorgTip \/ Walk \/ WalkDone \/ UndoDone
           \/ ReplayDone \/ SyncTip \/ IndexDone \/ CoreMoves \/ CallFails
           \/ Restart \/ Crash \/ UNCHANGED vars
  BY <1>5 DEF Tick, CheckCursor, ReorgTip, Walk, WalkDone, UndoDone, ReplayDone,
              SyncTip, IndexDone, CoreMoves, CallFails, Throws, Restart, Crash, vars
<1> QED BY <1>2, <1>3, <1>4, <1>5 DEF Next, Work, Step

(* What the shape of a step is, whatever the history. *)
LEMMA StepShape ==
  ASSUME [Next]_vars
  PROVE  /\ Remember \/ UNCHANGED vars
         /\ pc' = "down" => db' = db /\ mem' \in {mem, EmptyIndex}
<1>1. Remember \/ UNCHANGED vars
  BY DEF Next, Work
<1> SUFFICES pc' = "down" => db' = db /\ mem' \in {mem, EmptyIndex}
  BY <1>1
<1>2. ASSUME NEW b, PersistBlock(b), pc # "down" PROVE pc' # "down"
  BY <1>2 DEF PersistBlock, Commit, CommitUnacknowledged, Throws
<1>3. CASE Undo
  BY <1>3 DEF Undo, Commit, CommitUnacknowledged, Throws
<1>4. CASE ReplayBlock
  BY <1>2, <1>4 DEF ReplayBlock, Throws
<1>5. CASE IndexBlock
  BY <1>2, <1>5 DEF IndexBlock, Throws
<1>6. CASE \/ Tick \/ CheckCursor \/ ReorgTip \/ Walk \/ WalkDone \/ UndoDone
           \/ ReplayDone \/ SyncTip \/ IndexDone \/ CoreMoves \/ CallFails
           \/ Restart \/ Crash \/ UNCHANGED vars
  BY <1>6 DEF Tick, CheckCursor, ReorgTip, Walk, WalkDone, UndoDone, ReplayDone,
              SyncTip, IndexDone, CoreMoves, CallFails, Throws, Restart, Crash, vars
<1> QED BY <1>1, <1>3, <1>4, <1>5, <1>6 DEF Next, Work, Step

LEMMA EmptyIsClean == Clean(EmptyIndex)
<1>1. Activation .. Height[NoBlock] = {}
  BY Heights
<1>2. Replay(NoBlock) = Nothing
  BY <1>1 DEF Replay, Nothing
<1> QED BY <1>2 DEF Clean, EmptyIndex

(* The replay of the chain of a block at or above activation is clean. *)
LEMMA ReplayIsClean ==
  ASSUME NEW x, Clean(x), NEW b \in Block, Height[b] >= Activation
  PROVE  /\ x.cursor = Parent(b) => Clean(ApplyBlock(x, b))
         /\ Clean([cursor |-> b, journal |-> Replay(b)])
         /\ Clean([cursor |-> Parent(b), journal |-> Replay(Parent(b))])
         /\ x.cursor = b => Del(x.journal, {Height[b]}) = Replay(Parent(b))
<1>1. x.cursor = Parent(b) =>
        ApplyBlock(x, b) = [cursor |-> b, journal |-> Replay(b)]
  BY ReplayGrow DEF ApplyBlock, Clean
<1>2. Parent(b) # NoBlock => Height[Parent(b)] >= Activation
  BY ParentType, Heights
<1> QED BY <1>1, <1>2, ReplayShrink DEF Clean

(* Memory and tables stay clean replays until the history calls them torn. *)
LEMMA TablesStep ==
  ASSUME IndexInv, [Next]_vars, harm' # "torn"
  PROVE  Clean(db)' /\ Clean(mem)'
<1> SUFFICES ASSUME Remember PROVE Clean(db)' /\ Clean(mem)'
  BY StepShape DEF IndexInv, vars, Clean
<1>1. harm # "torn" /\ TypeOK
  BY DEF Remember, IndexInv
<1>2. Clean(db) /\ Clean(mem) /\ Clean(EmptyIndex)
  BY <1>1, EmptyIsClean DEF IndexInv
<1>3. db' # db => mem = db
  BY DEF Remember
<1>4. CASE db' = db /\ mem' \in {mem, db, EmptyIndex}
  BY <1>2, <1>4 DEF Clean
<1>5. CASE GrowTo(BlockHash(loc.h))
  <2>1. PICK b \in Block :
          /\ Height[b] >= Activation /\ mem.cursor = Parent(b)
          /\ db' = ApplyBlock(db, b)
          /\ mem' = [cursor |-> b, journal |-> Replay(b)] \/ mem' = mem
    BY <1>5 DEF GrowTo
  <2>2. Clean(mem')
    BY <1>2, <2>1, ReplayIsClean
  <2>3. Clean(db')
    BY <1>2, <1>3, <2>1, ReplayIsClean
  <2> QED BY <2>2, <2>3 DEF Clean
<1>6. CASE ShrinkOne
  <2>1. PICK b \in Block :
          /\ b = mem.cursor /\ loc.h = Height[b]
          /\ db' = [cursor |-> Parent(b), journal |-> Del(db.journal, {Height[b]})]
          /\ \/ mem' = [cursor |-> Parent(b), journal |-> Replay(Parent(b))]
             \/ mem' = mem
    BY <1>6 DEF ShrinkOne
  <2>2. Height[b] >= Activation
    BY <1>2, <2>1, Heights DEF Clean
  <2>3. Clean(mem')
    BY <1>2, <2>1, <2>2, ReplayIsClean
  <2>4. CASE db' = db
    BY <1>2, <2>3, <2>4 DEF Clean
  <2>5. CASE mem = db
    <3>1. db' = [cursor |-> Parent(b), journal |-> Replay(Parent(b))]
      BY <1>2, <2>1, <2>2, <2>5, ReplayIsClean
    <3>2. Clean(db')
      BY <1>2, <2>2, <3>1, ReplayIsClean
    <3> QED BY <2>3, <3>2 DEF Clean
  <2> QED BY <1>3, <2>4, <2>5
<1>7. CASE harm = "moved"
  <2>1. db' = db /\ mem' \in {mem, EmptyIndex}
    BY <1>7, StepShape DEF Remember
  <2> QED BY <1>2, <2>1 DEF Clean
<1>8. harm \in {"none", "moved"}
  BY <1>1 DEF TypeOK
<1> QED BY <1>4, <1>5, <1>6, <1>7, <1>8, CalmWrites

(* What holds between two steps: at rest nothing is claimed of the tick. *)
LEMMA AtRest == pc' \in {"idle", "down"} => Position(mem.cursor)'
  BY DEF Position

(* The first half of a tick: the cursor check and the search. *)
LEMMA PositionSearch ==
  ASSUME IndexInv, harm = "none", Tick \/ CheckCursor \/ ReorgTip \/ Walk \/ WalkDone
  PROVE  Position(mem.cursor)'
<1> USE Heights
<1>1. Facts /\ Position(mem.cursor)
  BY FactsHold DEF IndexInv
<1>2. mem' = mem /\ core' = core
  BY DEF Tick, CheckCursor, ReorgTip, Walk, WalkDone, Throws
<1>3. CASE Tick
  <2>1. /\ pc' = "check" => mem.cursor # NoBlock /\ Height[mem.cursor] <= Height[core]
        /\ pc' = "sync" => mem.cursor = NoBlock \/ Height[mem.cursor] > Height[core]
        /\ pc' \in {"check", "sync"}
    BY <1>1, <1>3 DEF Tick, Facts
  <2> QED BY <1>2, <2>1 DEF Position
<1>4. CASE CheckCursor
  <2>1. mem.cursor # NoBlock /\ Height[mem.cursor] <= Height[core]
    BY <1>1, <1>4 DEF CheckCursor, Facts, Position
  <2>2. pc' = "sync" => OnCore(mem.cursor)
    BY <1>4, <2>1 DEF CheckCursor, OnCore, Throws
  <2>3. pc' \in {"idle", "sync", "reorg"}
    BY <1>4 DEF CheckCursor, Throws
  <2> QED BY <1>2, <2>1, <2>2, <2>3 DEF Position, OnCore, Answers, BlockHash
<1>5. CASE ReorgTip
  <2>1. mem.cursor # NoBlock /\ pc' = "walk" /\ Height[mem.cursor] <= Height[core]
    BY <1>1, <1>5 DEF ReorgTip, Facts, Position
  <2> DEFINE H == Height[mem.cursor]
             C == Height[core]
             low == IF H > C THEN C ELSE H
             a == IF low < Floor THEN Floor ELSE low
  <2>2. loc' = [tip |-> C, h |-> H, anc |-> a]
    BY <1>5, <2>1 DEF ReorgTip
  <2>3. /\ H \in Nat /\ C \in Nat /\ a \in Nat /\ Floor <= a /\ a <= H
        /\ H <= C
        /\ \A k \in a + 1 .. H : ~(k <= C)
    BY <1>1, <2>1 DEF Facts
  <2> HIDE DEF a, H, C
  <2>4. Searching(mem.cursor)'
    BY <1>2, <2>1, <2>2, <2>3 DEF Searching, Shared, H, C
  <2> QED BY <1>2, <2>1, <2>2, <2>3, <2>4 DEF Position, H, C
<1>6. CASE Walk
  <2>1. pc = "walk" /\ mem.cursor # NoBlock /\ Searching(mem.cursor)
        /\ loc.anc > Floor /\ loc.anc <= Height[core]
    BY <1>1, <1>6 DEF Walk, Facts, Position, Searching
  <2>2. CASE pc' = "idle"
    BY <2>2, AtRest
  <2>3. CASE /\ ~Common(loc.anc)
             /\ loc' = [loc EXCEPT !.anc = @ - 1]
             /\ pc' = pc
    <3>1. loc.anc \in Activation .. Height[mem.cursor]
      BY <1>1, <2>1 DEF Searching, Facts
    <3>2. ~Shared(mem.cursor, loc.anc)
      BY <1>1, <2>1, <2>3, <3>1 DEF Common, Shared, Facts
    <3>3. loc'.anc = loc.anc - 1 /\ loc'.tip = loc.tip /\ loc'.h = loc.h
      BY <1>1, <2>3 DEF Facts
    <3>4. \A k \in loc.anc .. loc.h : ~Shared(mem.cursor, k)
      BY <1>1, <2>1, <3>2 DEF Searching, Facts
    <3>5. \A k \in loc'.anc + 1 .. loc'.h : ~Shared(mem.cursor, k)
      BY <1>1, <3>3, <3>4 DEF Facts
    <3>6. \A k : Shared(mem.cursor, k)' = Shared(mem.cursor, k)
      BY <1>2 DEF Shared, BlockHash
    <3>7. Searching(mem.cursor)'
      BY <1>1, <1>2, <2>1, <3>3, <3>5, <3>6 DEF Searching, Facts
    <3> QED BY <1>1, <1>2, <2>1, <2>3, <3>3, <3>7 DEF Position, Facts
  <2> QED BY <1>6, <2>2, <2>3 DEF Walk, Throws
<1>7. CASE WalkDone
  <2>1. pc = "walk" /\ mem.cursor # NoBlock /\ Searching(mem.cursor)
        /\ pc' = "undo" /\ loc' = loc
    BY <1>1, <1>7 DEF WalkDone, Facts, Position
  <2>2. loc.anc > Floor => Shared(mem.cursor, loc.anc)
    <3>1. SUFFICES ASSUME loc.anc > Floor PROVE Shared(mem.cursor, loc.anc)
      OBVIOUS
    <3>2. Common(loc.anc) /\ loc.anc <= Height[core]
      BY <1>7, <3>1 DEF WalkDone, Answers
    <3>3. loc.anc \in Activation .. Height[mem.cursor]
      BY <1>1, <2>1, <3>1 DEF Searching, Facts
    <3> QED BY <1>1, <2>1, <3>2, <3>3 DEF Common, Shared, Facts
  <2>3. \A k : Shared(mem.cursor, k)' = Shared(mem.cursor, k)
    BY <1>2 DEF Shared, BlockHash
  <2>4. Searching(mem.cursor)'
    BY <1>1, <1>2, <2>1, <2>3 DEF Searching, Facts
  <2> QED BY <1>2, <2>1, <2>2, <2>3, <2>4 DEF Position
<1> QED BY <1>3, <1>4, <1>5, <1>6, <1>7

(* The second half: the rollback and the two forward loops. *)
LEMMA PositionUndo ==
  ASSUME IndexInv, harm = "none", Undo, pc' # "idle"
  PROVE  Position(mem.cursor)'
<1> USE Heights
<1>1. Facts /\ pc = "undo" /\ Searching(mem.cursor)
      /\ (loc.anc > Floor => Shared(mem.cursor, loc.anc))
  BY FactsHold DEF IndexInv, Position, Undo
<1>2. ShrinkOne
  BY <1>1, UndoShrinks
<1> SUFFICES ASSUME NEW x, x = mem.cursor, NEW y, y = Parent(x)
             PROVE  Position(mem.cursor)'
  OBVIOUS
<1>3. /\ x \in Block /\ Height[x] >= Activation /\ loc.h = Height[x]
      /\ loc.h > loc.anc
      /\ mem'.cursor = y /\ core' = core /\ pc' = "undo"
      /\ loc' = [loc EXCEPT !.h = @ - 1]
  BY <1>1, <1>2 DEF ShrinkOne, Facts
<1>4. loc'.h = loc.h - 1 /\ loc'.anc = loc.anc /\ loc'.tip = loc.tip
  BY <1>1, <1>3 DEF Facts
<1>5. /\ y = NoBlock => Height[x] = Activation
      /\ y # NoBlock => Height[y] = Height[x] - 1
      /\ \A k \in Activation .. Height[x] - 1 :
           y # NoBlock /\ Ancestor[y][k] = Ancestor[x][k]
  BY <1>3, ParentType
<1>6. \A k \in Activation .. loc.h - 1 : Shared(y, k)' = Shared(x, k)
  BY <1>3, <1>5 DEF Shared, BlockHash
<1>7. \A k \in loc.anc + 1 .. loc.h - 1 : ~Shared(y, k)'
  <2>1. SUFFICES ASSUME NEW k \in loc.anc + 1 .. loc.h - 1 PROVE ~Shared(y, k)'
    OBVIOUS
  <2>2. k \in Activation .. loc.h - 1 /\ k \in loc.anc + 1 .. loc.h
    BY <1>1 DEF Facts, Searching
  <2> QED BY <1>1, <1>6, <2>2 DEF Searching
<1>8. Searching(mem.cursor)'
  <2>1. /\ loc'.tip <= Height[core'] /\ Floor <= loc'.anc /\ loc'.anc <= loc'.h
        /\ loc'.h <= Height[core']
    BY <1>1, <1>3, <1>4 DEF Searching, Facts
  <2>2. (y # NoBlock => loc'.h = Height[y]) /\ (y = NoBlock => loc'.h = Floor)
    BY <1>1, <1>3, <1>4, <1>5 DEF Facts
  <2>3. \A k \in loc'.anc + 1 .. loc'.h : ~Shared(y, k)'
    BY <1>4, <1>7
  <2> QED BY <1>3, <2>1, <2>2, <2>3 DEF Searching, Shared, BlockHash
<1>9. loc'.anc > Floor => Shared(mem.cursor, loc.anc)'
  <2>1. SUFFICES ASSUME loc.anc > Floor PROVE Shared(mem.cursor, loc.anc)'
    BY <1>4
  <2>2. loc.anc \in Activation .. loc.h - 1
    BY <1>1, <1>3, <2>1 DEF Facts
  <2>3. Shared(x, loc.anc)
    BY <1>1, <2>1
  <2> QED BY <1>3, <1>4, <1>6, <2>2, <2>3 DEF Shared, BlockHash
<1> QED BY <1>3, <1>8, <1>9 DEF Position

LEMMA PositionForward ==
  ASSUME IndexInv, harm = "none", GrowTo(BlockHash(loc.h)), pc \in {"replay", "index"},
         pc' # "idle"
  PROVE  Position(mem.cursor)'
<1> DEFINE b == BlockHash(loc.h)
<1>1. Facts /\ loc.tip <= Height[core]
  BY FactsHold DEF IndexInv, Position
<1>2. b \in Block /\ OnCore(b) /\ loc.h = Height[b] /\ mem'.cursor = b
      /\ core' = core /\ pc' = pc /\ loc' = [loc EXCEPT !.h = @ + 1]
  BY DEF GrowTo
<1> HIDE DEF b
<1>3. loc'.h = Height[b] + 1 /\ loc'.tip <= Height[core']
  BY <1>1, <1>2 DEF Facts
<1>4. AtTipOf(mem.cursor, loc.h)'
  BY <1>2, <1>3, Heights DEF AtTipOf, OnCore, Answers, BlockHash
<1> QED BY <1>2, <1>3, <1>4 DEF Position

LEMMA PositionOther ==
  ASSUME IndexInv, harm = "none", UndoDone \/ ReplayDone \/ SyncTip
  PROVE  Position(mem.cursor)'
<1> USE Heights
<1>1. Facts /\ Position(mem.cursor)
  BY FactsHold DEF IndexInv
<1>2. mem' = mem /\ core' = core
  BY DEF UndoDone, ReplayDone, SyncTip
<1>3. \A h : OnCore(mem.cursor)' = OnCore(mem.cursor)
             /\ AtTipOf(mem.cursor, h)' = AtTipOf(mem.cursor, h)
  BY <1>2 DEF OnCore, AtTipOf, Answers, BlockHash
<1>4. CASE UndoDone
  <2>1. /\ Searching(mem.cursor) /\ loc.h <= loc.anc /\ pc' = "replay"
        /\ loc' = [loc EXCEPT !.h = loc.anc + 1]
        /\ (loc.anc > Floor => Shared(mem.cursor, loc.anc))
    BY <1>1, <1>4 DEF UndoDone, Position
  <2>2. loc.h = loc.anc /\ loc'.h = loc.anc + 1 /\ loc'.tip <= Height[core]
    BY <1>1, <2>1 DEF Searching, Facts
  <2>3. AtTipOf(mem.cursor, loc.anc + 1)
    <3>1. CASE mem.cursor = NoBlock
      BY <1>1, <2>1, <2>2, <3>1 DEF Searching, AtTipOf
    <3>2. CASE mem.cursor # NoBlock
      <4>1. loc.anc = Height[mem.cursor] /\ mem.cursor \in Block /\ loc.anc > Floor
        BY <1>1, <2>1, <2>2, <3>2 DEF Searching, Facts
      <4>2. Ancestor[mem.cursor][Height[mem.cursor]] = mem.cursor
        BY <4>1, Ancestry
      <4> QED BY <2>1, <3>2, <4>1, <4>2 DEF AtTipOf, OnCore, Shared, Answers
    <3> QED BY <3>1, <3>2
  <2> QED BY <1>2, <1>3, <2>1, <2>2, <2>3 DEF Position, AtTipOf, OnCore, Answers,
             BlockHash
<1>5. CASE ReplayDone
  <2>1. AtTipOf(mem.cursor, loc.h) /\ pc' = "sync"
    BY <1>1, <1>5 DEF ReplayDone, Position
  <2>2. mem.cursor = NoBlock \/ OnCore(mem.cursor)
    BY <2>1 DEF AtTipOf
  <2> QED BY <1>2, <2>1, <2>2 DEF Position, OnCore, Answers, BlockHash
<1>6. CASE SyncTip
  <2> DEFINE x == mem.cursor
             start == IF Height[x] + 1 > Activation THEN Height[x] + 1 ELSE Activation
  <2>1. /\ pc' = "index"
        /\ x = NoBlock \/ OnCore(x) \/ Height[x] > Height[core]
    BY <1>1, <1>6 DEF SyncTip, Facts, Position
  <2>2. loc' = [loc EXCEPT !.tip = Height[core], !.h = start]
    BY <1>6, <2>1 DEF SyncTip
  <2>3. start \in Nat /\ (start > Height[core] \/ AtTipOf(x, start))
    BY <1>1, <2>1 DEF Facts, AtTipOf
  <2> HIDE DEF start
  <2>4. loc'.tip = Height[core] /\ loc'.h = start
    BY <1>1, <2>2 DEF Facts
  <2> QED BY <1>1, <1>2, <2>1, <2>3, <2>4 DEF Position, AtTipOf, OnCore, Answers,
             BlockHash, Facts
<1> QED BY <1>4, <1>5, <1>6

(* An index at height h - 1 holds no block at height h, so the worker      *)
(* never finds the block it is about to index already there.               *)
LEMMA NothingToSkip ==
  ASSUME IndexInv, harm = "none", IndexBlock
  PROVE  ~Common(loc.h)
<1>1. Facts /\ pc = "index" /\ AtTipOf(mem.cursor, loc.h)
  <2>1. Facts /\ Position(mem.cursor) /\ pc = "index" /\ loc.h <= loc.tip
    BY FactsHold DEF IndexInv, IndexBlock
  <2>2. ~(loc.h > loc.tip)
    BY <2>1 DEF Facts
  <2> QED BY <2>1, <2>2 DEF Position
<1>3. loc.h \notin Activation .. Height[mem.cursor]
  BY <1>1, Heights DEF AtTipOf, Facts
<1> QED BY <1>1, <1>3 DEF Common, Facts

(* Blocks mined on top of the chain change nothing the tick has learnt.    *)
LEMMA PositionExtends ==
  ASSUME IndexInv, harm = "none", CoreMoves, OnlyExtends
  PROVE  Position(mem.cursor)'
<1> USE Heights
<1>1. Facts /\ Position(mem.cursor)
  BY FactsHold DEF IndexInv
<1> SUFFICES ASSUME NEW x, x = mem.cursor, NEW c, c = core, NEW c2, c2 = core'
             PROVE  Position(mem.cursor)'
  OBVIOUS
<1>2. /\ mem' = mem /\ loc' = loc /\ pc' = pc /\ c2 \in Block /\ c \in Block
      /\ Height[c] \in Nat /\ Height[c2] \in Nat /\ Height[x] \in Nat
      /\ Height[x] <= Height[c] /\ Height[c] <= Height[c2]
      /\ Ancestor[c2][Height[c]] = c
  BY <1>1 DEF CoreMoves, OnlyExtends, Facts
<1>3. \A k \in 1 .. Height[c] : Ancestor[c2][k] = Ancestor[c][k]
  <2>1. Height[c] \in 1 .. Height[c2]
    BY <1>2
  <2> QED BY <1>2, <2>1, Ancestry
<1>4. \A k \in 1 .. Height[c] : Shared(x, k)' = Shared(x, k)
  <2>1. \A k \in 1 .. Height[c] : k <= Height[c] /\ k <= Height[c2]
    BY <1>2
  <2> QED BY <1>3, <2>1 DEF Shared, BlockHash
<1>5. x # NoBlock => (OnCore(x) => OnCore(x)')
  <2>1. x # NoBlock => Height[x] \in 1 .. Height[c] /\ Height[x] <= Height[c2]
    BY <1>1, <1>2 DEF Facts
  <2> QED BY <1>3, <2>1 DEF OnCore, Answers, BlockHash
<1>6. \A h : AtTipOf(x, h) => AtTipOf(x, h)'
  BY <1>5 DEF AtTipOf
<1>7. Searching(x) => Searching(x)'
  <2>1. SUFFICES ASSUME Searching(x) PROVE Searching(x)'
    OBVIOUS
  <2>2. \A k \in loc.anc + 1 .. loc.h : k \in 1 .. Height[c]
    BY <1>1, <1>2, <2>1 DEF Searching, Facts
  <2>3. \A k \in loc'.anc + 1 .. loc'.h : ~Shared(x, k)'
    BY <1>2, <1>4, <2>1, <2>2 DEF Searching
  <2>4. loc'.tip <= Height[c2] /\ loc'.h <= Height[c2]
    BY <1>1, <1>2, <2>1 DEF Searching, Facts
  <2> QED BY <1>2, <2>1, <2>3, <2>4 DEF Searching
<1>8. pc = "undo" /\ loc.anc > Floor => Shared(x, loc.anc)'
  <2>1. SUFFICES ASSUME pc = "undo", loc.anc > Floor PROVE Shared(x, loc.anc)'
    BY <1>2
  <2>2. Shared(x, loc.anc) /\ loc.anc \in 1 .. Height[c]
    BY <1>1, <1>2, <2>1 DEF Position, Shared, Facts
  <2> QED BY <1>2, <1>4, <2>2
<1>9. loc.tip <= Height[c] => loc'.tip <= Height[c2]
  BY <1>1, <1>2 DEF Facts
<1>10. pc \in {"check", "reorg"} => Height[x] <= Height[c2]
  BY <1>2
<1>11. Position(x) /\ Height[x] <= Height[c]
  BY <1>1, <1>2
<1>12. pc = "sync" => x = NoBlock \/ OnCore(x)'
  BY <1>2, <1>5, <1>11 DEF Position
<1>13. Position(x)'
  BY <1>2, <1>6, <1>7, <1>8, <1>9, <1>10, <1>11, <1>12 DEF Position
<1> QED BY <1>2, <1>13 DEF Position, Searching, Shared, AtTipOf, OnCore, Answers,
           BlockHash

(* What a tick knows stays true as long as the history is unharmed. *)
LEMMA PositionStep ==
  ASSUME IndexInv, [Next]_vars, harm' = "none"
  PROVE  Position(mem.cursor)'
<1>1. CASE pc' \in {"idle", "down"}
  BY <1>1, AtRest
<1>2. CASE UNCHANGED vars
  BY <1>2 DEF vars, IndexInv, Position, Searching, Shared, AtTipOf, OnCore, Answers,
              BlockHash
<1>3. CASE Remember /\ pc' \notin {"idle", "down"}
  <2>1. harm = "none" /\ (core' = core \/ OnlyExtends)
    BY <1>3 DEF Remember
  <2>2. Facts /\ Position(mem.cursor)
    BY <2>1, FactsHold DEF IndexInv
  <2>3. CASE Tick \/ CheckCursor \/ ReorgTip \/ Walk \/ WalkDone
    BY <2>1, <2>3, PositionSearch
  <2>4. CASE Undo
    BY <1>3, <2>1, <2>4, PositionUndo
  <2>5. CASE UndoDone \/ ReplayDone \/ SyncTip
    BY <2>1, <2>5, PositionOther
  <2>6. CASE ReplayBlock
    <3>1. pc = "replay" /\ loc.h <= Height[core] /\ AtTipOf(mem.cursor, loc.h)
          /\ (Throws \/ PersistBlock(BlockHash(loc.h)))
      BY <2>2, <2>6 DEF ReplayBlock, Position, Facts
    <3>2. GrowTo(BlockHash(loc.h))
      BY <1>3, <2>2, <3>1, PersistGrows DEF Throws
    <3> QED BY <1>3, <2>1, <3>1, <3>2, PositionForward
  <2>7. CASE IndexBlock
    <3>1. pc = "index" /\ loc.h <= Height[core] /\ AtTipOf(mem.cursor, loc.h)
      BY <2>2, <2>7 DEF IndexBlock, Position, Facts
    <3>2. Throws \/ PersistBlock(BlockHash(loc.h))
      BY <2>1, <2>7, NothingToSkip DEF IndexBlock
    <3>3. GrowTo(BlockHash(loc.h))
      BY <1>3, <2>2, <3>1, <3>2, PersistGrows DEF Throws
    <3> QED BY <1>3, <2>1, <3>1, <3>3, PositionForward
  <2>8. CASE CoreMoves
    <3>1. OnlyExtends
      BY <2>1, <2>8 DEF CoreMoves
    <3> QED BY <2>1, <2>8, <3>1, PositionExtends
  <2>9. CASE IndexDone \/ CallFails \/ Crash \/ Restart
    BY <1>3, <2>9 DEF IndexDone, CallFails, Crash, Restart
  <2>10. Step \/ CoreMoves \/ CallFails \/ Crash \/ UNCHANGED vars
    BY DEF Next, Work
  <2> QED BY <1>2, <2>3, <2>4, <2>5, <2>6, <2>7, <2>8, <2>9, <2>10 DEF Step
<1> QED BY <1>1, <1>2, <1>3, StepShape

(* IndexInv is inductive. *)
LEMMA IndexStep == IndexInv /\ TypeInv /\ [Next]_vars => IndexInv'
<1> SUFFICES ASSUME IndexInv, TypeInv, [Next]_vars PROVE IndexInv'
  OBVIOUS
<1>1. TypeOK'
  BY TypeStep DEF TypeInv
<1>2. Lockstep'
  BY LockstepStep DEF IndexInv
<1>3. harm' # "torn" => Clean(db)' /\ Clean(mem)'
  BY TablesStep
<1>4. harm' = "none" => Position(mem.cursor)'
  BY PositionStep
<1> QED BY <1>1, <1>2, <1>3, <1>4 DEF IndexInv

LEMMA IndexInit == Init => IndexInv
<1> SUFFICES ASSUME Init PROVE IndexInv
  OBVIOUS
<1>1. db = EmptyIndex /\ mem = EmptyIndex /\ pc = "idle"
  BY DEF Init
<1>2. Lockstep /\ Clean(db) /\ Clean(mem)
  BY <1>1, EmptyIsClean DEF Lockstep
<1>3. Position(mem.cursor)
  BY <1>1 DEF Position
<1> QED BY <1>2, <1>3, TypeInit DEF IndexInv, TypeInv

(* IndexInv holds of every behaviour. *)
THEOREM IndexHolds == Spec => []IndexInv
<1>1. Spec => []TypeInv
  BY TypeInit, TypeStep, PTL DEF Spec
<1> QED BY <1>1, IndexInit, IndexStep, PTL DEF Spec

(* The index is the clean replay of one chain: reorgs between ticks, new   *)
(* blocks during one, restarts, failed calls and lost acknowledgements     *)
(* leave no block of another branch, no gap and no leftover; what can is   *)
(* named by the history, a write after a reorg overtook the tick or        *)
(* through a memory that missed a commit.                                  *)
THEOREM CleanUntilTorn == Spec => []CleanReplay
<1>1. IndexInv => CleanReplay
  BY DEF IndexInv, CleanReplay, Clean
<1> QED BY <1>1, IndexHolds, PTL

(* An index whose cursor is on the active chain is on it throughout. *)
LEMMA CanonicalWhenHealthy == IndexInv => HealthyIsCanonical
<1> SUFFICES ASSUME IndexInv, Healthy, harm # "torn", NEW h \in DOMAIN db.journal
             PROVE  OnCore(db.journal[h])
  BY DEF HealthyIsCanonical
<1> DEFINE x == db.cursor
<1>1. Clean(db) /\ TypeOK /\ core \in Block /\ x \in Cursor
  BY DEF IndexInv, TypeOK, IsIndex
<1>2. h \in Activation .. Height[x] /\ db.journal[h] = Ancestor[x][h]
  BY <1>1 DEF Clean, Replay
<1>3. x # NoBlock /\ x \in Block /\ h \in 1 .. Height[x] /\ Height[x] \in Nat
      /\ Height[core] \in Nat
  BY <1>1, <1>2, Heights DEF Cursor
<1>4. Height[x] \in 1 .. Height[core] /\ Ancestor[core][Height[x]] = x
  BY <1>3, Heights DEF Healthy, BlockHash
<1>5. Ancestor[x][h] = Ancestor[core][h] /\ Height[Ancestor[x][h]] = h
  BY <1>1, <1>3, <1>4, Ancestry
<1> QED BY <1>2, <1>3, <1>4, <1>5, Heights DEF OnCore, Answers, BlockHash

(* A HEALTHY answer of computeHealth about an index that is not torn can   *)
(* be trusted.                                                             *)
THEOREM HealthCanBeTrusted == Spec => []HealthyIsCanonical
  BY IndexHolds, CanonicalWhenHealthy, PTL

(* A rollback step takes back a block that left the active chain. *)
LEMMA UndoneIsOrphan ==
  ASSUME IndexInv, [Next]_vars, harm' # "torn",
         NEW h \in DOMAIN db.journal \ DOMAIN db.journal'
  PROVE  ~OnCore(db.journal[h])
<1>0. CASE db' = db
  BY <1>0
<1> SUFFICES ASSUME db' # db PROVE ~OnCore(db.journal[h])
  BY <1>0
<1>1. Remember /\ harm # "torn" /\ harm # "moved" /\ mem = db
  <2>1. Remember
    BY StepShape DEF vars
  <2>2. pc' # "down"
    BY StepShape
  <2> QED BY <2>1, <2>2 DEF Remember
<1>2. harm = "none" /\ Facts
  BY <1>1, FactsHold DEF IndexInv, TypeOK
<1> DEFINE x == mem.cursor
<1>3. CASE GrowTo(BlockHash(loc.h))
  <2>1. PICK b : db' = ApplyBlock(db, b)
    BY <1>3 DEF GrowTo
  <2>2. DOMAIN db.journal \subseteq DOMAIN db'.journal
    BY <2>1 DEF ApplyBlock, Put
  <2> QED BY <2>2
<1>4. CASE pc = "undo" /\ Searching(x) /\ ShrinkOne
  <2>1. x \in Block /\ loc.h = Height[x] /\ loc.h > loc.anc
        /\ db'.journal = Del(db.journal, {loc.h})
    BY <1>4 DEF ShrinkOne
  <2>2. h = loc.h
    BY <2>1 DEF Del
  <2>3. Height[x] >= Activation /\ Height[x] \in Activation .. Height[x]
        /\ Height[x] \in 1 .. Height[x]
    BY <1>2, <2>1, Heights DEF Facts
  <2>4. db.journal[h] = Ancestor[x][h] /\ Ancestor[x][h] = x
    BY <1>1, <1>2, <2>1, <2>2, <2>3, Ancestry DEF Facts
  <2>5. ~Shared(x, h)
    BY <1>2, <1>4, <2>1, <2>2 DEF Searching, Facts
  <2> QED BY <2>1, <2>2, <2>4, <2>5 DEF OnCore, Answers, Shared
<1> QED BY <1>2, <1>3, <1>4, CalmWrites

(* The rollback never touches a block of the active chain, unless the      *)
(* chain was reorganised again under it.                                   *)
THEOREM OrphansOnly == Spec => OnlyOrphansUndone
<1>1. IndexInv /\ [Next]_vars =>
        [harm' # "torn" => \A h \in DOMAIN db.journal \ DOMAIN db.journal' :
                             ~OnCore(db.journal[h])]_vars
  BY UndoneIsOrphan
<1> QED BY <1>1, IndexHolds, PTL DEF Spec, OnlyOrphansUndone

(* Refinement: seen through its cursor and its history, the worker is a    *)
(* ChainView.                                                              *)
THEOREM Implements == Spec => FollowsChain
<1>1. Init => CV!Init
  BY DEF Init, CV!Init, EmptyIndex
<1>2. IndexInv /\ TypeOK' /\ [Next]_vars => [CV!Next]_<<db.cursor, harm = "torn">>
  <2> SUFFICES ASSUME IndexInv, TypeOK', [Next]_vars
               PROVE  [CV!Next]_<<db.cursor, harm = "torn">>
    OBVIOUS
  <2>1. CASE harm' = "torn"
    <3>1. db'.cursor \in Cursor
      BY DEF TypeOK, IsIndex
    <3>2. CV!Tear
      BY <2>1, <3>1 DEF CV!Tear, CV!Cursor, Cursor
    <3> QED BY <3>2 DEF CV!Next
  <2>2. CASE UNCHANGED vars
    BY <2>2 DEF vars
  <2>3. CASE harm' # "torn" /\ Remember
    <3>1. harm # "torn"
      BY <2>3 DEF Remember
    <3>2. CASE db' = db
      BY <2>3, <3>1, <3>2
    <3>3. CASE db' # db
      <4>1. harm # "moved" /\ mem = db
        BY <2>3, <3>3, StepShape DEF Remember
      <4>2. harm = "none"
        BY <3>1, <4>1 DEF IndexInv, TypeOK
      <4>3. CASE GrowTo(BlockHash(loc.h))
        <5>1. CV!Grow
          BY <2>3, <3>1, <4>1, <4>3 DEF GrowTo, ApplyBlock, CV!Grow, CV!Parent, Parent
        <5> QED BY <5>1 DEF CV!Next
      <4>4. CASE ShrinkOne
        <5>1. CV!Shrink
          BY <2>3, <3>1, <4>1, <4>4, Heights DEF ShrinkOne, CV!Shrink, CV!Parent, Parent
        <5> QED BY <5>1 DEF CV!Next
      <4> QED BY <3>3, <4>2, <4>3, <4>4, CalmWrites
    <3> QED BY <3>2, <3>3
  <2> QED BY <2>1, <2>2, <2>3, StepShape
<1>3. Spec => []IndexInv
  BY IndexHolds
<1>4. Spec => []TypeOK
  BY TypeCorrect
<1> QED BY <1>1, <1>2, <1>3, <1>4, PTL DEF Spec, FollowsChain, CV!Spec
-----------------------------------------------------------------------------
(* Where two journals differ, and how a write to both or to one of them    *)
(* changes that.                                                           *)
Apart(m, d) ==
  {h \in DOMAIN m \cup DOMAIN d : h \notin DOMAIN m \cap DOMAIN d \/ m[h] # d[h]}

LEMMA DriftIsApart == Drift = Apart(mem.journal, db.journal)
  BY DEF Drift, Apart

LEMMA ApartPut ==
  ASSUME NEW m, NEW d, NEW g, NEW h, DOMAIN g = {h}
  PROVE  /\ Apart(Put(m, g), Put(d, g)) \subseteq Apart(m, d)
         /\ Apart(m, Put(d, g)) \subseteq Apart(m, d) \cup {h}
<1> SUFFICES ASSUME NEW b, b = g[h]
             PROVE  /\ Apart(Put(m, g), Put(d, g)) \subseteq Apart(m, d)
                    /\ Apart(m, Put(d, g)) \subseteq Apart(m, d) \cup {h}
  OBVIOUS
<1>1. DOMAIN g = {h} /\ g[h] = b
  OBVIOUS
<1>2. ASSUME NEW f
      PROVE  /\ DOMAIN Put(f, g) = DOMAIN f \cup {h} /\ Put(f, g)[h] = b
             /\ \A k \in DOMAIN f : k # h => Put(f, g)[k] = f[k]
  BY <1>1 DEF Put
<1>3. Apart(Put(m, g), Put(d, g)) \subseteq Apart(m, d)
  <2> SUFFICES ASSUME NEW p, p = Put(m, g), NEW q, q = Put(d, g), NEW k \in Apart(p, q)
               PROVE  k \in Apart(m, d)
    OBVIOUS
  <2>1. /\ DOMAIN p = DOMAIN m \cup {h} /\ p[h] = b
        /\ DOMAIN q = DOMAIN d \cup {h} /\ q[h] = b
        /\ \A x \in DOMAIN m : x # h => p[x] = m[x]
        /\ \A x \in DOMAIN d : x # h => q[x] = d[x]
    BY <1>2
  <2>2. k # h
    BY <2>1 DEF Apart
  <2> QED BY <2>1, <2>2 DEF Apart
<1>4. Apart(m, Put(d, g)) \subseteq Apart(m, d) \cup {h}
  BY <1>2 DEF Apart
<1> QED BY <1>3, <1>4

LEMMA ApartDel ==
  ASSUME NEW m, NEW d, NEW h
  PROVE  /\ Apart(Del(m, {h}), Del(d, {h})) \subseteq Apart(m, d)
         /\ Apart(m, Del(d, {h})) \subseteq Apart(m, d) \cup {h}
<1>1. ASSUME NEW f
      PROVE  /\ DOMAIN Del(f, {h}) = DOMAIN f \ {h}
             /\ \A k \in DOMAIN f \ {h} : Del(f, {h})[k] = f[k]
  BY DEF Del
<1>2. Apart(Del(m, {h}), Del(d, {h})) \subseteq Apart(m, d)
  BY <1>1 DEF Apart
<1>3. Apart(m, Del(d, {h})) \subseteq Apart(m, d) \cup {h}
  BY <1>1 DEF Apart
<1> QED BY <1>2, <1>3

(* The inductive form: the set whose size is bounded is finite. *)
DriftInv ==
  /\ lost \in Nat
  /\ pc # "down" => IsFiniteSet(Drift) /\ Cardinality(Drift) <= lost

LEMMA DriftZero ==
  ASSUME lost' \in Nat, mem' = db' \/ pc' = "down" PROVE DriftInv'
<1>1. mem' = db' => Drift' = {}
  BY DEF Drift
<1> QED BY <1>1, FS_EmptySet DEF DriftInv

(* A step that adds no height, or one height for one lost acknowledgement. *)
LEMMA DriftShrinks ==
  ASSUME DriftInv, pc # "down", lost' = lost, Drift' \subseteq Drift
  PROVE  DriftInv'
<1>1. IsFiniteSet(Drift) /\ Cardinality(Drift) <= lost /\ lost \in Nat
  BY DEF DriftInv
<1>2. IsFiniteSet(Drift') /\ Cardinality(Drift') <= Cardinality(Drift)
  BY <1>1, FS_Subset
<1>3. Cardinality(Drift') \in Nat /\ Cardinality(Drift) \in Nat
  BY <1>1, <1>2, FS_CardinalityType
<1> QED BY <1>1, <1>2, <1>3 DEF DriftInv

LEMMA DriftGrows ==
  ASSUME DriftInv, pc # "down", lost' = lost + 1, NEW h,
         Drift' \subseteq Drift \cup {h}
  PROVE  DriftInv'
<1>1. IsFiniteSet(Drift) /\ Cardinality(Drift) <= lost /\ lost \in Nat
  BY DEF DriftInv
<1>2. /\ IsFiniteSet(Drift \cup {h})
      /\ Cardinality(Drift \cup {h}) = IF h \in Drift THEN Cardinality(Drift)
                                                    ELSE Cardinality(Drift) + 1
  BY <1>1, FS_AddElement
<1>3. IsFiniteSet(Drift') /\ Cardinality(Drift') <= Cardinality(Drift \cup {h})
  BY <1>2, FS_Subset
<1>4. Cardinality(Drift') \in Nat /\ Cardinality(Drift) \in Nat
  BY <1>1, <1>3, FS_CardinalityType
<1> QED BY <1>1, <1>2, <1>3, <1>4 DEF DriftInv

(* The write of a tick: both sides at one height, or the tables only. *)
LEMMA DriftWrite ==
  ASSUME DriftInv, Remember, pc \notin {"down", "idle"}, NEW h,
         \/ Drift' \subseteq Drift /\ pc' = pc
         \/ Drift' \subseteq Drift \cup {h} /\ pc' = "idle" /\ mem' = mem
  PROVE  DriftInv'
<1>1. CASE mem' = db'
  <2>1. lost' = 0
    BY <1>1 DEF Remember
  <2> QED BY <1>1, <2>1, DriftZero
<1>2. CASE mem' # db' /\ pc' = pc
  <2>1. lost' = lost /\ Drift' \subseteq Drift
    BY <1>2 DEF Remember
  <2> QED BY <2>1, DriftShrinks
<1>3. CASE mem' # db' /\ db' # db /\ pc' = "idle"
  <2>1. lost' = lost + 1 /\ Drift' \subseteq Drift \cup {h}
    BY <1>3 DEF Remember
  <2> QED BY <2>1, DriftGrows
<1>4. CASE mem' # db' /\ db' = db /\ pc' = "idle"
  <2>1. lost' = lost /\ mem' = mem
    BY <1>4 DEF Remember
  <2>2. Drift' = Drift
    BY <1>4, <2>1 DEF Drift
  <2> QED BY <2>1, <2>2, DriftShrinks
<1> QED BY <1>1, <1>2, <1>3, <1>4

LEMMA DriftSame ==
  ASSUME DriftInv, Remember, pc # "down", UNCHANGED <<mem, db>>
  PROVE  DriftInv'
<1>1. CASE mem' = db' \/ pc' = "down"
  <2>1. lost' = 0
    BY <1>1 DEF Remember
  <2> QED BY <1>1, <2>1, DriftZero
<1>2. CASE mem' # db' /\ pc' # "down"
  <2>1. lost' = lost /\ Drift' = Drift
    BY <1>2 DEF Remember, Drift
  <2> QED BY <2>1, DriftShrinks
<1> QED BY <1>1, <1>2

LEMMA DriftPersist ==
  ASSUME DriftInv, Remember, pc \notin {"down", "idle"}, NEW b, PersistBlock(b)
  PROVE  DriftInv'
<1> SUFFICES ASSUME NEW g, g = [k \in {Height[b]} |-> b] PROVE DriftInv'
  OBVIOUS
<1>1. ApplyBlock(db, b).journal = Put(db.journal, g)
      /\ ApplyBlock(mem, b).journal = Put(mem.journal, g)
  BY DEF ApplyBlock
<1>2. CASE Commit(ApplyBlock(db, b), ApplyBlock(mem, b))
  <2>1. Drift' = Apart(Put(mem.journal, g), Put(db.journal, g)) /\ pc' = pc
    BY <1>1, <1>2 DEF Commit, Drift, Apart
  <2>2. DOMAIN g = {Height[b]}
    OBVIOUS
  <2>3. Drift' \subseteq Drift
    BY <2>1, <2>2, ApartPut, DriftIsApart
  <2> QED BY <2>1, <2>3, DriftWrite
<1>3. CASE CommitUnacknowledged(ApplyBlock(db, b))
  <2>1. Drift' = Apart(mem.journal, Put(db.journal, g)) /\ pc' = "idle" /\ mem' = mem
    BY <1>1, <1>3 DEF CommitUnacknowledged, Drift, Apart
  <2>2. DOMAIN g = {Height[b]}
    OBVIOUS
  <2>3. Drift' \subseteq Drift \cup {Height[b]}
    BY <2>1, <2>2, ApartPut, DriftIsApart
  <2> QED BY <2>1, <2>3, DriftWrite
<1>4. CASE Throws
  BY <1>4, DriftSame DEF Throws
<1> QED BY <1>2, <1>3, <1>4 DEF PersistBlock

LEMMA DriftUndo ==
  ASSUME DriftInv, Remember, Undo
  PROVE  DriftInv'
<1>0. pc \notin {"down", "idle"}
  BY DEF Undo
<1> DEFINE staged == UndoBlock(mem, loc.h)
           rolled == [cursor |-> staged.cursor,
                      journal |-> Del(db.journal, {loc.h})]
<1>1. Throws \/ Commit(rolled, staged) \/ CommitUnacknowledged(rolled)
  BY DEF Undo
<1>2. staged.journal = Del(mem.journal, {loc.h})
      /\ rolled.journal = Del(db.journal, {loc.h})
  BY DEF UndoBlock
<1> HIDE DEF staged, rolled
<1>3. CASE Commit(rolled, staged)
  <2>1. /\ Drift' = Apart(Del(mem.journal, {loc.h}), Del(db.journal, {loc.h}))
        /\ pc' = pc
    BY <1>2, <1>3 DEF Commit, Drift, Apart
  <2>2. Drift' \subseteq Drift
    BY <2>1, ApartDel, DriftIsApart
  <2> QED BY <1>0, <2>1, <2>2, DriftWrite
<1>4. CASE CommitUnacknowledged(rolled)
  <2>1. /\ Drift' = Apart(mem.journal, Del(db.journal, {loc.h}))
        /\ pc' = "idle" /\ mem' = mem
    BY <1>2, <1>4 DEF CommitUnacknowledged, Drift, Apart
  <2>2. Drift' \subseteq Drift \cup {loc.h}
    BY <2>1, ApartDel, DriftIsApart
  <2> QED BY <1>0, <2>1, <2>2, DriftWrite
<1>5. CASE Throws
  BY <1>0, <1>5, DriftSame DEF Throws
<1> QED BY <1>1, <1>3, <1>4, <1>5

LEMMA DriftStep == DriftInv /\ [Next]_vars => DriftInv'
<1> SUFFICES ASSUME DriftInv, [Next]_vars PROVE DriftInv'
  OBVIOUS
<1>0. CASE UNCHANGED vars
  BY <1>0 DEF DriftInv, Drift, vars
<1> SUFFICES ASSUME Remember PROVE DriftInv'
  BY <1>0, StepShape
<1>1. CASE \/ Tick \/ CheckCursor \/ ReorgTip \/ Walk \/ WalkDone \/ UndoDone
           \/ ReplayDone \/ SyncTip \/ IndexDone \/ CallFails
  <2>1. pc # "down" /\ UNCHANGED <<mem, db>>
    BY <1>1 DEF Tick, CheckCursor, ReorgTip, Walk, WalkDone, UndoDone, ReplayDone,
                SyncTip, IndexDone, CallFails, Throws
  <2> QED BY <2>1, DriftSame
<1>2. CASE Undo
  BY <1>2, DriftUndo
<1>3. CASE ReplayBlock
  BY <1>3, DriftPersist, DriftSame DEF ReplayBlock, Throws
<1>4. CASE IndexBlock
  BY <1>4, DriftPersist, DriftSame DEF IndexBlock, Throws
<1>5. CASE Restart \/ Crash
  <2>1. (mem' = db' \/ pc' = "down") /\ lost' = 0
    BY <1>5 DEF Restart, Crash, Remember
  <2> QED BY <2>1, DriftZero
<1>6. CASE CoreMoves
  <2>1. UNCHANGED <<mem, db, pc>>
    BY <1>6 DEF CoreMoves
  <2>2. CASE pc = "down"
    <3>1. lost' = 0 /\ pc' = "down"
      BY <2>1, <2>2 DEF Remember
    <3> QED BY <3>1, DriftZero
  <2> QED BY <2>1, <2>2, DriftSame
<1> QED BY <1>0, <1>1, <1>2, <1>3, <1>4, <1>5, <1>6 DEF Next, Work, Step

(* Memory and tables differ at no more heights than acknowledgements were  *)
(* lost since they were equal, however the chain moves.                    *)
THEOREM DriftIsBounded == Spec => []DriftBounded
<1>1. Init => DriftInv
  <2> SUFFICES ASSUME Init PROVE DriftInv
    OBVIOUS
  <2>1. Drift = {} /\ lost = 0
    BY DEF Init, Drift, EmptyIndex, Nothing
  <2> QED BY <2>1, FS_EmptySet DEF DriftInv
<1>2. DriftInv => DriftBounded
  BY DEF DriftInv, DriftBounded
<1> QED BY <1>1, <1>2, DriftStep, PTL DEF Spec
=============================================================================
