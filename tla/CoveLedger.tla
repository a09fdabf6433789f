------------------------------ MODULE CoveLedger ------------------------------
(***************************************************************************)
(* The V3 index as the Bitcoin chain grows and reorganises.  Every step    *)
(* connects one transaction to the chain or disconnects the last one, and  *)
(* the index follows: in memory (V3IndexerState) with its undo journal,    *)
(* and in Postgres (V3Store).  Block boundaries, the worker that reads the *)
(* blocks, and its failures are the subject of module PersistentIndexer.   *)
(***************************************************************************)
EXTENDS CoveRules

CONSTANTS Txs,     \* the transactions miners may include
          MaxTxs   \* bound on the length of the chain

ASSUME TxsAssumption == \A tx \in Txs : IsTx(tx)
ASSUME MaxTxsAssumption == MaxTxs \in Nat

VARIABLES st,       \* V3IndexerState: [backing, utxos]
          db,       \* Postgres: [backing, rows]
          chain,    \* the transactions of the active chain, as a set
          height,   \* cursor.height
          journal,  \* undoByHeight: the undo entry of each height
          before    \* history: st, db and chain before each height

vars == <<st, db, chain, height, journal, before>>

EmptyState == [backing |-> Nothing, utxos |-> Nothing]
EmptyDb == [backing |-> Nothing, rows |-> Nothing]

Init ==
  /\ st = EmptyState
  /\ db = EmptyDb
  /\ chain = {}
  /\ height = 0
  /\ journal = Nothing
  /\ before = Nothing

(* Bitcoin consensus: a transaction id occurs once, and every input spends *)
(* an output of an earlier transaction that nothing else has spent.        *)
Connectable(c, tx) ==
  /\ \A x \in c : x.id # tx.id /\ x.ins \cap tx.ins = {}
  /\ \A o \in tx.ins : \E x \in c : x.id = o[1]
  /\ tx.in0 \in Outpoint => tx.in0 \in tx.ins

(* applyBlock and persistBlock, for one transaction. *)
Connect(tx) ==
  /\ height < MaxTxs
  /\ Connectable(chain, tx)
  /\ LET a == ApplyTx(st, tx)
         e == [op |-> a.op, burned |-> a.burned]
     IN  /\ st' = a.state
         /\ db' = ApplyForward(db, a.state, e, tx.id)
         /\ journal' = Put(journal, [h \in {height + 1} |-> e])
  /\ chain' = chain \cup {tx}
  /\ height' = height + 1
  /\ before' = Put(before, [h \in {height + 1} |->
                              [st |-> st, db |-> db, chain |-> chain]])

(* Mutant: the undo entry of the height is kept. *)
DisconnectKeepingUndo ==
  /\ height > 0
  /\ st' = UndoTx(st, journal[height])
  /\ db' = Rollback(db, journal[height])
  /\ chain' = before[height].chain
  /\ height' = height - 1
  /\ before' = Del(before, {height})
  /\ UNCHANGED journal

(* undoBlock and rollback, for the last transaction of the chain. *)
Disconnect ==
  /\ height > 0
  /\ st' = UndoTx(st, journal[height])
  /\ db' = Rollback(db, journal[height])
  /\ chain' = before[height].chain
  /\ height' = height - 1
  /\ journal' = Del(journal, {height})
  /\ before' = Del(before, {height})

Next == (\E tx \in Txs : Connect(tx)) \/ Disconnect

Spec == Init /\ [][Next]_vars

-----------------------------------------------------------------------------
(* Type correctness: maps from outpoints and tokens to well-formed rows. *)
StateOK(s) ==
  /\ s = [backing |-> s.backing, utxos |-> s.utxos]
  /\ IsMap(s.backing, Token, Backing)
  /\ IsMap(s.utxos, Outpoint, Utxo)

DbOK(d) ==
  /\ d = [backing |-> d.backing, rows |-> d.rows]
  /\ IsMap(d.backing, Token, Backing)
  /\ IsMap(d.rows, Outpoint, Row)

(* The index and the database always hold well-formed maps: every live     *)
(* token output has a positive amount of a token, every vault a supply     *)
(* within the public cap.                                                  *)
TypeOK ==
  /\ StateOK(st)
  /\ DbOK(db)
  /\ chain \subseteq Txs
  /\ height \in 0 .. MaxTxs
  /\ DOMAIN journal = 1 .. height
  /\ DOMAIN before = 1 .. height

(* The entries checkSupplyInvariant sums: unspent or burned rows of t. *)
Counted(d, t) ==
  {o \in DOMAIN d.rows : /\ d.rows[o].token = t
                         /\ d.rows[o].spentBy = NoTx \/ d.rows[o].burned}

ConservedIn(d) ==
  \A t \in DOMAIN d.backing : Atoms(d.rows, Counted(d, t)) = d.backing[t].supply

(* Supply conservation (invariants.ts, checkSupplyInvariant): for every    *)
(* token the atoms in unspent outputs plus the burned ones are exactly the *)
(* supply its vault commits to, after any sequence of operations, forged   *)
(* or clumsy transactions and reorganisations.                             *)
Conservation == ConservedIn(db)

LockstepOf(s, d) ==
  /\ d.backing = s.backing
  /\ HydrateUtxos(d.rows) = s.utxos

(* Memory and Postgres agree: what hydrateState would read back is the     *)
(* in-memory state, although the store replays undo operations row by row  *)
(* while the state edits its maps.                                         *)
Lockstep == LockstepOf(st, db)

NoGhostIn(s, c) ==
  \A o \in DOMAIN s.utxos :
    /\ \E tx \in c : tx.id = o[1]
    /\ \A tx \in c : o \notin tx.ins

(* No ghost balance (burnUnaccountedInputs): an output the index calls     *)
(* live was created by a transaction of the active chain and is spent by   *)
(* none of them, whatever kind of transaction spends it.                   *)
NoGhostBalance == NoGhostIn(st, chain)

VaultsIn(s, c) ==
  \A t \in DOMAIN s.backing :
    \E tx \in c : /\ s.backing[t].out = <<tx.id, 1>>
                  /\ tx.vault.token = t
                  /\ tx.vault.supply = s.backing[t].supply
                  /\ tx.vault.value = Anchor + R[s.backing[t].supply]

(* Full reserve: the outpoint the index calls a token's backing is output  *)
(* 1 of a transaction on the active chain that locks the anchor plus       *)
(* R(supply) under a vault committed to exactly that token and supply.     *)
FullReserve == VaultsIn(st, chain)

(* Undo is exact: taking back the newest entry of the journal restores     *)
(* memory and database to what they were before its transaction, the       *)
(* columns of spent and burned rows included.                              *)
UndoExact ==
  height > 0 =>
    /\ UndoTx(st, journal[height]) = before[height].st
    /\ Rollback(db, journal[height]) = before[height].db

-----------------------------------------------------------------------------
(* The inductive invariant.  A row belongs to a transaction of the chain   *)
(* and to a deployed token, and only a spent row is burned; an input       *)
(* spends an output of the chain, so a new output is not spent yet.        *)
RowsOwnedIn(d, c) ==
  \A o \in DOMAIN d.rows :
    /\ \E tx \in c : tx.id = o[1]
    /\ d.rows[o].token \in DOMAIN d.backing
    /\ d.rows[o].spentBy = NoTx => ~d.rows[o].burned

InsKnown(c) == \A tx \in c : \A o \in tx.ins : \E x \in c : x.id = o[1]

Good(s, d, c) ==
  /\ StateOK(s)
  /\ DbOK(d)
  /\ c \subseteq Txs
  /\ LockstepOf(s, d)
  /\ ConservedIn(d)
  /\ NoGhostIn(s, c)
  /\ VaultsIn(s, c)
  /\ RowsOwnedIn(d, c)
  /\ InsKnown(c)

(* What the journal entry of height h leads back from. *)
After(h) == IF h = height THEN [st |-> st, db |-> db, chain |-> chain]
            ELSE before[h + 1]

UndoLink(h) ==
  /\ UndoTx(After(h).st, journal[h]) = before[h].st
  /\ Rollback(After(h).db, journal[h]) = before[h].db

(* The journal can be taken back all the way: every state on the way is    *)
(* good, and every entry leads from one to the next.                       *)
IInv ==
  /\ TypeOK
  /\ Good(st, db, chain)
  /\ \A h \in 1 .. height :
       /\ Good(before[h].st, before[h].db, before[h].chain)
       /\ UndoLink(h)
=============================================================================
