------------------------------ MODULE CoveRules ------------------------------
(***************************************************************************)
(* The transition rules of the V3 indexer, one transaction at a time, and  *)
(* the way each transition is written to Postgres and taken back.          *)
(*                                                                         *)
(*   packages/cove-indexer/src/v3/state.ts   V3IndexerState                *)
(*   packages/cove-indexer/src/v3/store.ts   V3Store                       *)
(*   packages/cove-covenant/src/transitionV2.ts                            *)
(*                                                                         *)
(* Scripts are abstracted to what they commit to.  Output 1 of a           *)
(* transaction is the vault output: a V3 vault script commits to the whole *)
(* Cove state, and in a valid state the reserve and the curve stage follow *)
(* from the supply, so a vault is a (token, supply) pair and a value.      *)
(* Amounts are atoms; Lot is the number of atoms of one lot.               *)
(***************************************************************************)
EXTENDS Integers, FiniteSets, Maps

CONSTANTS Token,       \* token ids
          NoToken,     \* what an output that is no vault commits to
          TxId,        \* transaction ids
          NoTx,        \* the null spentByTxid of an unspent row
          Vout,        \* output indices
          MaxSupply,   \* PUBLIC_SUPPLY_ATOMS
          MaxAmount,   \* the largest amount an envelope can carry (u64)
          Lot,         \* LOT_ATOMS
          Anchor,      \* RESERVE_ANCHOR_SATS
          R            \* R[s]: the reserve in sats behind s issued atoms

ASSUME RulesAssumption ==
  /\ NoToken \notin Token
  /\ NoTx \notin TxId
  /\ Vout \subseteq Nat
  /\ {1, 2, 4} \subseteq Vout
  /\ MaxSupply \in Nat
  /\ MaxAmount \in Nat
  /\ MaxSupply <= MaxAmount
  /\ Lot \in Nat \ {0}
  /\ Anchor \in Nat
  /\ R \in [0 .. MaxSupply -> Nat]
  /\ R[0] = 0

Outpoint == TxId \X Vout
Amount == 1 .. MaxAmount

(* V3Backing: the state of a token's vault and the output that holds it.   *)
Backing == [supply : 0 .. MaxSupply, sats : Nat, out : Outpoint, value : Nat]

(* V3TokenUtxo, keyed by its outpoint. *)
Utxo == [token : Token, amount : Amount]

(* A row of cove_v3_token_utxos, keyed by its outpoint. *)
Row == [token : Token, amount : Amount, spentBy : TxId \cup {NoTx},
        burned : BOOLEAN]

(* The atoms the entries S of a map hold together: reduce((s, u) => s +    *)
(* u.amountAtoms, 0n) and sum(amount_atoms), counted atom by atom.         *)
Units(f, S) == {p \in S \X (1 .. MaxAmount) : p[2] <= f[p[1]].amount}
Atoms(f, S) == Cardinality(Units(f, S))

-----------------------------------------------------------------------------
(* Transactions.  ins are the inputs that spend outputs of transactions    *)
(* of the model, in0 is the first input.  allocs are the allocations of a  *)
(* TRANSFER or the change allocations of a REDEEM: a map, as the wire      *)
(* format refuses a repeated vout (and a zero amount, and unknown opcodes, *)
(* which make the transaction INVALID).  carriers are the outputs that are *)
(* standard carriers of exactly TOKEN_CARRIER_SATS; pays says that every   *)
(* fee, creator and payout output has the value and script it must have.   *)
Kinds == {"NON_COVE", "INVALID", "DEPLOY", "MINT", "TRANSFER", "REDEEM"}

IsTx(tx) ==
  /\ tx.id \in TxId
  /\ tx.kind \in Kinds
  /\ tx.in0 \in Outpoint \cup {<<NoTx, 0>>}
  /\ tx.ins \subseteq Outpoint
  /\ tx.token \in Token
  /\ tx.amount \in Amount
  /\ tx.to \in Vout
  /\ IsMap(tx.allocs, Vout, Amount)
  /\ tx.vault \in [token : Token \cup {NoToken}, supply : Nat, value : Nat]
  /\ tx.carriers \subseteq Vout
  /\ tx.pays \in BOOLEAN

-----------------------------------------------------------------------------
(* The covenant: validateStateV2, applyMintV2, applyRedeemV2. *)

ValidateState(b) ==
  /\ b.supply \in 0 .. MaxSupply
  /\ b.supply % Lot = 0
  /\ b.sats = R[b.supply]

MintAllowed(b, n) ==
  /\ ValidateState(b)
  /\ n % Lot = 0
  /\ b.supply + n <= MaxSupply
  /\ R[b.supply + n] - R[b.supply] >= 1

RedeemAllowed(b, n) ==
  /\ ValidateState(b)
  /\ n % Lot = 0
  /\ n <= b.supply
  /\ R[b.supply] - R[b.supply - n] >= 1

(* The successor backing of either transition: the reserve is recomputed,  *)
(* never taken from the transaction.                                       *)
Successor(supply, txid) ==
  [supply |-> supply, sats |-> R[supply], out |-> <<txid, 1>>,
   value |-> Anchor + R[supply]]

(* Mutant: the value of the vault output is not compared. *)
PaysVaultScript(tx, t, supply) ==
  tx.vault.token = t /\ tx.vault.supply = supply

(* Output 1 is the vault of this state, with exactly its value. *)
PaysVault(tx, t, supply) ==
  tx.vault = [token |-> t, supply |-> supply, value |-> Anchor + R[supply]]

-----------------------------------------------------------------------------
(* The four Cove operations against an indexer state                       *)
(*     s = [backing : Token -> Backing, utxos : Outpoint -> Utxo].         *)
(* The tokens map and the backing map of V3IndexerState have the same keys *)
(* (only DEPLOY and its undo add or remove them), so one map stands for    *)
(* both.                                                                   *)

(* The live carriers among the inputs. *)
LiveInputs(s, tx) == {o \in DOMAIN s.utxos : o \in tx.ins}

(* resolveTokenInputs: at least one live carrier, none of another token. *)
TokenInputsResolve(s, tx) ==
  /\ LiveInputs(s, tx) # {}
  /\ \A o \in LiveInputs(s, tx) : s.utxos[o].token = tx.token

(* The token UTXOs the allocations create. *)
Created(tx) ==
  [o \in {<<tx.id, v>> : v \in DOMAIN tx.allocs} |->
     [token |-> tx.token, amount |-> tx.allocs[o[2]]]]

DeployValid(s, tx) ==
  /\ tx.kind = "DEPLOY"
  /\ tx.pays
  /\ tx.token \notin DOMAIN s.backing
  /\ PaysVault(tx, tx.token, 0)

MintValid(s, tx) ==
  /\ tx.kind = "MINT"
  /\ tx.token \in DOMAIN s.backing
  /\ tx.in0 = s.backing[tx.token].out
  /\ MintAllowed(s.backing[tx.token], tx.amount)
  /\ PaysVault(tx, tx.token, s.backing[tx.token].supply + tx.amount)
  /\ tx.to = 2
  /\ 2 \in tx.carriers
  /\ tx.pays

(* Mutant: the amounts of inputs and outputs are not compared. *)
TransferUnbalanced(s, tx) ==
  /\ tx.kind = "TRANSFER"
  /\ tx.token \in DOMAIN s.backing
  /\ TokenInputsResolve(s, tx)
  /\ DOMAIN tx.allocs \subseteq tx.carriers

TransferValid(s, tx) ==
  /\ tx.kind = "TRANSFER"
  /\ tx.token \in DOMAIN s.backing
  /\ TokenInputsResolve(s, tx)
  /\ Atoms(s.utxos, LiveInputs(s, tx)) = Atoms(Created(tx), DOMAIN Created(tx))
  /\ DOMAIN tx.allocs \subseteq tx.carriers

RedeemValid(s, tx) ==
  /\ tx.kind = "REDEEM"
  /\ tx.token \in DOMAIN s.backing
  /\ tx.in0 = s.backing[tx.token].out
  /\ TokenInputsResolve(s, tx)
  /\ Atoms(s.utxos, LiveInputs(s, tx))
       = tx.amount + Atoms(Created(tx), DOMAIN Created(tx))
  /\ RedeemAllowed(s.backing[tx.token], tx.amount)
  /\ PaysVault(tx, tx.token, s.backing[tx.token].supply - tx.amount)
  /\ tx.pays
  /\ DOMAIN tx.allocs \subseteq {4}
  /\ DOMAIN tx.allocs \subseteq tx.carriers

-----------------------------------------------------------------------------
(* The undo entry of a transaction: the operation it validly performed, if *)
(* any, then the carriers it spent outside the protocol (BURN).            *)

NoBacking == [supply |-> 0]

Entry(kind, token, prior, spent, created) ==
  [kind |-> kind, token |-> token, prior |-> prior, spent |-> spent,
   created |-> created]

SpentBy(s, tx) == [o \in LiveInputs(s, tx) |-> s.utxos[o]]

(* applyCove: the UndoOp a transaction produces against s. *)
OpOf(s, tx) ==
  CASE DeployValid(s, tx) ->
         Entry("DEPLOY", tx.token, NoBacking, Nothing, Nothing)
    [] MintValid(s, tx) ->
         Entry("MINT", tx.token, s.backing[tx.token], Nothing,
               [o \in {<<tx.id, 2>>} |->
                  [token |-> tx.token, amount |-> tx.amount]])
    [] TransferValid(s, tx) ->
         Entry("TRANSFER", tx.token, NoBacking, SpentBy(s, tx), Created(tx))
    [] RedeemValid(s, tx) ->
         Entry("REDEEM", tx.token, s.backing[tx.token], SpentBy(s, tx),
               Created(tx))
    [] OTHER -> Entry("NONE", tx.token, NoBacking, Nothing, Nothing)

(* The supply of the operation's token after the operation. *)
NextSupply(s, tx, op) ==
  CASE op.kind = "DEPLOY" -> 0
    [] op.kind = "MINT" -> s.backing[tx.token].supply + tx.amount
    [] op.kind = "REDEEM" -> s.backing[tx.token].supply - tx.amount
    [] OTHER -> 0

MovesBacking(op) == op.kind \in {"DEPLOY", "MINT", "REDEEM"}

(* The state after the operation itself, before the burn. *)
Perform(s, tx, op) ==
  [backing |-> IF MovesBacking(op)
                 THEN Put(s.backing,
                          [t \in {op.token} |->
                             Successor(NextSupply(s, tx, op), tx.id)])
                 ELSE s.backing,
   utxos   |-> Put(Del(s.utxos, DOMAIN op.spent), op.created)]

(* Mutant: inputs outside the protocol stay live. *)
BurnNothing(s, tx) == Nothing

(* burnUnaccountedInputs: what the transaction still spends. *)
BurnOf(s, tx) == SpentBy(s, tx)

Burn(s, burned) == [s EXCEPT !.utxos = Del(@, DOMAIN burned)]

(* One transaction of applyBlock: the next state and its undo entry. *)
ApplyTx(s, tx) ==
  LET op == OpOf(s, tx)
      s1 == Perform(s, tx, op)
      b  == BurnOf(s1, tx)
  IN  [state |-> Burn(s1, b), op |-> op, burned |-> b]

(* undoBlock for one transaction: the burn first, the operation second. *)
UndoTx(s, e) ==
  LET op == e.op
      u  == Put(s.utxos, e.burned)
  IN  [backing |->
         CASE op.kind = "DEPLOY" -> Del(s.backing, {op.token})
           [] op.kind \in {"MINT", "REDEEM"} ->
                Put(s.backing, [t \in {op.token} |-> op.prior])
           [] OTHER -> s.backing,
       utxos |-> Put(Del(u, DOMAIN op.created), op.spent)]

-----------------------------------------------------------------------------
(* Postgres: d = [backing, rows] are cove_v3_backing_states and            *)
(* cove_v3_token_utxos.                                                    *)

FreshRows(utxos) ==
  [o \in DOMAIN utxos |-> [token |-> utxos[o].token,
                           amount |-> utxos[o].amount,
                           spentBy |-> NoTx, burned |-> FALSE]]

(* Mutant: a burned row is flagged but not marked as spent. *)
MarkOnlyBurned(rows, S, txid, burned) ==
  [o \in DOMAIN rows |->
     IF o \in S
       THEN [rows[o] EXCEPT !.spentBy = IF burned THEN @ ELSE txid,
                            !.burned = IF burned THEN TRUE ELSE @]
       ELSE rows[o]]

MarkSpent(rows, S, txid, burned) ==
  [o \in DOMAIN rows |->
     IF o \in S
       THEN [rows[o] EXCEPT !.spentBy = txid,
                            !.burned = IF burned THEN TRUE ELSE @]
       ELSE rows[o]]

(* persistBlock/applyForward: s is the state after the transaction. *)
ApplyForward(d, s, e, txid) ==
  LET op == e.op
      r1 == Put(MarkSpent(d.rows, DOMAIN op.spent, txid, FALSE),
                FreshRows(op.created))
  IN  [backing |-> IF MovesBacking(op)
                     THEN Put(d.backing, [t \in {op.token} |-> s.backing[t]])
                     ELSE d.backing,
       rows    |-> MarkSpent(r1, DOMAIN e.burned, txid, TRUE)]

(* Mutant: undoing a burn leaves the burned column set. *)
RestoreStillBurned(rows, utxos, unburn) ==
  [o \in DOMAIN rows \cup DOMAIN utxos |->
     IF o \notin DOMAIN utxos THEN rows[o]
     ELSE IF o \notin DOMAIN rows THEN FreshRows(utxos)[o]
     ELSE [rows[o] EXCEPT !.spentBy = NoTx]]

(* The upsert that brings spent rows back; only undoing a BURN resets the  *)
(* burned column of a row that is still there.                             *)
Restore(rows, utxos, unburn) ==
  [o \in DOMAIN rows \cup DOMAIN utxos |->
     IF o \notin DOMAIN utxos THEN rows[o]
     ELSE IF o \notin DOMAIN rows THEN FreshRows(utxos)[o]
     ELSE [rows[o] EXCEPT !.spentBy = NoTx,
                          !.burned = IF unburn THEN FALSE ELSE @]]

Rollback(d, e) ==
  LET op == e.op
      r1 == Restore(d.rows, e.burned, TRUE)
  IN  [backing |->
         CASE op.kind = "DEPLOY" -> Del(d.backing, {op.token})
           [] op.kind \in {"MINT", "REDEEM"} ->
                Put(d.backing, [t \in {op.token} |-> op.prior])
           [] OTHER -> d.backing,
       rows |-> Restore(Del(r1, DOMAIN op.created), op.spent, FALSE)]

(* hydrateState: the live UTXOs are the rows no transaction spent. *)
HydrateUtxos(rows) ==
  [o \in {x \in DOMAIN rows : rows[x].spentBy = NoTx} |->
     [token |-> rows[o].token, amount |-> rows[o].amount]]
=============================================================================
