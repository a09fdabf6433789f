-------------------------- MODULE CoveLedger_proofs --------------------------
(***************************************************************************)
(* Proofs about CoveLedger: whatever the tokens, amounts, curve and        *)
(* transactions, the index conserves supply, agrees with the database,     *)
(* shows no ghost balance, points at fully reserved vaults and undoes      *)
(* exactly.  And over the same rules, about Pipeline: what the Guardian    *)
(* signs or the app finalizes is what the indexer applies.                 *)
(***************************************************************************)
EXTENDS CoveLedger, TransactionPath, Sequences, MapTheorems, FiniteSetTheorems, TLAPS

(* A finite set of entries holds finitely many atoms. *)
LEMMA UnitsFinite ==
  ASSUME NEW f, NEW S, IsFiniteSet(S)
  PROVE  IsFiniteSet(Units(f, S)) /\ Atoms(f, S) \in Nat
<1>1. IsFiniteSet(1 .. MaxAmount)
  BY FS_Interval, RulesAssumption
<1>2. IsFiniteSet(S \X (1 .. MaxAmount))
  BY <1>1, FS_Product
<1>3. Units(f, S) \subseteq S \X (1 .. MaxAmount)
  BY DEF Units
<1>4. IsFiniteSet(Units(f, S))
  BY <1>2, <1>3, FS_Subset
<1> QED BY <1>4, FS_CardinalityType DEF Atoms

(* Atoms add up over disjoint sets of entries. *)
LEMMA AtomsUnion ==
  ASSUME NEW f, NEW S, NEW T, IsFiniteSet(S), IsFiniteSet(T), S \cap T = {}
  PROVE  Atoms(f, S \cup T) = Atoms(f, S) + Atoms(f, T)
<1>1. Units(f, S \cup T) = Units(f, S) \cup Units(f, T)
  BY DEF Units
<1>2. Units(f, S) \cap Units(f, T) = {}
  BY DEF Units
<1>3. IsFiniteSet(Units(f, S)) /\ IsFiniteSet(Units(f, T))
  BY UnitsFinite
<1>4. Cardinality({}) = 0
  BY FS_EmptySet
<1>5. Cardinality(Units(f, S) \cup Units(f, T)) =
        Cardinality(Units(f, S)) + Cardinality(Units(f, T)) - 0
  BY <1>2, <1>3, <1>4, FS_Union
<1>6. Cardinality(Units(f, S)) \in Nat /\ Cardinality(Units(f, T)) \in Nat
  BY <1>3, FS_CardinalityType
<1>7. Cardinality(Units(f, S) \cup Units(f, T)) =
        Cardinality(Units(f, S)) + Cardinality(Units(f, T))
  BY <1>5, <1>6
<1>8. Cardinality(Units(f, S \cup T)) =
        Cardinality(Units(f, S)) + Cardinality(Units(f, T))
  BY <1>1, <1>7, Zenon
<1> QED BY <1>8, Zenon DEF Atoms

(* Atoms depend only on the amounts of the entries counted. *)
LEMMA AtomsSame ==
  ASSUME NEW f, NEW g, NEW S, \A o \in S : f[o].amount = g[o].amount
  PROVE  Atoms(f, S) = Atoms(g, S)
<1>1. Units(f, S) = Units(g, S)
  BY DEF Units
<1> QED BY <1>1 DEF Atoms

(* No entries hold no atoms. *)
LEMMA AtomsEmpty == ASSUME NEW f PROVE Atoms(f, {}) = 0
<1>1. Units(f, {}) = {}
  BY DEF Units
<1> QED BY <1>1, FS_EmptySet DEF Atoms

(* One entry holds its amount. *)
LEMMA AtomsSingle ==
  ASSUME NEW f, NEW o, f[o].amount \in Amount
  PROVE  Atoms(f, {o}) = f[o].amount
<1> DEFINE n == f[o].amount
<1>1. n \in Nat /\ 1 <= n /\ n <= MaxAmount /\ MaxAmount \in Nat
  BY RulesAssumption DEF Amount
<1> HIDE DEF n
<1>2. Units(f, {o}) = {o} \X (1 .. n)
  BY <1>1 DEF Units, n
<1>3. IsFiniteSet({o}) /\ Cardinality({o}) = 1
  BY FS_Singleton
<1>4. IsFiniteSet(1 .. n) /\ Cardinality(1 .. n) = n
  <2>1. 1 \in Int /\ n \in Int /\ ~(1 > n) /\ n - 1 + 1 = n
    BY <1>1
  <2> QED BY <2>1, FS_Interval
<1>5. Cardinality({o} \X (1 .. n)) = Cardinality({o}) * Cardinality(1 .. n)
  BY <1>3, <1>4, FS_Product
<1>6. Cardinality({o} \X (1 .. n)) = n
  BY <1>1, <1>3, <1>4, <1>5
<1>7. Cardinality(Units(f, {o})) = n
  BY <1>2, <1>6, Zenon
<1> QED BY <1>7, Zenon DEF Atoms, n

-----------------------------------------------------------------------------
(* What applyCove guarantees of the operation of a transaction, whichever  *)
(* of the four it is: it spends live inputs of its token, creates outputs  *)
(* of its own, and moves exactly as many atoms as the vault says.          *)
OpShape(s, tx, op) ==
  /\ op = Entry(op.kind, tx.token, op.prior, op.spent, op.created)
  /\ op.kind \in {"NONE", "DEPLOY", "MINT", "TRANSFER", "REDEEM"}
  /\ DOMAIN op.spent \subseteq LiveInputs(s, tx)
  /\ op.spent = [o \in DOMAIN op.spent |-> s.utxos[o]]
  /\ \A o \in DOMAIN op.spent : s.utxos[o].token = tx.token
  /\ IsMap(op.created, Outpoint, Utxo)
  /\ \A o \in DOMAIN op.created :
       o[1] = tx.id /\ op.created[o].token = tx.token
  /\ op.kind \in {"MINT", "TRANSFER", "REDEEM"} => tx.token \in DOMAIN s.backing
  /\ op.kind = "DEPLOY" => tx.token \notin DOMAIN s.backing
  /\ op.kind \in {"NONE", "DEPLOY"} =>
       DOMAIN op.spent = {} /\ DOMAIN op.created = {}
  /\ op.kind \in {"MINT", "REDEEM"} => op.prior = s.backing[tx.token]
  /\ MovesBacking(op) =>
       /\ NextSupply(s, tx, op) \in 0 .. MaxSupply
       /\ PaysVault(tx, tx.token, NextSupply(s, tx, op))
  /\ op.kind = "DEPLOY" => NextSupply(s, tx, op) = 0
  /\ op.kind \in {"MINT", "REDEEM"} =>
       NextSupply(s, tx, op) + Atoms(op.spent, DOMAIN op.spent)
         = s.backing[tx.token].supply + Atoms(op.created, DOMAIN op.created)
  /\ op.kind = "TRANSFER" =>
       Atoms(op.spent, DOMAIN op.spent) = Atoms(op.created, DOMAIN op.created)

(* The outputs the allocations of a transaction create are well formed. *)
LEMMA CreatedMap ==
  ASSUME NEW tx, IsTx(tx)
  PROVE  /\ IsMap(Created(tx), Outpoint, Utxo)
         /\ \A o \in DOMAIN Created(tx) :
              o[1] = tx.id /\ Created(tx)[o].token = tx.token
<1> DEFINE K == {<<tx.id, v>> : v \in DOMAIN tx.allocs}
<1>1. IsFiniteSet(DOMAIN tx.allocs) /\ DOMAIN tx.allocs \subseteq Vout
  BY DEF IsTx, IsMap
<1>2. IsFiniteSet({tx.id} \X DOMAIN tx.allocs)
  BY <1>1, FS_Singleton, FS_Product
<1>3. K = {tx.id} \X DOMAIN tx.allocs
  OBVIOUS
<1>4. IsFiniteSet(K)
  BY <1>2, <1>3
<1>5. K \subseteq Outpoint
  BY <1>1 DEF IsTx, Outpoint
<1>6. \A o \in K : o[1] = tx.id /\ o[2] \in DOMAIN tx.allocs
  OBVIOUS
<1>7. \A v \in DOMAIN tx.allocs : tx.allocs[v] \in Amount
  BY DEF IsTx, IsMap
<1>8. DOMAIN Created(tx) = K
  BY DEF Created
<1>9. \A o \in K : Created(tx)[o] \in Utxo /\ Created(tx)[o].token = tx.token
  BY <1>6, <1>7 DEF Created, IsTx, Utxo
<1>10. Created(tx) \in [K -> Utxo]
  BY <1>8, <1>9 DEF Created
<1> HIDE DEF K
<1> QED BY <1>4, <1>5, <1>6, <1>8, <1>9, <1>10 DEF IsMap

(* The carriers a transaction spends are entries of the index. *)
LEMMA SpentByFacts ==
  ASSUME NEW s, NEW tx
  PROVE  /\ DOMAIN SpentBy(s, tx) = LiveInputs(s, tx)
         /\ SpentBy(s, tx) = [o \in DOMAIN SpentBy(s, tx) |-> s.utxos[o]]
         /\ Atoms(SpentBy(s, tx), LiveInputs(s, tx))
              = Atoms(s.utxos, LiveInputs(s, tx))
<1>1. DOMAIN SpentBy(s, tx) = LiveInputs(s, tx)
  BY DEF SpentBy
<1>2. \A o \in LiveInputs(s, tx) : SpentBy(s, tx)[o].amount = s.utxos[o].amount
  BY DEF SpentBy
<1>3. SpentBy(s, tx) = [o \in DOMAIN SpentBy(s, tx) |-> s.utxos[o]]
  BY <1>1 DEF SpentBy
<1> QED BY <1>1, <1>2, <1>3, AtomsSame

(* The empty map creates nothing and spends nothing. *)
LEMMA NothingFacts ==
  /\ DOMAIN Nothing = {}
  /\ \A f : [o \in DOMAIN Nothing |-> f[o]] = Nothing
  /\ IsMap(Nothing, Outpoint, Utxo)
  /\ Atoms(Nothing, DOMAIN Nothing) = 0
<1>1. DOMAIN Nothing = {}
  BY DEF Nothing
<1>2. \A f : [o \in DOMAIN Nothing |-> f[o]] = Nothing
  BY DEF Nothing
<1>3. IsMap(Nothing, Outpoint, Utxo)
  BY FS_EmptySet DEF IsMap, Nothing
<1> QED BY <1>1, <1>2, <1>3, AtomsEmpty

(* OpOf yields an operation of that shape. *)
LEMMA OpOfShape ==
  ASSUME NEW s, NEW tx, StateOK(s), IsTx(tx)
  PROVE  OpShape(s, tx, OpOf(s, tx))
<1> SUFFICES ASSUME NEW op, op = OpOf(s, tx)
             PROVE  OpShape(s, tx, op)
  OBVIOUS
<1> DEFINE B == s.backing[tx.token]
<1>0. \A t \in DOMAIN s.backing :
        s.backing[t] \in Backing /\ s.backing[t].supply \in 0 .. MaxSupply
  BY DEF StateOK, IsMap, Backing
<1>k. \A k, p, sp, cr :
        LET e == Entry(k, tx.token, p, sp, cr)
        IN  /\ e.kind = k /\ e.prior = p /\ e.spent = sp /\ e.created = cr
            /\ e.token = tx.token
            /\ e = Entry(e.kind, tx.token, e.prior, e.spent, e.created)
  BY DEF Entry
<1>a. tx.amount \in Nat /\ tx.amount >= 1 /\ tx.amount \in Amount
  BY RulesAssumption DEF IsTx, Amount
<1>1. CASE DeployValid(s, tx)
  <2>1. op = Entry("DEPLOY", tx.token, NoBacking, Nothing, Nothing)
    BY <1>1 DEF OpOf, DeployValid, MintValid, TransferValid, RedeemValid
  <2>2. op.kind = "DEPLOY" /\ op.spent = Nothing /\ op.created = Nothing
    BY <2>1, <1>k
  <2>3. op = Entry(op.kind, tx.token, op.prior, op.spent, op.created)
    BY <2>1, <1>k
  <2>4. NextSupply(s, tx, op) = 0 /\ 0 \in 0 .. MaxSupply
    BY <2>2, RulesAssumption DEF NextSupply
  <2>5. tx.token \notin DOMAIN s.backing /\ PaysVault(tx, tx.token, 0)
    BY <1>1 DEF DeployValid
  <2> QED BY <2>2, <2>3, <2>4, <2>5, NothingFacts DEF OpShape
<1>2. CASE MintValid(s, tx)
  <2> DEFINE cr == [o \in {<<tx.id, 2>>} |->
                      [token |-> tx.token, amount |-> tx.amount]]
  <2>1. op = Entry("MINT", tx.token, B, Nothing, cr)
    BY <1>2 DEF OpOf, DeployValid, MintValid, TransferValid, RedeemValid
  <2>2. op.kind = "MINT" /\ op.prior = B /\ op.spent = Nothing /\ op.created = cr
    BY <2>1, <1>k
  <2>3. op = Entry(op.kind, tx.token, op.prior, op.spent, op.created)
    BY <2>1, <1>k
  <2>4. NextSupply(s, tx, op) = B.supply + tx.amount
    BY <2>2 DEF NextSupply
  <2>5. /\ tx.token \in DOMAIN s.backing
        /\ PaysVault(tx, tx.token, B.supply + tx.amount)
        /\ B.supply + tx.amount <= MaxSupply
    BY <1>2 DEF MintValid, MintAllowed
  <2>6. B.supply \in 0 .. MaxSupply
    BY <2>5, <1>0
  <2>7. DOMAIN cr = {<<tx.id, 2>>} /\ cr[<<tx.id, 2>>].amount = tx.amount
    OBVIOUS
  <2>8. Atoms(cr, {<<tx.id, 2>>}) = tx.amount
    BY <2>7, <1>a, AtomsSingle
  <2>9. IsMap(cr, Outpoint, Utxo)
    <3>1. <<tx.id, 2>> \in Outpoint
      BY RulesAssumption DEF IsTx, Outpoint
    <3>2. IsFiniteSet({<<tx.id, 2>>})
      BY FS_Singleton
    <3> QED BY <3>1, <3>2, <1>a DEF IsMap, Utxo, IsTx
  <2>10. \A o \in DOMAIN cr : o[1] = tx.id /\ cr[o].token = tx.token
    OBVIOUS
  <2>11. B.supply + tx.amount \in 0 .. MaxSupply
    BY <2>5, <2>6, <1>a, RulesAssumption
  <2>12. B.supply + tx.amount + 0 = B.supply + tx.amount
    BY <2>6, <1>a
  <2> HIDE DEF cr, B
  <2>13. NextSupply(s, tx, op) + Atoms(op.spent, DOMAIN op.spent)
           = B.supply + Atoms(op.created, DOMAIN op.created)
    BY <2>2, <2>4, <2>7, <2>8, <2>12, NothingFacts
  <2> QED BY <2>2, <2>3, <2>4, <2>5, <2>9, <2>10, <2>11, <2>13, NothingFacts
          DEF OpShape, B
<1>3. CASE TransferValid(s, tx)
  <2>1. op = Entry("TRANSFER", tx.token, NoBacking, SpentBy(s, tx), Created(tx))
    BY <1>3 DEF OpOf, DeployValid, MintValid, TransferValid, RedeemValid
  <2>2. op.kind = "TRANSFER" /\ op.spent = SpentBy(s, tx)
        /\ op.created = Created(tx)
    BY <2>1, <1>k
  <2>3. op = Entry(op.kind, tx.token, op.prior, op.spent, op.created)
    BY <2>1, <1>k
  <2>4. /\ tx.token \in DOMAIN s.backing
        /\ \A o \in LiveInputs(s, tx) : s.utxos[o].token = tx.token
        /\ Atoms(s.utxos, LiveInputs(s, tx))
             = Atoms(Created(tx), DOMAIN Created(tx))
    BY <1>3 DEF TransferValid, TokenInputsResolve
  <2>5. ~MovesBacking(op)
    BY <2>2 DEF MovesBacking
  <2> QED BY <2>2, <2>3, <2>4, <2>5, SpentByFacts, CreatedMap DEF OpShape
<1>4. CASE RedeemValid(s, tx)
  <2>1. op = Entry("REDEEM", tx.token, B, SpentBy(s, tx), Created(tx))
    BY <1>4 DEF OpOf, DeployValid, MintValid, TransferValid, RedeemValid
  <2>2. op.kind = "REDEEM" /\ op.prior = B /\ op.spent = SpentBy(s, tx)
        /\ op.created = Created(tx)
    BY <2>1, <1>k
  <2>3. op = Entry(op.kind, tx.token, op.prior, op.spent, op.created)
    BY <2>1, <1>k
  <2>4. /\ tx.token \in DOMAIN s.backing
        /\ \A o \in LiveInputs(s, tx) : s.utxos[o].token = tx.token
        /\ Atoms(s.utxos, LiveInputs(s, tx))
             = tx.amount + Atoms(Created(tx), DOMAIN Created(tx))
        /\ PaysVault(tx, tx.token, B.supply - tx.amount)
        /\ tx.amount <= B.supply
    BY <1>4 DEF RedeemValid, TokenInputsResolve, RedeemAllowed
  <2>5. NextSupply(s, tx, op) = B.supply - tx.amount
    BY <2>2 DEF NextSupply
  <2>6. B.supply \in 0 .. MaxSupply
    BY <2>4, <1>0
  <2>7. B.supply - tx.amount \in 0 .. MaxSupply
    BY <2>4, <2>6, <1>a, RulesAssumption
  <2>8. IsFiniteSet(DOMAIN Created(tx))
    BY CreatedMap DEF IsMap
  <2>9. Atoms(Created(tx), DOMAIN Created(tx)) \in Nat
    BY <2>8, UnitsFinite
  <2> HIDE DEF B
  <2>10. NextSupply(s, tx, op) + Atoms(op.spent, DOMAIN op.spent)
           = B.supply + Atoms(op.created, DOMAIN op.created)
    <3>1. Atoms(op.spent, DOMAIN op.spent)
            = tx.amount + Atoms(Created(tx), DOMAIN Created(tx))
      BY <2>2, <2>4, SpentByFacts
    <3> DEFINE c == Atoms(Created(tx), DOMAIN Created(tx))
    <3>2. c \in Nat
      BY <2>9
    <3> HIDE DEF c
    <3>3. B.supply - tx.amount + (tx.amount + c) = B.supply + c
      BY <3>2, <2>6, <1>a, RulesAssumption
    <3> QED BY <3>1, <3>3, <2>2, <2>5 DEF c
  <2> QED BY <2>2, <2>3, <2>4, <2>5, <2>7, <2>10, SpentByFacts, CreatedMap
          DEF OpShape, B
<1>5. CASE /\ ~DeployValid(s, tx) /\ ~MintValid(s, tx)
           /\ ~TransferValid(s, tx) /\ ~RedeemValid(s, tx)
  <2>1. op = Entry("NONE", tx.token, NoBacking, Nothing, Nothing)
    BY <1>5 DEF OpOf
  <2>2. op.kind = "NONE" /\ op.spent = Nothing /\ op.created = Nothing
    BY <2>1, <1>k
  <2>3. op = Entry(op.kind, tx.token, op.prior, op.spent, op.created)
    BY <2>1, <1>k
  <2>4. ~MovesBacking(op)
    BY <2>2 DEF MovesBacking
  <2> QED BY <2>2, <2>3, <2>4, NothingFacts DEF OpShape
<1> QED BY <1>1, <1>2, <1>3, <1>4, <1>5

-----------------------------------------------------------------------------
(* One transaction, taken apart.  S, C and B are the outpoints it spends   *)
(* within the protocol, creates and burns.                                 *)
Step(s, d, c, tx, op, b, s2, d2) ==
  /\ Good(s, d, c)
  /\ tx \in Txs
  /\ Connectable(c, tx)
  /\ op = OpOf(s, tx)
  /\ b = BurnOf(Perform(s, tx, op), tx)
  /\ s2 = Burn(Perform(s, tx, op), b)
  /\ d2 = ApplyForward(d, s2, [op |-> op, burned |-> b], tx.id)

(* A live output of the index is an unspent, unburned row of the table. *)
Agree(s, d) ==
  /\ d.backing = s.backing
  /\ \A o : o \in DOMAIN s.utxos <=>
              o \in DOMAIN d.rows /\ d.rows[o].spentBy = NoTx
  /\ \A o \in DOMAIN s.utxos :
       /\ s.utxos[o] = [token |-> d.rows[o].token, amount |-> d.rows[o].amount]
       /\ d.rows[o].burned = FALSE
  /\ \A o \in DOMAIN d.rows : d.rows[o] \in Row

LEMMA LiveRows ==
  ASSUME NEW s, NEW d, NEW c, Good(s, d, c)
  PROVE  Agree(s, d)
<1> DEFINE L == {x \in DOMAIN d.rows : d.rows[x].spentBy = NoTx}
           H == [o \in L |-> [token |-> d.rows[o].token,
                              amount |-> d.rows[o].amount]]
<1>1. d.backing = s.backing /\ s.utxos = H
  BY Zenon DEF Good, LockstepOf, HydrateUtxos
<1>2. \A o \in DOMAIN d.rows : d.rows[o] \in Row
  BY DEF Good, DbOK, IsMap
<1>3. DOMAIN s.utxos = L
  BY <1>1
<1>4. \A o \in L : s.utxos[o] = [token |-> d.rows[o].token,
                                 amount |-> d.rows[o].amount]
  BY <1>1
<1>5. \A o \in L : d.rows[o].burned = FALSE
  BY <1>2 DEF Good, RowsOwnedIn, Row
<1> QED BY <1>1, <1>2, <1>3, <1>4, <1>5 DEF Agree

(* The three sets of outpoints, and the index after the transaction. *)
StateAfter(s, d, c, tx, op, b, s2) ==
  /\ OpShape(s, tx, op) /\ IsTx(tx)
  /\ \A x \in c : x.id # tx.id
  /\ DOMAIN op.created \cap DOMAIN d.rows = {}
  /\ DOMAIN op.created \cap DOMAIN s.utxos = {}
  /\ DOMAIN op.created \cap tx.ins = {}
  /\ DOMAIN op.spent \subseteq LiveInputs(s, tx)
  /\ DOMAIN b = LiveInputs(s, tx) \ DOMAIN op.spent
  /\ \A o \in DOMAIN op.spent : op.spent[o] = s.utxos[o]
  /\ \A o \in DOMAIN b : b[o] = s.utxos[o]
  /\ b = [o \in DOMAIN b |-> s.utxos[o]]
  /\ DOMAIN s2.utxos = (DOMAIN s.utxos \ LiveInputs(s, tx))
                         \cup DOMAIN op.created
  /\ \A o \in DOMAIN op.created : s2.utxos[o] = op.created[o]
  /\ \A o \in DOMAIN s.utxos \ LiveInputs(s, tx) :
       s2.utxos[o] = s.utxos[o]
  /\ s2.utxos = [o \in DOMAIN s2.utxos |-> s2.utxos[o]]
  /\ s2 = [backing |-> s2.backing, utxos |-> s2.utxos]
  /\ s2.backing = Perform(s, tx, op).backing

LEMMA StepUtxos ==
  ASSUME NEW s, NEW d, NEW c, NEW tx, NEW op, NEW b, NEW s2, NEW d2,
         Step(s, d, c, tx, op, b, s2, d2)
  PROVE  StateAfter(s, d, c, tx, op, b, s2)
<1> DEFINE C == DOMAIN op.created
           S == DOMAIN op.spent
           L == LiveInputs(s, tx)
           s1 == Perform(s, tx, op)
           D == DOMAIN s.utxos
<1>0. IsTx(tx)
  BY TxsAssumption DEF Step
<1>1. OpShape(s, tx, op)
  BY <1>0, OpOfShape DEF Step, Good
<1>2. \A x \in c : x.id # tx.id
  BY DEF Step, Connectable
<1>3. \A o \in C : o[1] = tx.id
  BY <1>1 DEF OpShape
<1>4. C \cap DOMAIN d.rows = {}
  BY <1>2, <1>3 DEF Step, Good, RowsOwnedIn
<1>5. C \cap D = {}
  BY <1>2, <1>3 DEF Step, Good, NoGhostIn
<1>6. C \cap tx.ins = {}
  BY <1>2, <1>3 DEF Step, Connectable
<1>7. S \subseteq L /\ op.spent = [o \in S |-> s.utxos[o]]
  BY <1>1 DEF OpShape
<1>8. \A o : o \in L <=> o \in D /\ o \in tx.ins
  BY DEF LiveInputs
<1>9. s1.utxos = Put(Del(s.utxos, S), op.created)
  BY DEF Perform
<1>10. DOMAIN s1.utxos = (D \ S) \cup C
  BY <1>9 DEF Put, Del
<1>11. \A o \in C : s1.utxos[o] = op.created[o]
  BY <1>9 DEF Put, Del
<1>12. \A o \in D \ S : s1.utxos[o] = s.utxos[o]
  BY <1>9, <1>5 DEF Put, Del
<1>13. b = [o \in LiveInputs(s1, tx) |-> s1.utxos[o]]
  BY DEF Step, BurnOf, SpentBy
<1>14. LiveInputs(s1, tx) = L \ S
  BY <1>6, <1>8, <1>10 DEF LiveInputs
<1>15. DOMAIN b = L \ S
  BY <1>13, <1>14
<1>16. \A o \in DOMAIN b : b[o] = s.utxos[o]
  BY <1>8, <1>12, <1>13, <1>14
<1>17. b = [o \in DOMAIN b |-> s.utxos[o]]
  BY <1>13, <1>16
<1>18. s2 = [s1 EXCEPT !.utxos = Del(@, DOMAIN b)]
  BY DEF Step, Burn
<1>19. s1 = [backing |-> s1.backing, utxos |-> s1.utxos]
  BY DEF Perform
<1> HIDE DEF s1
<1>20. s2.utxos = Del(s1.utxos, DOMAIN b) /\ s2.backing = s1.backing
       /\ s2 = [backing |-> s2.backing, utxos |-> s2.utxos]
  BY <1>18, <1>19
<1>21. DOMAIN s2.utxos = ((D \ S) \cup C) \ (L \ S)
  BY <1>10, <1>15, <1>20 DEF Del
<1>22. DOMAIN s2.utxos = (D \ L) \cup C
  BY <1>21, <1>5, <1>7, <1>8
<1>23. \A o \in DOMAIN s2.utxos : s2.utxos[o] = s1.utxos[o]
  BY <1>20 DEF Del
<1>24. \A o \in C : s2.utxos[o] = op.created[o]
  BY <1>11, <1>22, <1>23
<1>25. \A o \in D \ L : s2.utxos[o] = s.utxos[o]
  BY <1>7, <1>12, <1>22, <1>23
<1>26. s2.utxos = [o \in DOMAIN s2.utxos |-> s2.utxos[o]]
  BY <1>20 DEF Del
<1> HIDE DEF C, S, L, D
<1> QED BY <1>0, <1>1, <1>2, <1>4, <1>5, <1>6, <1>7, <1>15, <1>16, <1>17,
           <1>20, <1>22, <1>24, <1>25, <1>26
    DEF StateAfter, C, S, L, D, s1

(* The table after the transaction, row by row. *)
RowsAfter(s, d, tx, op, b, d2) ==
  /\ DOMAIN d2.rows = DOMAIN d.rows \cup DOMAIN op.created
  /\ d2.rows = [o \in DOMAIN d2.rows |-> d2.rows[o]]
  /\ \A o \in DOMAIN op.created :
       d2.rows[o] = [token |-> op.created[o].token,
                     amount |-> op.created[o].amount,
                     spentBy |-> NoTx, burned |-> FALSE]
  /\ \A o \in DOMAIN op.spent :
       d2.rows[o] = [token |-> d.rows[o].token,
                     amount |-> d.rows[o].amount,
                     spentBy |-> tx.id, burned |-> FALSE]
  /\ \A o \in DOMAIN b :
       d2.rows[o] = [token |-> d.rows[o].token,
                     amount |-> d.rows[o].amount,
                     spentBy |-> tx.id, burned |-> TRUE]
  /\ \A o \in DOMAIN d.rows \ LiveInputs(s, tx) : d2.rows[o] = d.rows[o]
  /\ d2 = [backing |-> d2.backing, rows |-> d2.rows]

LEMMA StepRows ==
  ASSUME NEW s, NEW d, NEW c, NEW tx, NEW op, NEW b, NEW s2, NEW d2,
         Step(s, d, c, tx, op, b, s2, d2)
  PROVE  RowsAfter(s, d, tx, op, b, d2)
<1>0. StateAfter(s, d, c, tx, op, b, s2)
  BY StepUtxos
<1> DEFINE C == DOMAIN op.created
           S == DOMAIN op.spent
           B == DOMAIN b
           L == LiveInputs(s, tx)
           m == MarkSpent(d.rows, S, tx.id, FALSE)
           r1 == Put(m, FreshRows(op.created))
           r2 == MarkSpent(r1, B, tx.id, TRUE)
<1>1. /\ C \cap DOMAIN d.rows = {} /\ S \subseteq L /\ B = L \ S
      /\ L \subseteq DOMAIN s.utxos
  BY <1>0 DEF StateAfter, LiveInputs
<1>2. Agree(s, d)
  BY LiveRows DEF Step
<1>3. DOMAIN s.utxos \subseteq DOMAIN d.rows
  BY <1>2 DEF Agree
<1>4. \A o \in DOMAIN d.rows :
        /\ d.rows[o] \in Row
        /\ d.rows[o] = [token |-> d.rows[o].token, amount |-> d.rows[o].amount,
                        spentBy |-> d.rows[o].spentBy,
                        burned |-> d.rows[o].burned]
  BY <1>2 DEF Agree, Row
<1>5. \A o \in L : d.rows[o].spentBy = NoTx /\ d.rows[o].burned = FALSE
  BY <1>1, <1>2 DEF Agree
<1>6. d2 = [backing |-> d2.backing, rows |-> r2] /\ d2.rows = r2
  BY DEF Step, ApplyForward
<1>7. DOMAIN m = DOMAIN d.rows /\ DOMAIN FreshRows(op.created) = C
  BY DEF MarkSpent, FreshRows
<1>8. DOMAIN r1 = DOMAIN d.rows \cup C
  BY <1>7 DEF Put
<1>9. DOMAIN r2 = DOMAIN d.rows \cup C /\ r2 = [o \in DOMAIN r2 |-> r2[o]]
  BY <1>8 DEF MarkSpent
<1>10. \A o \in S : m[o] = [d.rows[o] EXCEPT !.spentBy = tx.id]
  BY <1>1, <1>3, <1>4 DEF MarkSpent
<1>11. \A o \in DOMAIN d.rows \ S : m[o] = d.rows[o]
  BY DEF MarkSpent
<1>12. \A o \in C : r1[o] = FreshRows(op.created)[o]
  BY <1>7 DEF Put
<1>13. \A o \in DOMAIN d.rows : r1[o] = m[o]
  BY <1>1, <1>7 DEF Put
<1>14. \A o \in DOMAIN r1 \ B : r2[o] = r1[o]
  BY DEF MarkSpent
<1>15. \A o \in B : r2[o] = [r1[o] EXCEPT !.spentBy = tx.id, !.burned = TRUE]
  BY <1>1, <1>3, <1>8 DEF MarkSpent
<1>16. \A o \in C : FreshRows(op.created)[o]
                      = [token |-> op.created[o].token,
                         amount |-> op.created[o].amount,
                         spentBy |-> NoTx, burned |-> FALSE]
  BY DEF FreshRows
<1> HIDE DEF r2, r1, m
<1>17. \A o \in C : r2[o] = [token |-> op.created[o].token,
                             amount |-> op.created[o].amount,
                             spentBy |-> NoTx, burned |-> FALSE]
  BY <1>1, <1>3, <1>8, <1>12, <1>14, <1>16
<1>18. \A o \in S : r2[o] = [token |-> d.rows[o].token,
                             amount |-> d.rows[o].amount,
                             spentBy |-> tx.id, burned |-> FALSE]
  <2> SUFFICES ASSUME NEW o \in S
               PROVE  r2[o] = [token |-> d.rows[o].token,
                               amount |-> d.rows[o].amount,
                               spentBy |-> tx.id, burned |-> FALSE]
    OBVIOUS
  <2>1. o \in DOMAIN d.rows /\ o \in L /\ o \notin B
    BY <1>1, <1>3
  <2>2. r2[o] = [d.rows[o] EXCEPT !.spentBy = tx.id]
    BY <2>1, <1>8, <1>10, <1>13, <1>14
  <2> QED BY <2>1, <2>2, <1>4, <1>5
<1>19. \A o \in B : r2[o] = [token |-> d.rows[o].token,
                             amount |-> d.rows[o].amount,
                             spentBy |-> tx.id, burned |-> TRUE]
  <2> SUFFICES ASSUME NEW o \in B
               PROVE  r2[o] = [token |-> d.rows[o].token,
                               amount |-> d.rows[o].amount,
                               spentBy |-> tx.id, burned |-> TRUE]
    OBVIOUS
  <2>1. o \in DOMAIN d.rows /\ o \notin S
    BY <1>1, <1>3
  <2>2. r1[o] = d.rows[o]
    BY <2>1, <1>11, <1>13
  <2>3. r2[o] = [d.rows[o] EXCEPT !.spentBy = tx.id, !.burned = TRUE]
    BY <2>2, <1>15
  <2> QED BY <2>1, <2>3, <1>4
<1>20. \A o \in DOMAIN d.rows \ L : r2[o] = d.rows[o]
  BY <1>1, <1>8, <1>11, <1>13, <1>14
<1> QED BY <1>6, <1>9, <1>17, <1>18, <1>19, <1>20 DEF RowsAfter

(* Taking the transaction back gives the index it started from. *)
LEMMA StepUndoState ==
  ASSUME NEW s, NEW d, NEW c, NEW tx, NEW op, NEW b, NEW s2, NEW d2,
         Step(s, d, c, tx, op, b, s2, d2)
  PROVE  UndoTx(s2, [op |-> op, burned |-> b]) = s
<1>0. StateAfter(s, d, c, tx, op, b, s2)
  BY StepUtxos
<1> DEFINE e == [op |-> op, burned |-> b]
           u == Put(s2.utxos, b)
           v == Put(Del(u, DOMAIN op.created), op.spent)
           w == CASE op.kind = "DEPLOY" -> Del(s2.backing, {op.token})
                  [] op.kind \in {"MINT", "REDEEM"} ->
                       Put(s2.backing, [t \in {op.token} |-> op.prior])
                  [] OTHER -> s2.backing
<1>1. UndoTx(s2, e) = [backing |-> w, utxos |-> v]
  BY DEF UndoTx
<1>2. StateOK(s)
  BY DEF Step, Good
<1>3. /\ s = [backing |-> s.backing, utxos |-> s.utxos]
      /\ s.utxos = [o \in DOMAIN s.utxos |-> s.utxos[o]]
      /\ s.backing = [t \in DOMAIN s.backing |-> s.backing[t]]
  BY <1>2 DEF StateOK, IsMap
<1>4. v = s.utxos
  <2> DEFINE D == DOMAIN s.utxos
             C == DOMAIN op.created
             S == DOMAIN op.spent
             L == LiveInputs(s, tx)
  <2>1. L \subseteq D /\ S \subseteq L /\ C \cap D = {}
    BY <1>0 DEF StateAfter, LiveInputs
  <2>2. DOMAIN b = L \ S /\ \A o \in DOMAIN b : b[o] = s.utxos[o]
    BY <1>0 DEF StateAfter
  <2>3. DOMAIN s2.utxos = (D \ L) \cup C
        /\ \A o \in D \ L : s2.utxos[o] = s.utxos[o]
    BY <1>0 DEF StateAfter
  <2>4. \A o \in S : op.spent[o] = s.utxos[o]
    BY <1>0 DEF StateAfter
  <2> HIDE DEF D, C, S, L
  <2>5. DOMAIN u = (D \ S) \cup C
    BY <2>1, <2>2, <2>3 DEF Put
  <2>6. \A o \in D \ S : u[o] = s.utxos[o]
    BY <2>1, <2>2, <2>3 DEF Put
  <2>7. DOMAIN v = D /\ v = [o \in DOMAIN v |-> v[o]]
    <3>1. DOMAIN v = (((D \ S) \cup C) \ C) \cup S
      BY <2>5 DEF Put, Del, C, S
    <3>2. v = [o \in DOMAIN v |-> v[o]]
      BY DEF Put
    <3> QED BY <3>1, <3>2, <2>1
  <2>8. \A o \in D : v[o] = s.utxos[o]
    <3>1. \A o \in S : v[o] = op.spent[o]
      BY DEF Put, S
    <3>2. \A o \in D \ S : v[o] = u[o]
      BY <2>1, <2>5 DEF Put, Del, C, S
    <3> QED BY <3>1, <3>2, <2>4, <2>6
  <2> HIDE DEF v
  <2> QED BY <2>7, <2>8, <1>3 DEF D
<1>5. w = s.backing
  <2>1. OpShape(s, tx, op) /\ s2.backing = Perform(s, tx, op).backing
    BY <1>0 DEF StateAfter
  <2>2. op.token = tx.token
    <3>1. op = Entry(op.kind, tx.token, op.prior, op.spent, op.created)
      BY <2>1 DEF OpShape
    <3> QED BY <3>1 DEF Entry
  <2> DEFINE n == [t \in {tx.token} |-> Successor(NextSupply(s, tx, op), tx.id)]
             D == DOMAIN s.backing
  <2>3. CASE op.kind = "DEPLOY"
    <3>1. w = Del(s2.backing, {tx.token})
      BY <2>2, <2>3
    <3>2. s2.backing = Put(s.backing, n)
      BY <2>1, <2>2, <2>3 DEF Perform, MovesBacking
    <3>3. tx.token \notin D
      BY <2>1, <2>3 DEF OpShape
    <3> HIDE DEF w
    <3> QED BY <3>1, <3>2, <3>3, <1>3 DEF Put, Del
  <2>4. CASE op.kind \in {"MINT", "REDEEM"}
    <3>1. w = Put(s2.backing, [t \in {tx.token} |-> op.prior])
      BY <2>2, <2>4
    <3>2. s2.backing = Put(s.backing, n)
      BY <2>1, <2>2, <2>4 DEF Perform, MovesBacking
    <3>3. tx.token \in D /\ op.prior = s.backing[tx.token]
      BY <2>1, <2>4 DEF OpShape
    <3> HIDE DEF w
    <3> QED BY <3>1, <3>2, <3>3, <1>3 DEF Put
  <2>5. CASE op.kind \in {"NONE", "TRANSFER"}
    <3>1. w = s2.backing
      BY <2>5
    <3>2. s2.backing = s.backing
      BY <2>1, <2>5 DEF Perform, MovesBacking
    <3> QED BY <3>1, <3>2
  <2>6. op.kind \in {"NONE", "DEPLOY", "MINT", "TRANSFER", "REDEEM"}
    BY <2>1 DEF OpShape
  <2> QED BY <2>3, <2>4, <2>5, <2>6
<1> HIDE DEF v, w
<1> QED BY <1>1, <1>3, <1>4, <1>5

(* The backing map after the transaction, in memory and in the table. *)
BackingAfter(s, tx, op, s2, d2) ==
  /\ d2.backing = s2.backing
  /\ op.token = tx.token
  /\ MovesBacking(op) =>
       s2.backing = Put(s.backing,
                        [t \in {tx.token} |->
                           Successor(NextSupply(s, tx, op), tx.id)])
  /\ ~MovesBacking(op) => s2.backing = s.backing

LEMMA StepBacking ==
  ASSUME NEW s, NEW d, NEW c, NEW tx, NEW op, NEW b, NEW s2, NEW d2,
         Step(s, d, c, tx, op, b, s2, d2)
  PROVE  BackingAfter(s, tx, op, s2, d2)
<1>1. StateAfter(s, d, c, tx, op, b, s2)
  BY StepUtxos
<1>2. s2.backing = Perform(s, tx, op).backing /\ OpShape(s, tx, op)
  BY <1>1 DEF StateAfter
<1>3. op.token = tx.token
  <2>1. op = Entry(op.kind, tx.token, op.prior, op.spent, op.created)
    BY <1>2 DEF OpShape
  <2> QED BY <2>1 DEF Entry
<1>4. d.backing = s.backing
  BY LiveRows DEF Step, Agree
<1> DEFINE n == [t \in {tx.token} |-> Successor(NextSupply(s, tx, op), tx.id)]
<1>5. CASE MovesBacking(op)
  <2>1. s2.backing = Put(s.backing, n)
    BY <1>2, <1>3, <1>5 DEF Perform
  <2>2. s2.backing[tx.token] = n[tx.token]
    BY <2>1 DEF Put
  <2>3. [t \in {tx.token} |-> s2.backing[t]] = n
    BY <2>2
  <2>4. d2.backing = Put(d.backing, [t \in {tx.token} |-> s2.backing[t]])
    BY <1>3, <1>5 DEF Step, ApplyForward
  <2> HIDE DEF n
  <2>5. d2.backing = s2.backing
    BY <2>1, <2>3, <2>4, <1>4
  <2> QED BY <2>1, <2>5, <1>3, <1>5 DEF n, BackingAfter
<1>6. CASE ~MovesBacking(op)
  <2>1. s2.backing = s.backing
    BY <1>2, <1>6 DEF Perform
  <2>2. d2.backing = d.backing
    BY <1>6 DEF Step, ApplyForward
  <2> QED BY <2>1, <2>2, <1>3, <1>4, <1>6 DEF BackingAfter
<1> QED BY <1>5, <1>6

(* Taking the transaction back gives the database it started from. *)
LEMMA StepUndoDb ==
  ASSUME NEW s, NEW d, NEW c, NEW tx, NEW op, NEW b, NEW s2, NEW d2,
         Step(s, d, c, tx, op, b, s2, d2)
  PROVE  Rollback(d2, [op |-> op, burned |-> b]) = d
<1>0. /\ StateAfter(s, d, c, tx, op, b, s2)
      /\ RowsAfter(s, d, tx, op, b, d2)
      /\ BackingAfter(s, tx, op, s2, d2)
      /\ Agree(s, d)
  <2>1. StateAfter(s, d, c, tx, op, b, s2)
    BY StepUtxos
  <2>2. RowsAfter(s, d, tx, op, b, d2)
    BY StepRows
  <2>3. BackingAfter(s, tx, op, s2, d2)
    BY StepBacking
  <2>4. Agree(s, d)
    BY LiveRows DEF Step
  <2> QED BY <2>1, <2>2, <2>3, <2>4
<1> DEFINE e == [op |-> op, burned |-> b]
           r1 == Restore(d2.rows, b, TRUE)
           r2 == Restore(Del(r1, DOMAIN op.created), op.spent, FALSE)
           w == CASE op.kind = "DEPLOY" -> Del(d2.backing, {op.token})
                  [] op.kind \in {"MINT", "REDEEM"} ->
                       Put(d2.backing, [t \in {op.token} |-> op.prior])
                  [] OTHER -> d2.backing
<1>1. Rollback(d2, e) = [backing |-> w, rows |-> r2]
  BY DEF Rollback
<1>2. Good(s, d, c)
  BY DEF Step
<1>3. /\ d = [backing |-> d.backing, rows |-> d.rows]
      /\ d.rows = [o \in DOMAIN d.rows |-> d.rows[o]]
      /\ \A o \in DOMAIN d.rows : d.rows[o] \in Row
  BY <1>2 DEF Good, DbOK, IsMap
<1>4. w = d.backing
  <2>1. UndoTx(s2, e) = s
    BY StepUndoState
  <2>2. d2.backing = s2.backing /\ d.backing = s.backing
    BY <1>0 DEF BackingAfter, Agree
  <2>3. UndoTx(s2, e).backing = w
    BY <2>2 DEF UndoTx
  <2> QED BY <2>1, <2>2, <2>3
<1>5. r2 = d.rows
  <2> DEFINE D == DOMAIN d.rows
             C == DOMAIN op.created
             S == DOMAIN op.spent
             L == LiveInputs(s, tx)
             B == DOMAIN b
  <2>1. S \subseteq L /\ C \cap D = {} /\ B = L \ S
    BY <1>0 DEF StateAfter
  <2>2. L \subseteq D /\ \A o \in L : d.rows[o].spentBy = NoTx
                                      /\ d.rows[o].burned = FALSE
    BY <1>0 DEF Agree, LiveInputs
  <2>3. DOMAIN d2.rows = D \cup C
    BY <1>0 DEF RowsAfter
  <2>4. \A o \in S : d2.rows[o] = [token |-> d.rows[o].token,
                                   amount |-> d.rows[o].amount,
                                   spentBy |-> tx.id, burned |-> FALSE]
    BY <1>0 DEF RowsAfter
  <2>5. \A o \in B : d2.rows[o] = [token |-> d.rows[o].token,
                                   amount |-> d.rows[o].amount,
                                   spentBy |-> tx.id, burned |-> TRUE]
    BY <1>0 DEF RowsAfter
  <2>6. \A o \in D \ L : d2.rows[o] = d.rows[o]
    BY <1>0 DEF RowsAfter
  <2>7. \A o \in L : d.rows[o] = [token |-> d.rows[o].token,
                                  amount |-> d.rows[o].amount,
                                  spentBy |-> NoTx, burned |-> FALSE]
    BY <1>3, <2>2 DEF Row
  <2>8. DOMAIN r1 = D \cup C
    BY <2>1, <2>2, <2>3 DEF Restore
  <2>9. \A o \in B : r1[o] = [d2.rows[o] EXCEPT !.spentBy = NoTx,
                                                !.burned = FALSE]
    BY <2>1, <2>2, <2>3 DEF Restore
  <2>10. \A o \in D \ B : r1[o] = d2.rows[o]
    BY <2>3 DEF Restore
  <2> DEFINE r == Del(r1, C)
  <2> HIDE DEF r1
  <2>11. DOMAIN r = D /\ \A o \in D : r[o] = r1[o]
    BY <2>1, <2>8 DEF Del
  <2> HIDE DEF r
  <2>12. DOMAIN r2 = D /\ r2 = [o \in DOMAIN r2 |-> r2[o]]
    BY <2>1, <2>2, <2>11 DEF Restore, r
  <2>13. \A o \in S : r2[o] = [r[o] EXCEPT !.spentBy = NoTx, !.burned = @]
    BY <2>1, <2>2, <2>11 DEF Restore, r
  <2>14. \A o \in D \ S : r2[o] = r[o]
    BY <2>11 DEF Restore, r
  <2> HIDE DEF r2
  <2>15. \A o \in D : r2[o] = d.rows[o]
    <3>1. \A o \in S : r2[o] = d.rows[o]
      <4> SUFFICES ASSUME NEW o \in S PROVE r2[o] = d.rows[o]
        OBVIOUS
      <4>1. o \in L /\ o \in D /\ o \notin B
        BY <2>1, <2>2
      <4>2. r2[o] = [d2.rows[o] EXCEPT !.spentBy = NoTx, !.burned = @]
        BY <4>1, <2>10, <2>11, <2>13
      <4>3. d2.rows[o] = [token |-> d.rows[o].token,
                          amount |-> d.rows[o].amount,
                          spentBy |-> tx.id, burned |-> FALSE]
        BY <2>4
      <4>4. r2[o] = [token |-> d.rows[o].token, amount |-> d.rows[o].amount,
                     spentBy |-> NoTx, burned |-> FALSE]
        <5> DEFINE x == r2[o]
                   y == d2.rows[o]
                   a == d.rows[o].token
                   n == d.rows[o].amount
        <5>1. /\ x = [y EXCEPT !.spentBy = NoTx, !.burned = @]
              /\ y = [token |-> a, amount |-> n, spentBy |-> tx.id,
                      burned |-> FALSE]
          BY <4>2, <4>3
        <5> HIDE DEF x, y, a, n
        <5>2. x = [token |-> a, amount |-> n, spentBy |-> NoTx, burned |-> FALSE]
          BY <5>1
        <5> QED BY <5>2 DEF x, a, n
      <4> QED BY <4>1, <4>4, <2>7
    <3>2. \A o \in B : r2[o] = d.rows[o]
      <4> SUFFICES ASSUME NEW o \in B PROVE r2[o] = d.rows[o]
        OBVIOUS
      <4>1. o \in L /\ o \in D /\ o \notin S
        BY <2>1, <2>2
      <4>2. r2[o] = [d2.rows[o] EXCEPT !.spentBy = NoTx, !.burned = FALSE]
        BY <4>1, <2>9, <2>11, <2>14
      <4>3. d2.rows[o] = [token |-> d.rows[o].token,
                          amount |-> d.rows[o].amount,
                          spentBy |-> tx.id, burned |-> TRUE]
        BY <2>5
      <4>4. r2[o] = [token |-> d.rows[o].token, amount |-> d.rows[o].amount,
                     spentBy |-> NoTx, burned |-> FALSE]
        <5> DEFINE x == r2[o]
                   y == d2.rows[o]
                   a == d.rows[o].token
                   n == d.rows[o].amount
        <5>1. /\ x = [y EXCEPT !.spentBy = NoTx, !.burned = FALSE]
              /\ y = [token |-> a, amount |-> n, spentBy |-> tx.id,
                      burned |-> TRUE]
          BY <4>2, <4>3
        <5> HIDE DEF x, y, a, n
        <5>2. x = [token |-> a, amount |-> n, spentBy |-> NoTx, burned |-> FALSE]
          BY <5>1
        <5> QED BY <5>2 DEF x, a, n
      <4> QED BY <4>1, <4>4, <2>7
    <3>3. \A o \in D \ L : r2[o] = d.rows[o]
      BY <2>1, <2>2, <2>6, <2>10, <2>11, <2>14
    <3> QED BY <3>1, <3>2, <3>3, <2>1, <2>2
  <2> QED BY <2>12, <2>15, <1>3
<1> HIDE DEF r2, w
<1> QED BY <1>1, <1>3, <1>4, <1>5

(* The atoms a transaction moves: what is counted for its token is what    *)
(* was counted, less what it spends, plus what it creates; a burn changes  *)
(* nothing, and neither does an operation on another token.                *)
LEMMA StepConserves ==
  ASSUME NEW s, NEW d, NEW c, NEW tx, NEW op, NEW b, NEW s2, NEW d2,
         Step(s, d, c, tx, op, b, s2, d2)
  PROVE  ConservedIn(d2)
<1>0. /\ StateAfter(s, d, c, tx, op, b, s2)
      /\ RowsAfter(s, d, tx, op, b, d2)
      /\ BackingAfter(s, tx, op, s2, d2)
      /\ Agree(s, d)
  <2>1. StateAfter(s, d, c, tx, op, b, s2)
    BY StepUtxos
  <2>2. RowsAfter(s, d, tx, op, b, d2)
    BY StepRows
  <2>3. BackingAfter(s, tx, op, s2, d2)
    BY StepBacking
  <2>4. Agree(s, d)
    BY LiveRows DEF Step
  <2> QED BY <2>1, <2>2, <2>3, <2>4
<1> DEFINE C == DOMAIN op.created
           S == DOMAIN op.spent
           L == LiveInputs(s, tx)
           B == DOMAIN b
           D == DOMAIN d.rows
<1>1. Good(s, d, c) /\ OpShape(s, tx, op) /\ IsTx(tx)
  BY <1>0 DEF Step, StateAfter
<1>2. /\ C \cap D = {} /\ S \subseteq L /\ B = L \ S /\ L \subseteq D
      /\ DOMAIN d2.rows = D \cup C
  <2>1. L \subseteq D
    BY <1>0 DEF Agree, LiveInputs
  <2> QED BY <2>1, <1>0 DEF StateAfter, RowsAfter
<1>3. \A o \in S : d.rows[o].token = tx.token
  <2>1. \A o \in S : s.utxos[o].token = tx.token /\ o \in DOMAIN s.utxos
    BY <1>1, <1>2 DEF OpShape, LiveInputs
  <2>2. \A o \in S : s.utxos[o] = [token |-> d.rows[o].token,
                                   amount |-> d.rows[o].amount]
    BY <2>1, <1>0 DEF Agree
  <2> SUFFICES ASSUME NEW o \in S PROVE d.rows[o].token = tx.token
    OBVIOUS
  <2>3. s.utxos[o].token = tx.token
    BY <2>1
  <2>4. s.utxos[o] = [token |-> d.rows[o].token, amount |-> d.rows[o].amount]
    BY <2>2
  <2> QED BY <2>3, <2>4
<1>4. \A o \in C : op.created[o].token = tx.token
  BY <1>1 DEF OpShape
<1>5. \A o \in L : d.rows[o].spentBy = NoTx /\ ~d.rows[o].burned
  BY <1>0 DEF Agree, LiveInputs
<1>6. tx.id # NoTx
  BY <1>1, RulesAssumption DEF IsTx
<1>7. IsFiniteSet(D) /\ IsFiniteSet(C) /\ IsFiniteSet(S)
  <2>1. IsFiniteSet(D) /\ IsFiniteSet(C)
    BY <1>1 DEF Good, DbOK, OpShape, IsMap
  <2> QED BY <2>1, <1>2, FS_Subset
<1>8. \A o \in D : d2.rows[o].token = d.rows[o].token
                   /\ d2.rows[o].amount = d.rows[o].amount
  <2>1. \A o \in S : d2.rows[o] = [token |-> d.rows[o].token,
                                   amount |-> d.rows[o].amount,
                                   spentBy |-> tx.id, burned |-> FALSE]
    BY <1>0 DEF RowsAfter
  <2>2. \A o \in B : d2.rows[o] = [token |-> d.rows[o].token,
                                   amount |-> d.rows[o].amount,
                                   spentBy |-> tx.id, burned |-> TRUE]
    BY <1>0 DEF RowsAfter
  <2>3. \A o \in D \ L : d2.rows[o] = d.rows[o]
    BY <1>0 DEF RowsAfter
  <2> SUFFICES ASSUME NEW o \in D
               PROVE  d2.rows[o].token = d.rows[o].token
                      /\ d2.rows[o].amount = d.rows[o].amount
    OBVIOUS
  <2>4. CASE o \in S
    <3>1. d2.rows[o] = [token |-> d.rows[o].token, amount |-> d.rows[o].amount,
                        spentBy |-> tx.id, burned |-> FALSE]
      BY <2>1, <2>4
    <3> QED BY <3>1
  <2>5. CASE o \in B
    <3>1. d2.rows[o] = [token |-> d.rows[o].token, amount |-> d.rows[o].amount,
                        spentBy |-> tx.id, burned |-> TRUE]
      BY <2>2, <2>5
    <3> QED BY <3>1
  <2>6. CASE o \in D \ L
    BY <2>3, <2>6
  <2> QED BY <2>4, <2>5, <2>6, <1>2
<1>9. \A o \in C : d2.rows[o].amount = op.created[o].amount
                   /\ d2.rows[o].token = tx.token
                   /\ d2.rows[o].spentBy = NoTx
  <2>1. \A o \in C : d2.rows[o] = [token |-> op.created[o].token,
                                   amount |-> op.created[o].amount,
                                   spentBy |-> NoTx, burned |-> FALSE]
    BY <1>0 DEF RowsAfter
  <2> SUFFICES ASSUME NEW o \in C
               PROVE  d2.rows[o].amount = op.created[o].amount
                      /\ d2.rows[o].token = tx.token
                      /\ d2.rows[o].spentBy = NoTx
    OBVIOUS
  <2>2. d2.rows[o] = [token |-> op.created[o].token,
                      amount |-> op.created[o].amount,
                      spentBy |-> NoTx, burned |-> FALSE]
    BY <2>1
  <2> QED BY <2>2, <1>4
<1>10. \A o \in S : d2.rows[o].spentBy = tx.id /\ ~d2.rows[o].burned
  <2>1. \A o \in S : d2.rows[o] = [token |-> d.rows[o].token,
                                   amount |-> d.rows[o].amount,
                                   spentBy |-> tx.id, burned |-> FALSE]
    BY <1>0 DEF RowsAfter
  <2> SUFFICES ASSUME NEW o \in S
               PROVE  d2.rows[o].spentBy = tx.id /\ ~d2.rows[o].burned
    OBVIOUS
  <2>2. d2.rows[o] = [token |-> d.rows[o].token, amount |-> d.rows[o].amount,
                      spentBy |-> tx.id, burned |-> FALSE]
    BY <2>1
  <2> QED BY <2>2
<1>11. \A o \in B : d2.rows[o].burned
  <2>1. \A o \in B : d2.rows[o] = [token |-> d.rows[o].token,
                                   amount |-> d.rows[o].amount,
                                   spentBy |-> tx.id, burned |-> TRUE]
    BY <1>0 DEF RowsAfter
  <2> SUFFICES ASSUME NEW o \in B PROVE d2.rows[o].burned
    OBVIOUS
  <2>2. d2.rows[o] = [token |-> d.rows[o].token, amount |-> d.rows[o].amount,
                      spentBy |-> tx.id, burned |-> TRUE]
    BY <2>1
  <2> QED BY <2>2
<1>12. \A o \in D \ L : d2.rows[o] = d.rows[o]
  BY <1>0 DEF RowsAfter
<1>13. \A o \in S : op.spent[o].amount = d.rows[o].amount
  <2>1. \A o \in S : op.spent[o] = s.utxos[o] /\ o \in DOMAIN s.utxos
    BY <1>0, <1>2 DEF StateAfter, LiveInputs
  <2> SUFFICES ASSUME NEW o \in S PROVE op.spent[o].amount = d.rows[o].amount
    OBVIOUS
  <2>2. op.spent[o] = [token |-> d.rows[o].token, amount |-> d.rows[o].amount]
    BY <2>1, <1>0 DEF Agree
  <2> QED BY <2>2
<1> HIDE DEF C, S, L, B, D
<1>14. Counted(d2, tx.token) = (Counted(d, tx.token) \ S) \cup C
  BY <1>2, <1>3, <1>4, <1>5, <1>6, <1>8, <1>9, <1>10, <1>11, <1>12
     DEF Counted, D
<1>15. \A t : t # tx.token => Counted(d2, t) = Counted(d, t)
  BY <1>2, <1>3, <1>5, <1>6, <1>8, <1>9, <1>10, <1>11, <1>12
     DEF Counted, D
<1>16. S \subseteq Counted(d, tx.token)
  BY <1>2, <1>3, <1>5 DEF Counted, D
<1>17. \A t : Counted(d, t) \subseteq D
  BY DEF Counted, D
<1>18. \A t : t # tx.token =>
         Atoms(d2.rows, Counted(d2, t)) = Atoms(d.rows, Counted(d, t))
  <2> SUFFICES ASSUME NEW t, t # tx.token
               PROVE  Atoms(d2.rows, Counted(d2, t)) = Atoms(d.rows, Counted(d, t))
    OBVIOUS
  <2>1. \A o \in Counted(d, t) : d2.rows[o].amount = d.rows[o].amount
    BY <1>8, <1>17
  <2>2. Atoms(d2.rows, Counted(d, t)) = Atoms(d.rows, Counted(d, t))
    BY <2>1, AtomsSame
  <2> QED BY <2>2, <1>15, Zenon
<1> DEFINE X == Counted(d, tx.token) \ S
           new == Atoms(d2.rows, Counted(d2, tx.token))
           old == Atoms(d.rows, Counted(d, tx.token))
           cre == Atoms(op.created, C)
           spe == Atoms(op.spent, S)
           rest == Atoms(d.rows, X)
<1>19. X \cap C = {} /\ X \cap S = {} /\ IsFiniteSet(X)
  <2>1. X \subseteq D
    BY <1>17
  <2> QED BY <2>1, <1>2, <1>7, FS_Subset
<1>20. new = rest + cre
  <2>1. new = Atoms(d2.rows, X \cup C)
    BY <1>14, Zenon
  <2>2. Atoms(d2.rows, X \cup C) = Atoms(d2.rows, X) + Atoms(d2.rows, C)
    BY <1>7, <1>19, AtomsUnion
  <2>3. Atoms(d2.rows, X) = rest
    BY <1>8, <1>17, AtomsSame
  <2>4. Atoms(d2.rows, C) = cre
    BY <1>9, AtomsSame
  <2> QED BY <2>1, <2>2, <2>3, <2>4, Zenon
<1>21. old = rest + spe
  <2>1. Counted(d, tx.token) = X \cup S
    BY <1>16
  <2>2. Atoms(d.rows, X \cup S) = rest + Atoms(d.rows, S)
    BY <1>7, <1>19, AtomsUnion
  <2>3. Atoms(d.rows, S) = spe
    BY <1>13, AtomsSame
  <2> QED BY <2>1, <2>2, <2>3, Zenon
<1>22. rest \in Nat /\ cre \in Nat /\ spe \in Nat
  BY <1>7, <1>19, UnitsFinite
<1>23. ConservedIn(d) /\ d.backing = s.backing
  BY <1>0, <1>1 DEF Agree, Good
<1> HIDE DEF X, new, old, cre, spe, rest
<1>24. CASE MovesBacking(op)
  <2> DEFINE n == NextSupply(s, tx, op)
  <2>1. d2.backing = Put(s.backing, [t \in {tx.token} |-> Successor(n, tx.id)])
    BY <1>0, <1>24 DEF BackingAfter
  <2>2. /\ DOMAIN d2.backing = DOMAIN s.backing \cup {tx.token}
        /\ d2.backing[tx.token].supply = n
        /\ \A t \in DOMAIN s.backing \ {tx.token} :
             d2.backing[t] = s.backing[t]
    BY <2>1 DEF Put, Successor
  <2>3. n \in Nat
    BY <1>1, <1>24, RulesAssumption DEF OpShape
  <2> HIDE DEF n
  <2>4. new = n
    <3>1. CASE op.kind = "DEPLOY"
      <4>1. n = 0 /\ C = {} /\ S = {} /\ tx.token \notin DOMAIN d.backing
        BY <1>1, <1>23, <3>1 DEF OpShape, n, C, S
      <4>2. Counted(d, tx.token) = {}
        BY <4>1, <1>1 DEF Counted, Good, RowsOwnedIn
      <4>3. X = {}
        BY <4>2 DEF X
      <4>4. rest = 0
        BY <4>3, AtomsEmpty, Zenon DEF rest
      <4>5. cre = 0
        BY <4>1, AtomsEmpty, Zenon DEF cre
      <4> QED BY <4>1, <4>4, <4>5, <1>20
    <3>2. CASE op.kind \in {"MINT", "REDEEM"}
      <4> DEFINE q == s.backing[tx.token].supply
      <4>1. tx.token \in DOMAIN s.backing /\ n + spe = q + cre
        BY <1>1, <3>2 DEF OpShape, n, C, S, cre, spe
      <4>2. old = q
        BY <4>1, <1>23 DEF ConservedIn, old
      <4>3. q \in Nat
        BY <4>2, <1>21, <1>22
      <4> HIDE DEF q
      <4> QED BY <4>1, <4>2, <4>3, <2>3, <1>20, <1>21, <1>22
    <3> QED BY <3>1, <3>2, <1>24 DEF MovesBacking
  <2>5. \A t \in DOMAIN d2.backing :
          Atoms(d2.rows, Counted(d2, t)) = d2.backing[t].supply
    <3> SUFFICES ASSUME NEW t \in DOMAIN d2.backing
                 PROVE  Atoms(d2.rows, Counted(d2, t)) = d2.backing[t].supply
      OBVIOUS
    <3>1. CASE t = tx.token
      BY <3>1, <2>2, <2>4 DEF new
    <3>2. CASE t # tx.token
      <4>1. t \in DOMAIN d.backing /\ d2.backing[t] = d.backing[t]
        BY <3>2, <2>2, <1>23
      <4> QED BY <4>1, <3>2, <1>18, <1>23 DEF ConservedIn
    <3> QED BY <3>1, <3>2
  <2> QED BY <2>5 DEF ConservedIn
<1>25. CASE ~MovesBacking(op)
  <2>1. d2.backing = d.backing
    BY <1>0, <1>25, <1>23 DEF BackingAfter
  <2>2. new = old
    <3>1. spe = cre
      <4>1. op.kind \in {"NONE", "TRANSFER"}
        BY <1>1, <1>25 DEF OpShape, MovesBacking
      <4>2. CASE op.kind = "NONE"
        <5>1. C = {} /\ S = {}
          BY <4>2, <1>1 DEF OpShape, C, S
        <5> QED BY <5>1, AtomsEmpty, Zenon DEF cre, spe
      <4>3. CASE op.kind = "TRANSFER"
        BY <4>3, <1>1 DEF OpShape, cre, spe, C, S
      <4> QED BY <4>1, <4>2, <4>3
    <3> QED BY <3>1, <1>20, <1>21
  <2>3. \A t \in DOMAIN d2.backing :
          Atoms(d2.rows, Counted(d2, t)) = d2.backing[t].supply
    <3> SUFFICES ASSUME NEW t \in DOMAIN d2.backing
                 PROVE  Atoms(d2.rows, Counted(d2, t)) = d2.backing[t].supply
      OBVIOUS
    <3>1. CASE t = tx.token
      BY <3>1, <2>1, <2>2, <1>23 DEF new, old, ConservedIn
    <3>2. CASE t # tx.token
      BY <3>2, <2>1, <1>18, <1>23 DEF ConservedIn
    <3> QED BY <3>1, <3>2
  <2> QED BY <2>3 DEF ConservedIn
<1> QED BY <1>24, <1>25

(* Index and table keep their shape. *)
LEMMA StepTypes ==
  ASSUME NEW s, NEW d, NEW c, NEW tx, NEW op, NEW b, NEW s2, NEW d2,
         Step(s, d, c, tx, op, b, s2, d2)
  PROVE  StateOK(s2) /\ DbOK(d2)
<1>0. StateAfter(s, d, c, tx, op, b, s2)
  BY StepUtxos
<1>1. RowsAfter(s, d, tx, op, b, d2)
  BY StepRows
<1>2. BackingAfter(s, tx, op, s2, d2)
  BY StepBacking
<1>3. Good(s, d, c) /\ OpShape(s, tx, op) /\ IsTx(tx)
  BY <1>0 DEF Step, StateAfter
<1>4. Agree(s, d)
  BY LiveRows DEF Step
<1>5. IsMap(s2.backing, Token, Backing)
  <2>1. IsMap(s.backing, Token, Backing)
    BY <1>3 DEF Good, StateOK
  <2>2. CASE ~MovesBacking(op)
    BY <2>1, <2>2, <1>2 DEF BackingAfter
  <2>3. CASE MovesBacking(op)
    <3> DEFINE n == Successor(NextSupply(s, tx, op), tx.id)
    <3>1. s2.backing = Put(s.backing, [t \in {tx.token} |-> n])
      BY <2>3, <1>2 DEF BackingAfter
    <3>2. n \in Backing
      <4>1. NextSupply(s, tx, op) \in 0 .. MaxSupply
        BY <2>3, <1>3 DEF OpShape
      <4>2. <<tx.id, 1>> \in Outpoint
        BY <1>3, RulesAssumption DEF IsTx, Outpoint
      <4>3. R[NextSupply(s, tx, op)] \in Nat
        BY <4>1, RulesAssumption
      <4>4. Anchor + R[NextSupply(s, tx, op)] \in Nat
        BY <4>3, RulesAssumption
      <4> QED BY <4>1, <4>2, <4>3, <4>4 DEF Successor, Backing
    <3> HIDE DEF n
    <3>3. IsFiniteSet(DOMAIN s.backing \cup {tx.token})
      BY <2>1, FS_Singleton, FS_Union DEF IsMap
    <3>4. tx.token \in Token
      BY <1>3 DEF IsTx
    <3>5. DOMAIN s2.backing = DOMAIN s.backing \cup {tx.token}
      BY <3>1 DEF Put
    <3>6. s2.backing \in [DOMAIN s2.backing -> Backing]
      BY <2>1, <3>1, <3>2, <3>5 DEF Put, IsMap
    <3> QED BY <2>1, <3>3, <3>4, <3>5, <3>6 DEF IsMap
  <2> QED BY <2>2, <2>3
<1>6. IsMap(s2.utxos, Outpoint, Utxo)
  <2> DEFINE D == DOMAIN s.utxos
             C == DOMAIN op.created
             L == LiveInputs(s, tx)
  <2>1. /\ IsFiniteSet(D) /\ IsFiniteSet(C)
        /\ D \subseteq Outpoint /\ C \subseteq Outpoint
        /\ \A o \in D : s.utxos[o] \in Utxo
        /\ \A o \in C : op.created[o] \in Utxo
    BY <1>3 DEF Good, StateOK, OpShape, IsMap
  <2>2. DOMAIN s2.utxos = (D \ L) \cup C
    BY <1>0 DEF StateAfter
  <2>3. IsFiniteSet(DOMAIN s2.utxos)
    <3>1. IsFiniteSet(D \ L)
      BY <2>1, FS_Subset
    <3> QED BY <2>1, <2>2, <3>1, FS_Union
  <2>4. \A o \in DOMAIN s2.utxos : s2.utxos[o] \in Utxo
    <3>1. \A o \in C : s2.utxos[o] = op.created[o]
      BY <1>0 DEF StateAfter
    <3>2. \A o \in D \ L : s2.utxos[o] = s.utxos[o]
      BY <1>0 DEF StateAfter
    <3> QED BY <3>1, <3>2, <2>1, <2>2
  <2>5. s2.utxos = [o \in DOMAIN s2.utxos |-> s2.utxos[o]]
    BY <1>0 DEF StateAfter
  <2>6. s2.utxos \in [DOMAIN s2.utxos -> Utxo]
    BY <2>4, <2>5
  <2> QED BY <2>1, <2>2, <2>3, <2>6 DEF IsMap
<1>7. IsMap(d2.rows, Outpoint, Row)
  <2> DEFINE D == DOMAIN d.rows
             C == DOMAIN op.created
             L == LiveInputs(s, tx)
  <2>1. /\ IsFiniteSet(D) /\ IsFiniteSet(C)
        /\ D \subseteq Outpoint /\ C \subseteq Outpoint
        /\ \A o \in D : d.rows[o] \in Row
        /\ \A o \in C : op.created[o] \in Utxo
    BY <1>3 DEF Good, DbOK, OpShape, IsMap
  <2>2. DOMAIN d2.rows = D \cup C
    BY <1>1 DEF RowsAfter
  <2>3. IsFiniteSet(DOMAIN d2.rows)
    BY <2>1, <2>2, FS_Union
  <2>4. tx.id \in TxId
    BY <1>3 DEF IsTx
  <2>5. L \subseteq D /\ L = DOMAIN op.spent \cup DOMAIN b
    BY <1>0, <1>4 DEF StateAfter, Agree, LiveInputs
  <2>6. \A o \in D : d.rows[o].token \in Token /\ d.rows[o].amount \in Amount
    BY <2>1 DEF Row
  <2>7. \A o \in C : d2.rows[o] \in Row
    <3> SUFFICES ASSUME NEW o \in C PROVE d2.rows[o] \in Row
      OBVIOUS
    <3>1. d2.rows[o] = [token |-> op.created[o].token,
                        amount |-> op.created[o].amount,
                        spentBy |-> NoTx, burned |-> FALSE]
      BY <1>1 DEF RowsAfter
    <3>2. op.created[o].token \in Token /\ op.created[o].amount \in Amount
      BY <2>1 DEF Utxo
    <3> QED BY <3>1, <3>2 DEF Row
  <2>8. \A o \in DOMAIN op.spent : d2.rows[o] \in Row
    <3> SUFFICES ASSUME NEW o \in DOMAIN op.spent PROVE d2.rows[o] \in Row
      OBVIOUS
    <3>1. d2.rows[o] = [token |-> d.rows[o].token, amount |-> d.rows[o].amount,
                        spentBy |-> tx.id, burned |-> FALSE]
      BY <1>1 DEF RowsAfter
    <3> QED BY <3>1, <2>4, <2>5, <2>6 DEF Row
  <2>9. \A o \in DOMAIN b : d2.rows[o] \in Row
    <3> SUFFICES ASSUME NEW o \in DOMAIN b PROVE d2.rows[o] \in Row
      OBVIOUS
    <3>1. d2.rows[o] = [token |-> d.rows[o].token, amount |-> d.rows[o].amount,
                        spentBy |-> tx.id, burned |-> TRUE]
      BY <1>1 DEF RowsAfter
    <3> QED BY <3>1, <2>4, <2>5, <2>6 DEF Row
  <2>10. \A o \in D \ L : d2.rows[o] = d.rows[o]
    BY <1>1 DEF RowsAfter
  <2>11. \A o \in DOMAIN d2.rows : d2.rows[o] \in Row
    BY <2>1, <2>2, <2>5, <2>7, <2>8, <2>9, <2>10
  <2>12. d2.rows = [o \in DOMAIN d2.rows |-> d2.rows[o]]
    BY <1>1 DEF RowsAfter
  <2>13. d2.rows \in [DOMAIN d2.rows -> Row]
    BY <2>11, <2>12
  <2> QED BY <2>1, <2>2, <2>3, <2>13 DEF IsMap
<1>8. s2 = [backing |-> s2.backing, utxos |-> s2.utxos]
  BY <1>0 DEF StateAfter
<1>9. d2 = [backing |-> d2.backing, rows |-> d2.rows] /\ d2.backing = s2.backing
  BY <1>1, <1>2 DEF RowsAfter, BackingAfter
<1> QED BY <1>5, <1>6, <1>7, <1>8, <1>9 DEF StateOK, DbOK

(* After the transaction the unspent rows are the live outputs. *)
LEMMA StepLockstep ==
  ASSUME NEW s, NEW d, NEW c, NEW tx, NEW op, NEW b, NEW s2, NEW d2,
         Step(s, d, c, tx, op, b, s2, d2)
  PROVE  LockstepOf(s2, d2)
<1>0. StateAfter(s, d, c, tx, op, b, s2)
  BY StepUtxos
<1>1. RowsAfter(s, d, tx, op, b, d2)
  BY StepRows
<1>2. BackingAfter(s, tx, op, s2, d2)
  BY StepBacking
<1>3. Agree(s, d)
  BY LiveRows DEF Step
<1>4. tx.id # NoTx
  BY <1>0, RulesAssumption DEF StateAfter, IsTx
<1> DEFINE U == DOMAIN s.utxos
           D == DOMAIN d.rows
           C == DOMAIN op.created
           L == LiveInputs(s, tx)
           N == {x \in DOMAIN d2.rows : d2.rows[x].spentBy = NoTx}
<1>5. /\ DOMAIN d2.rows = D \cup C
      /\ \A o \in D \ L : d2.rows[o] = d.rows[o]
  BY <1>1 DEF RowsAfter
<1>6. \A o \in L : d2.rows[o].spentBy # NoTx
  <2> SUFFICES ASSUME NEW o \in L PROVE d2.rows[o].spentBy # NoTx
    OBVIOUS
  <2>1. o \in DOMAIN op.spent \/ o \in DOMAIN b
    BY <1>0 DEF StateAfter
  <2>2. \/ d2.rows[o] = [token |-> d.rows[o].token, amount |-> d.rows[o].amount,
                         spentBy |-> tx.id, burned |-> FALSE]
        \/ d2.rows[o] = [token |-> d.rows[o].token, amount |-> d.rows[o].amount,
                         spentBy |-> tx.id, burned |-> TRUE]
    BY <2>1, <1>1 DEF RowsAfter
  <2> QED BY <2>2, <1>4
<1>7. \A o \in C : /\ d2.rows[o].spentBy = NoTx
                   /\ d2.rows[o].token = op.created[o].token
                   /\ d2.rows[o].amount = op.created[o].amount
  <2> SUFFICES ASSUME NEW o \in C
               PROVE  /\ d2.rows[o].spentBy = NoTx
                      /\ d2.rows[o].token = op.created[o].token
                      /\ d2.rows[o].amount = op.created[o].amount
    OBVIOUS
  <2>1. d2.rows[o] = [token |-> op.created[o].token,
                      amount |-> op.created[o].amount,
                      spentBy |-> NoTx, burned |-> FALSE]
    BY <1>1 DEF RowsAfter
  <2> QED BY <2>1
<1>8. \A o : o \in U <=> o \in D /\ d.rows[o].spentBy = NoTx
  BY <1>3 DEF Agree
<1>9. N = (U \ L) \cup C
  <2>1. L \subseteq U
    BY DEF LiveInputs
  <2> HIDE DEF L
  <2> QED BY <2>1, <1>5, <1>6, <1>7, <1>8
<1>10. DOMAIN s2.utxos = N
  BY <1>0, <1>9 DEF StateAfter
<1> HIDE DEF N
<1>11. \A o \in N : s2.utxos[o] = [token |-> d2.rows[o].token,
                                   amount |-> d2.rows[o].amount]
  <2> SUFFICES ASSUME NEW o \in N
               PROVE  s2.utxos[o] = [token |-> d2.rows[o].token,
                                     amount |-> d2.rows[o].amount]
    OBVIOUS
  <2>1. CASE o \in C
    <3>1. s2.utxos[o] = op.created[o]
      BY <2>1, <1>0 DEF StateAfter
    <3>2. op.created[o] \in Utxo
      BY <2>1, <1>0 DEF StateAfter, OpShape, IsMap
    <3>3. op.created[o] = [token |-> op.created[o].token,
                           amount |-> op.created[o].amount]
      BY <3>2 DEF Utxo
    <3> QED BY <2>1, <3>1, <3>3, <1>7
  <2>2. CASE o \in U \ L
    <3>1. s2.utxos[o] = s.utxos[o]
      BY <2>2, <1>0 DEF StateAfter
    <3>2. s.utxos[o] = [token |-> d.rows[o].token, amount |-> d.rows[o].amount]
      BY <2>2, <1>3 DEF Agree
    <3>3. d2.rows[o] = d.rows[o]
      BY <2>2, <1>5, <1>8
    <3> QED BY <3>1, <3>2, <3>3
  <2> QED BY <2>1, <2>2, <1>9
<1>12. s2.utxos = [o \in N |-> s2.utxos[o]]
  BY <1>0, <1>10 DEF StateAfter
<1>13. s2.utxos = [o \in N |-> [token |-> d2.rows[o].token,
                                amount |-> d2.rows[o].amount]]
  BY <1>11, <1>12, Zenon
<1>14. HydrateUtxos(d2.rows) = s2.utxos
  BY <1>13, Zenon DEF HydrateUtxos, N
<1> QED BY <1>2, <1>14 DEF LockstepOf, BackingAfter

(* Live outputs, vaults and rows of the longer chain. *)
LEMMA StepOwned ==
  ASSUME NEW s, NEW d, NEW c, NEW tx, NEW op, NEW b, NEW s2, NEW d2,
         Step(s, d, c, tx, op, b, s2, d2)
  PROVE  /\ NoGhostIn(s2, c \cup {tx})
         /\ VaultsIn(s2, c \cup {tx})
         /\ RowsOwnedIn(d2, c \cup {tx})
<1>0. StateAfter(s, d, c, tx, op, b, s2)
  BY StepUtxos
<1>1. RowsAfter(s, d, tx, op, b, d2)
  BY StepRows
<1>2. BackingAfter(s, tx, op, s2, d2)
  BY StepBacking
<1>3. Good(s, d, c) /\ OpShape(s, tx, op) /\ IsTx(tx)
  BY <1>0 DEF Step, StateAfter
<1>4. Agree(s, d)
  BY LiveRows DEF Step
<1> DEFINE U == DOMAIN s.utxos
           C == DOMAIN op.created
           L == LiveInputs(s, tx)
<1>5. \A o \in C : o[1] = tx.id /\ op.created[o].token = tx.token
  BY <1>3 DEF OpShape
<1>6. NoGhostIn(s2, c \cup {tx})
  <2>1. DOMAIN s2.utxos = (U \ L) \cup C
    BY <1>0 DEF StateAfter
  <2>2. \A o \in U \ L : o \notin tx.ins
    BY DEF LiveInputs
  <2>3. \A o \in U : /\ \E x \in c : x.id = o[1]
                     /\ \A x \in c : o \notin x.ins
    BY <1>3 DEF Good, NoGhostIn
  <2>4. \A o \in C : o \notin tx.ins /\ \A x \in c : o \notin x.ins
    <3>1. C \cap tx.ins = {}
      BY <1>0 DEF StateAfter
    <3>2. \A x \in c : \A o \in x.ins : \E y \in c : y.id = o[1]
      BY DEF Step, Good, InsKnown
    <3>3. \A x \in c : x.id # tx.id
      BY <1>0 DEF StateAfter
    <3> QED BY <3>1, <3>2, <3>3, <1>5
  <2> HIDE DEF U, C, L
  <2> QED BY <2>1, <2>2, <2>3, <2>4, <1>5 DEF NoGhostIn, C
<1>7. VaultsIn(s2, c \cup {tx})
  <2>1. VaultsIn(s, c)
    BY <1>3 DEF Good
  <2>2. CASE ~MovesBacking(op)
    <3>1. s2.backing = s.backing
      BY <2>2, <1>2 DEF BackingAfter
    <3> QED BY <2>1, <3>1 DEF VaultsIn
  <2>3. CASE MovesBacking(op)
    <3> DEFINE n == NextSupply(s, tx, op)
               v == Successor(n, tx.id)
    <3>1. s2.backing = Put(s.backing, [t \in {tx.token} |-> v])
      BY <2>3, <1>2 DEF BackingAfter
    <3>2. tx.vault = [token |-> tx.token, supply |-> n, value |-> Anchor + R[n]]
      BY <2>3, <1>3 DEF OpShape, PaysVault
    <3>3. v.out = <<tx.id, 1>> /\ v.supply = n
      BY DEF Successor
    <3> HIDE DEF v, n
    <3>4. /\ DOMAIN s2.backing = DOMAIN s.backing \cup {tx.token}
          /\ s2.backing[tx.token] = v
          /\ \A t \in DOMAIN s.backing \ {tx.token} : s2.backing[t] = s.backing[t]
      BY <3>1 DEF Put
    <3>5. tx.vault.token = tx.token /\ tx.vault.supply = n
          /\ tx.vault.value = Anchor + R[n]
      BY <3>2
    <3> SUFFICES ASSUME NEW t \in DOMAIN s2.backing
                 PROVE  \E x \in c \cup {tx} :
                          /\ s2.backing[t].out = <<x.id, 1>>
                          /\ x.vault.token = t
                          /\ x.vault.supply = s2.backing[t].supply
                          /\ x.vault.value = Anchor + R[s2.backing[t].supply]
      BY DEF VaultsIn
    <3>6. CASE t = tx.token
      BY <3>3, <3>4, <3>5, <3>6
    <3>7. CASE t # tx.token
      <4>1. t \in DOMAIN s.backing /\ s2.backing[t] = s.backing[t]
        BY <3>4, <3>7
      <4>2. \E x \in c : /\ s.backing[t].out = <<x.id, 1>>
                         /\ x.vault.token = t
                         /\ x.vault.supply = s.backing[t].supply
                         /\ x.vault.value = Anchor + R[s.backing[t].supply]
        BY <2>1, <4>1 DEF VaultsIn
      <4> QED BY <4>1, <4>2
    <3> QED BY <3>6, <3>7
  <2> QED BY <2>2, <2>3
<1>8. RowsOwnedIn(d2, c \cup {tx})
  <2> DEFINE D == DOMAIN d.rows
  <2>1. RowsOwnedIn(d, c) /\ d.backing = s.backing /\ d2.backing = s2.backing
    BY <1>2, <1>3, <1>4 DEF Good, BackingAfter, Agree
  <2>2. DOMAIN s.backing \subseteq DOMAIN s2.backing
        /\ (C # {} => tx.token \in DOMAIN s2.backing)
    <3>1. CASE MovesBacking(op)
      <4>1. DOMAIN s2.backing = DOMAIN s.backing \cup {tx.token}
        BY <3>1, <1>2 DEF BackingAfter, Put
      <4> QED BY <4>1
    <3>2. CASE ~MovesBacking(op)
      <4>1. s2.backing = s.backing
        BY <3>2, <1>2 DEF BackingAfter
      <4>2. op.kind \in {"NONE", "TRANSFER"}
        BY <3>2, <1>3 DEF OpShape, MovesBacking
      <4>3. op.kind = "NONE" => C = {}
        BY <1>3 DEF OpShape
      <4>4. op.kind = "TRANSFER" => tx.token \in DOMAIN s.backing
        BY <1>3 DEF OpShape
      <4> QED BY <4>1, <4>2, <4>3, <4>4
    <3> QED BY <3>1, <3>2
  <2>3. DOMAIN d2.rows = D \cup C
    BY <1>1 DEF RowsAfter
  <2>4. \A o \in D : \E x \in c : x.id = o[1]
    BY <2>1 DEF RowsOwnedIn
  <2>5. \A o \in C : \E x \in c \cup {tx} : x.id = o[1]
    BY <1>5
  <2>6. \A o \in DOMAIN d2.rows : d2.rows[o].token \in DOMAIN d2.backing
    <3> SUFFICES ASSUME NEW o \in DOMAIN d2.rows
                 PROVE  d2.rows[o].token \in DOMAIN s2.backing
      BY <2>1
    <3>1. CASE o \in C
      <4>1. d2.rows[o] = [token |-> op.created[o].token,
                          amount |-> op.created[o].amount,
                          spentBy |-> NoTx, burned |-> FALSE]
        BY <3>1, <1>1 DEF RowsAfter
      <4>2. d2.rows[o].token = tx.token
        BY <4>1, <3>1, <1>5
      <4> QED BY <4>2, <3>1, <2>2
    <3>2. CASE o \in D
      <4>1. d.rows[o].token \in DOMAIN s.backing
        BY <3>2, <2>1 DEF RowsOwnedIn
      <4>2. o \in DOMAIN op.spent \/ o \in DOMAIN b \/ o \in D \ L
        BY <3>2, <1>0 DEF StateAfter
      <4>3. \/ d2.rows[o] = [token |-> d.rows[o].token,
                             amount |-> d.rows[o].amount,
                             spentBy |-> tx.id, burned |-> FALSE]
            \/ d2.rows[o] = [token |-> d.rows[o].token,
                             amount |-> d.rows[o].amount,
                             spentBy |-> tx.id, burned |-> TRUE]
            \/ d2.rows[o] = d.rows[o]
        BY <4>2, <1>1 DEF RowsAfter
      <4>4. d2.rows[o].token = d.rows[o].token
        BY <4>3
      <4> QED BY <4>1, <4>4, <2>2
    <3> QED BY <3>1, <3>2, <2>3
  <2>7. \A o \in DOMAIN d2.rows : d2.rows[o].spentBy = NoTx => ~d2.rows[o].burned
    <3> SUFFICES ASSUME NEW o \in DOMAIN d2.rows, d2.rows[o].spentBy = NoTx
                 PROVE  ~d2.rows[o].burned
      OBVIOUS
    <3>1. CASE o \in C
      <4>1. d2.rows[o] = [token |-> op.created[o].token,
                          amount |-> op.created[o].amount,
                          spentBy |-> NoTx, burned |-> FALSE]
        BY <3>1, <1>1 DEF RowsAfter
      <4> QED BY <4>1
    <3>2. CASE o \in DOMAIN op.spent
      <4>1. d2.rows[o] = [token |-> d.rows[o].token,
                          amount |-> d.rows[o].amount,
                          spentBy |-> tx.id, burned |-> FALSE]
        BY <3>2, <1>1 DEF RowsAfter
      <4> QED BY <4>1
    <3>3. CASE o \in DOMAIN b
      <4>1. d2.rows[o] = [token |-> d.rows[o].token,
                          amount |-> d.rows[o].amount,
                          spentBy |-> tx.id, burned |-> TRUE]
        BY <3>3, <1>1 DEF RowsAfter
      <4>2. d2.rows[o].spentBy = tx.id /\ tx.id # NoTx
        BY <4>1, <1>3, RulesAssumption DEF IsTx
      <4> QED BY <4>2
    <3>4. CASE o \in D \ L
      <4>1. d2.rows[o] = d.rows[o]
        BY <3>4, <1>1 DEF RowsAfter
      <4> QED BY <4>1, <3>4, <2>1 DEF RowsOwnedIn
    <3>5. L \subseteq DOMAIN op.spent \cup DOMAIN b
      BY <1>0 DEF StateAfter
    <3> QED BY <3>1, <3>2, <3>3, <3>4, <3>5, <2>3
  <2> QED BY <2>3, <2>4, <2>5, <2>6, <2>7 DEF RowsOwnedIn
<1> QED BY <1>6, <1>7, <1>8

(* A connected transaction leads from a good index to a good index. *)
LEMMA StepGood ==
  ASSUME NEW s, NEW d, NEW c, NEW tx, NEW op, NEW b, NEW s2, NEW d2,
         Step(s, d, c, tx, op, b, s2, d2)
  PROVE  Good(s2, d2, c \cup {tx})
<1>1. StateOK(s2) /\ DbOK(d2)
  BY StepTypes
<1>2. LockstepOf(s2, d2)
  BY StepLockstep
<1>3. ConservedIn(d2)
  BY StepConserves
<1>4. /\ NoGhostIn(s2, c \cup {tx})
      /\ VaultsIn(s2, c \cup {tx})
      /\ RowsOwnedIn(d2, c \cup {tx})
  BY StepOwned
<1>5. c \cup {tx} \subseteq Txs
  BY DEF Step, Good
<1>6. InsKnown(c \cup {tx})
  <2>1. InsKnown(c) /\ \A o \in tx.ins : \E x \in c : x.id = o[1]
    BY DEF Step, Good, Connectable
  <2> QED BY <2>1 DEF InsKnown
<1> QED BY <1>1, <1>2, <1>3, <1>4, <1>5, <1>6 DEF Good

-----------------------------------------------------------------------------
(* The empty index is good. *)
LEMMA InitIInv == Init => IInv
<1> SUFFICES ASSUME Init PROVE IInv
  OBVIOUS
<1>1. DOMAIN Nothing = {} /\ 1 .. 0 = {} /\ 0 \in 0 .. MaxTxs
  BY MaxTxsAssumption DEF Nothing
<1>2. \A K, V : IsMap(Nothing, K, V)
  BY FS_EmptySet DEF IsMap, Nothing
<1>3. /\ EmptyState.backing = Nothing /\ EmptyState.utxos = Nothing
      /\ EmptyDb.backing = Nothing /\ EmptyDb.rows = Nothing
      /\ EmptyState = [backing |-> EmptyState.backing, utxos |-> EmptyState.utxos]
      /\ EmptyDb = [backing |-> EmptyDb.backing, rows |-> EmptyDb.rows]
  BY DEF EmptyState, EmptyDb
<1>4. st = EmptyState /\ db = EmptyDb /\ chain = {} /\ height = 0
      /\ journal = Nothing /\ before = Nothing
  BY DEF Init
<1>5. StateOK(st) /\ DbOK(db)
  BY <1>2, <1>3, <1>4 DEF StateOK, DbOK
<1>6. LockstepOf(st, db)
  <2>1. HydrateUtxos(Nothing) = Nothing
    BY DEF HydrateUtxos, Nothing
  <2> QED BY <2>1, <1>3, <1>4 DEF LockstepOf
<1>7. /\ ConservedIn(db) /\ NoGhostIn(st, chain) /\ VaultsIn(st, chain)
      /\ RowsOwnedIn(db, chain) /\ InsKnown(chain) /\ chain \subseteq Txs
  BY <1>1, <1>3, <1>4
     DEF ConservedIn, NoGhostIn, VaultsIn, RowsOwnedIn, InsKnown
<1>8. Good(st, db, chain)
  BY <1>5, <1>6, <1>7 DEF Good
<1>9. TypeOK
  BY <1>1, <1>4, <1>5, <1>7 DEF TypeOK
<1> QED BY <1>1, <1>4, <1>8, <1>9 DEF IInv

(* Connecting a transaction keeps the invariant. *)
LEMMA ConnectIInv ==
  ASSUME IInv, NEW tx \in Txs, Connect(tx)
  PROVE  IInv'
<1> DEFINE op == OpOf(st, tx)
           b == BurnOf(Perform(st, tx, op), tx)
           e == [op |-> op, burned |-> b]
           old == [st |-> st, db |-> db, chain |-> chain]
<1>0. PICK n \in Nat : n = height + 1
  BY MaxTxsAssumption DEF IInv, TypeOK
<1>1. /\ st' = Burn(Perform(st, tx, op), b)
      /\ db' = ApplyForward(db, st', e, tx.id)
      /\ journal' = Put(journal, [h \in {n} |-> e])
      /\ before' = Put(before, [h \in {n} |-> old])
      /\ chain' = chain \cup {tx}
      /\ height' = n
      /\ height < MaxTxs
      /\ Connectable(chain, tx)
  BY <1>0 DEF Connect, ApplyTx
<1>2. Good(st, db, chain) /\ TypeOK
  BY DEF IInv
<1>3. Step(st, db, chain, tx, op, b, st', db')
  BY <1>1, <1>2 DEF Step
<1> HIDE DEF op, b
<1>4. Good(st', db', chain \cup {tx})
  BY <1>3, StepGood
<1>5. UndoTx(st', e) = st
  BY <1>3, StepUndoState
<1>6. Rollback(db', e) = db
  BY <1>3, StepUndoDb
<1> HIDE DEF e
<1>7. /\ height \in Nat /\ n \in 1 .. MaxTxs /\ n \in 0 .. MaxTxs
      /\ 1 .. n = (1 .. height) \cup {n} /\ n \notin 1 .. height
  BY <1>0, <1>1, <1>2, MaxTxsAssumption DEF TypeOK
<1>8. DOMAIN journal = 1 .. height /\ DOMAIN before = 1 .. height
  BY <1>2 DEF TypeOK
<1>9. /\ DOMAIN journal' = 1 .. n
      /\ journal'[n] = e
      /\ \A h \in 1 .. height : journal'[h] = journal[h]
  BY <1>1, <1>7, <1>8 DEF Put
<1>10. /\ DOMAIN before' = 1 .. n
       /\ before'[n] = old
       /\ \A h \in 1 .. height : before'[h] = before[h]
  BY <1>1, <1>7, <1>8 DEF Put
<1>11. TypeOK'
  <2>1. StateOK(st') /\ DbOK(db') /\ chain' \subseteq Txs
    BY <1>1, <1>4 DEF Good
  <2> QED BY <2>1, <1>1, <1>7, <1>9, <1>10 DEF TypeOK, StateOK, DbOK
<1>12. Good(st, db, chain)'
  BY <1>1, <1>4
<1>13. old.st = st /\ old.db = db /\ old.chain = chain
  OBVIOUS
<1>14. ASSUME NEW h \in 1 .. height
       PROVE  /\ Good(before[h].st, before[h].db, before[h].chain)'
              /\ UndoLink(h)'
  <2>1. /\ Good(before[h].st, before[h].db, before[h].chain)
        /\ UndoTx(After(h).st, journal[h]) = before[h].st
        /\ Rollback(After(h).db, journal[h]) = before[h].db
    BY <1>14 DEF IInv, UndoLink
  <2>2. h # n /\ height' # h /\ h \in Nat /\ h <= height /\ n = height + 1
    BY <1>0, <1>1, <1>7, <1>14
  <2>3. After(h)' = before'[h + 1]
    BY <2>2 DEF After
  <2>4. CASE h = height
    <3>1. h + 1 = n
      BY <2>2, <2>4
    <3>2. After(h)' = old /\ After(h) = old
      BY <2>3, <2>4, <3>1, <1>10 DEF After
    <3> QED BY <2>1, <3>2, <1>9, <1>10, <1>14 DEF UndoLink
  <2>5. CASE h # height
    <3>1. h + 1 \in 1 .. height
      BY <2>2, <2>5, <1>7
    <3>2. After(h)' = After(h)
      BY <2>3, <2>5, <3>1, <1>10 DEF After
    <3> QED BY <2>1, <3>2, <1>9, <1>10, <1>14 DEF UndoLink
  <2> QED BY <2>4, <2>5
<1>15. /\ Good(before[n].st, before[n].db, before[n].chain)'
       /\ UndoLink(n)'
  <2>1. before'[n].st = st /\ before'[n].db = db /\ before'[n].chain = chain
    BY <1>10, <1>13
  <2>2. After(n)' = [st |-> st', db |-> db', chain |-> chain']
    BY <1>1 DEF After
  <2>3. After(n)'.st = st' /\ After(n)'.db = db'
    BY <2>2
  <2> QED BY <2>1, <2>3, <1>2, <1>5, <1>6, <1>9 DEF UndoLink
<1>16. 1 .. height' = (1 .. height) \cup {n}
  BY <1>1, <1>7
<1> QED BY <1>11, <1>12, <1>14, <1>15, <1>16 DEF IInv

(* Disconnecting the last transaction keeps the invariant. *)
LEMMA DisconnectIInv ==
  ASSUME IInv, Disconnect
  PROVE  IInv'
<1>0. PICK n \in Nat : n = height
  BY DEF IInv, TypeOK
<1>1. /\ n > 0 /\ n <= MaxTxs
      /\ st' = UndoTx(st, journal[n])
      /\ db' = Rollback(db, journal[n])
      /\ chain' = before[n].chain
      /\ height' = n - 1
      /\ journal' = Del(journal, {n})
      /\ before' = Del(before, {n})
  BY <1>0, MaxTxsAssumption DEF Disconnect, IInv, TypeOK
<1>2. /\ n \in 1 .. height /\ n - 1 \in 0 .. MaxTxs
      /\ 1 .. (n - 1) = (1 .. height) \ {n}
  BY <1>0, <1>1, MaxTxsAssumption
<1>3. After(n) = [st |-> st, db |-> db, chain |-> chain]
  BY <1>0 DEF After
<1>4. Good(before[n].st, before[n].db, before[n].chain) /\ UndoLink(n)
  BY <1>2 DEF IInv
<1>5. st' = before[n].st /\ db' = before[n].db /\ chain' = before[n].chain
  <2>1. After(n).st = st /\ After(n).db = db
    BY <1>3
  <2> QED BY <2>1, <1>1, <1>4 DEF UndoLink
<1>6. Good(st, db, chain)'
  BY <1>4, <1>5
<1>7. DOMAIN journal = 1 .. height /\ DOMAIN before = 1 .. height
  BY DEF IInv, TypeOK
<1>8. /\ DOMAIN journal' = 1 .. (n - 1) /\ DOMAIN before' = 1 .. (n - 1)
      /\ \A h \in 1 .. (n - 1) : journal'[h] = journal[h]
                                 /\ before'[h] = before[h]
  BY <1>1, <1>2, <1>7 DEF Del
<1>9. TypeOK'
  BY <1>1, <1>2, <1>6, <1>8 DEF TypeOK, Good, StateOK, DbOK
<1>10. ASSUME NEW h \in 1 .. (n - 1)
       PROVE  /\ Good(before[h].st, before[h].db, before[h].chain)'
              /\ UndoLink(h)'
  <2>1. /\ Good(before[h].st, before[h].db, before[h].chain)
        /\ UndoTx(After(h).st, journal[h]) = before[h].st
        /\ Rollback(After(h).db, journal[h]) = before[h].db
    BY <1>2, <1>10 DEF IInv, UndoLink
  <2>2. h # height /\ h \in Nat
    BY <1>2
  <2>3. After(h) = before[h + 1]
    BY <2>2 DEF After
  <2>4. After(h)'.st = After(h).st /\ After(h)'.db = After(h).db
    <3>1. CASE h = n - 1
      <4>1. h + 1 = n /\ height' = h
        BY <3>1, <1>1
      <4>2. After(h)' = [st |-> st', db |-> db', chain |-> chain']
        BY <4>1 DEF After
      <4> QED BY <4>1, <4>2, <2>3, <1>5
    <3>2. CASE h # n - 1
      <4>1. h + 1 \in 1 .. (n - 1) /\ height' # h
        BY <3>2, <1>1
      <4>2. After(h)' = before'[h + 1]
        BY <4>1 DEF After
      <4> QED BY <4>1, <4>2, <2>3, <1>8
    <3> QED BY <3>1, <3>2
  <2> QED BY <2>1, <2>4, <1>8, <1>10 DEF UndoLink
<1> QED BY <1>1, <1>6, <1>9, <1>10 DEF IInv

(* IInv is an invariant: it holds of every reachable state of the index.   *)
THEOREM Inductive == Spec => []IInv
<1>1. IInv /\ [Next]_vars => IInv'
  <2> SUFFICES ASSUME IInv, [Next]_vars PROVE IInv'
    OBVIOUS
  <2>1. CASE \E tx \in Txs : Connect(tx)
    BY <2>1, ConnectIInv
  <2>2. CASE Disconnect
    BY <2>2, DisconnectIInv
  <2>3. CASE UNCHANGED vars
    <3>1. /\ st' = st /\ db' = db /\ chain' = chain /\ height' = height
          /\ journal' = journal /\ before' = before
      BY <2>3 DEF vars
    <3> QED BY <3>1 DEF IInv, TypeOK, UndoLink, After
  <2> QED BY <2>1, <2>2, <2>3 DEF Next
<1> QED BY <1>1, InitIInv, PTL DEF Spec

(* Type correctness of index, database and journal. *)
THEOREM TypeCorrect == Spec => []TypeOK
<1>1. IInv => TypeOK
  BY DEF IInv
<1> QED BY <1>1, Inductive, PTL

(* Supply conservation: every atom the vaults account for is in an unspent *)
(* or burned row, however the chain grows and reorganises.                 *)
THEOREM SupplyConserved == Spec => []Conservation
<1>1. IInv => Conservation
  BY DEF IInv, Good, Conservation
<1> QED BY <1>1, Inductive, PTL

(* Memory and Postgres agree after every transaction and every undo. *)
THEOREM InLockstep == Spec => []Lockstep
<1>1. IInv => Lockstep
  BY DEF IInv, Good, Lockstep
<1> QED BY <1>1, Inductive, PTL

(* No balance is shown for an output the chain has spent. *)
THEOREM NoGhosts == Spec => []NoGhostBalance
<1>1. IInv => NoGhostBalance
  BY DEF IInv, Good, NoGhostBalance
<1> QED BY <1>1, Inductive, PTL

(* Every vault the index points at locks the full reserve of its supply. *)
THEOREM FullyReserved == Spec => []FullReserve
<1>1. IInv => FullReserve
  BY DEF IInv, Good, FullReserve
<1> QED BY <1>1, Inductive, PTL

(* A reorganisation restores memory and database exactly. *)
THEOREM UndoIsExact == Spec => []UndoExact
<1>1. IInv => UndoExact
  <2> SUFFICES ASSUME IInv, height > 0 PROVE UndoExact
    BY DEF UndoExact
  <2>1. height \in 1 .. height
    BY DEF IInv, TypeOK
  <2>2. UndoLink(height)
    BY <2>1 DEF IInv
  <2>3. After(height).st = st /\ After(height).db = db
    BY DEF After
  <2> QED BY <2>2, <2>3 DEF UndoLink, UndoExact
<1> QED BY <1>1, Inductive, PTL

-----------------------------------------------------------------------------
(* The path of a transaction (Pipeline, as TransactionPath has it):        *)
(* builder, Guardian, app, mempool and index, over the same rules.         *)

VaultKinds == {"MINT", "REDEEM"}

(* The inputs after the first, and the carriers of index i among some.     *)
Others(tx) == {tx.ins[k].out : k \in 2 .. Len(tx.ins)}
LiveOf(i, S) == {o \in DOMAIN i.utxos : o \in S}

(* A transaction on its way, whoever altered it.                           *)
IsPsbt(tx) ==
  /\ tx = P!Tx(tx.id, tx.kind, tx.token, tx.amount, tx.to, tx.allocs, tx.leaf, tx.ins, tx.outs)
  /\ tx.id \in Fresh /\ tx.kind \in VaultKinds \cup {"DEPLOY", "TRANSFER"}
  /\ tx.token \in Token /\ (tx.kind # "DEPLOY" => tx.amount \in Amount)
  /\ IsMap(tx.allocs, Vout, Amount)
  /\ \E S : tx.ins \in Seq(S)
  /\ tx.kind \in VaultKinds => tx.ins # <<>>

(* It is a transition of the vault whose state is b.                       *)
VaultOut(tx, n) == P!OutAt(tx, 1) = P!Out(P!VaultScript(tx.token, n), Anchor + R[n])
MintFits(tx, b) ==
  /\ tx.kind = "MINT" /\ P!MintAllowed(b, tx.amount) /\ VaultOut(tx, b.supply + tx.amount)
  /\ tx.to = 2 /\ P!CarriesTokens(P!OutAt(tx, 2))
RedeemFits(tx, b) ==
  /\ tx.kind = "REDEEM" /\ P!RedeemAllowed(b, tx.amount) /\ VaultOut(tx, b.supply - tx.amount)
Fits(tx, b) ==
  /\ P!HasEnvelope(tx) /\ Head(tx.ins).out = b.out /\ P!IndexerPays(tx, b.supply)
  /\ MintFits(tx, b) \/ RedeemFits(tx, b)

(* Apart from a vault it spends coins, and live carriers of its own token  *)
(* whose atoms it accounts for.                                            *)
AllocsFit(tx) == \A w \in DOMAIN tx.allocs : P!CarriesTokens(P!OutAt(tx, w))
Spends(tx, i, S, atoms) ==
  /\ S \subseteq P!CoinOuts \cup LiveOf(i, S) /\ LiveOf(i, S) # {}
  /\ \A o \in LiveOf(i, S) : i.utxos[o].token = tx.token
  /\ P!Atoms(i.utxos, LiveOf(i, S)) = atoms
  /\ AllocsFit(tx)
TokensFit(tx, i) ==
  /\ tx.kind = "MINT" => Others(tx) \subseteq P!CoinOuts
  /\ tx.kind = "REDEEM" =>
       Spends(tx, i, Others(tx), tx.amount + P!AllocSum(tx)) /\ DOMAIN tx.allocs \subseteq {4}
  /\ tx.kind = "TRANSFER" => Spends(tx, i, P!InputsOf(tx), P!AllocSum(tx)) /\ P!HasEnvelope(tx)
  /\ tx.kind = "DEPLOY" => P!InputsOf(tx) \subseteq P!CoinOuts

(* The vaults a transition of t may spend: the confirmed one and those the *)
(* transitions in the mempool make.                                        *)
AfterTx(tx) == P!Successor(P!OutAt(tx, 1).script.supply, tx.id)
Pending(pl, t) == {p \in pl : p.tx.kind \in VaultKinds /\ p.tx.token = t}
Tips(i, pl, t) == {i.backing[t]} \cup {AfterTx(p.tx) : p \in Pending(pl, t)}
OnTip(tx, i, pl) ==
  tx.kind \in VaultKinds =>
    /\ tx.token \in DOMAIN i.backing
    /\ \E b \in Tips(i, pl, tx.token) : b.out[1] # tx.id /\ Fits(tx, b)

(* Everything in the index comes from before or from a mined transaction.  *)
MinedIds(m) == {x.id : x \in m}
PathIndex(i, m) ==
  /\ IsMap(i.backing, Token, Backing) /\ IsMap(i.utxos, Outpoint, Utxo)
  /\ i = [backing |-> i.backing, utxos |-> i.utxos]
  /\ \A o \in DOMAIN i.utxos :
       /\ o[1] \notin Fresh \ MinedIds(m) /\ o \notin P!CoinOuts
       /\ i.utxos[o].token \in DOMAIN i.backing
  /\ \A t \in DOMAIN i.backing :
       /\ i.backing[t].out[1] \notin Fresh \ MinedIds(m)
       /\ i.backing[t].out \notin DOMAIN i.utxos

(* What is in the mempool will be applied, and no two of it collide.       *)
PoolTx(tx, i, pl, sp, m) ==
  /\ IsPsbt(tx) /\ tx.id \notin MinedIds(m) /\ P!InputsOf(tx) \subseteq sp
  /\ OnTip(tx, i, pl) /\ TokensFit(tx, i)
  /\ tx.kind = "TRANSFER" => tx.token \in DOMAIN i.backing
  /\ tx.kind = "DEPLOY" =>
       tx.token \notin DOMAIN i.backing /\ P!validateFinalizedDeployTransaction(tx)
PoolInv(i, pl, sp, m) ==
  /\ \A p \in pl : PoolTx(p.tx, i, pl, sp, m)
  /\ \A p, q \in pl : p # q =>
       /\ p.tx.id # q.tx.id /\ P!InputsOf(p.tx) \cap P!InputsOf(q.tx) = {}
       /\ p.tx.kind = "DEPLOY" /\ q.tx.kind = "DEPLOY" => p.tx.token # q.tx.token

(* A request: its inputs were coins or carriers when it was built, and if  *)
(* it is signed and nothing it spends is spent, it will be applied.        *)
Loose(tx, i, sp) ==
  /\ tx.kind \in VaultKinds => Others(tx) \subseteq P!CoinOuts \cup DOMAIN i.utxos \cup sp
  /\ tx.kind = "TRANSFER" =>
       /\ tx.token \in DOMAIN i.backing
       /\ \A o \in P!InputsOf(tx) : 
            \/ o \in P!CoinOuts \cup sp
            \/ o \in DOMAIN i.utxos /\ i.utxos[o].token = tx.token
  /\ tx.kind = "DEPLOY" => P!InputsOf(tx) \subseteq P!CoinOuts /\ tx.token \notin DOMAIN i.backing
IsReq(r) ==
  r = [phase |-> r.phase, tx |-> r.tx, honest |-> r.honest, intent |-> r.intent,
       fill |-> r.fill, checked |-> r.checked, stop |-> r.stop]
ReqTx(r, i, pl, sp, m) ==
  /\ IsReq(r) /\ IsPsbt(r.tx) /\ r.tx.id \notin MinedIds(m)
  /\ \A p \in pl : p.tx.id # r.tx.id
  /\ Loose(r.tx, i, sp)
  /\ r.tx.kind # "TRANSFER" => r.fill = P!NoFill
  /\ r.tx.kind \notin VaultKinds => r.honest = TRUE
  /\ r.tx.kind = "DEPLOY" =>
       \A p \in pl : p.tx.kind = "DEPLOY" => p.tx.token # r.tx.token
  /\ r.phase = "signed" /\ r.tx.kind \in VaultKinds /\ P!InputsOf(r.tx) \cap sp = {} =>
       OnTip(r.tx, i, pl) /\ TokensFit(r.tx, i)
Phases == {"idle", "built", "rejected", "signed", "refused", "unfinal", "declined"}
ReqInv(rq, i, pl, sp, m) ==
  /\ rq \in [User -> {rq[u] : u \in User}]
  /\ \A u \in User :
       /\ rq[u].phase \in Phases
       /\ rq[u].phase # "idle" =>
            /\ ReqTx(rq[u], i, pl, sp, m)
            /\ rq[u].tx.kind = "DEPLOY" => Maker[rq[u].tx.token] = u
            /\ \A w \in User : w # u /\ rq[w].phase # "idle" => rq[w].tx.id # rq[u].tx.id

PathInv ==
  /\ PathIndex(idx, mined) /\ DOMAIN own = DOMAIN idx.utxos
  /\ PoolInv(idx, pool, spent, mined)
  /\ ReqInv(req, idx, pool, spent, mined)
  /\ P!SignedIsApplied

-----------------------------------------------------------------------------
(* The path's own copies of the rules' operators are the rules'.           *)
LEMMA PathCounts ==
  /\ \A S : P!IsFiniteSet(S) <=> IsFiniteSet(S)
  /\ \A S : P!Cardinality(S) = Cardinality(S)
  /\ \A f, K, V : P!IsMap(f, K, V) <=> IsMap(f, K, V)
<1>1. \A S : P!IsFiniteSet(S) <=> IsFiniteSet(S)
  BY DEF P!IsFiniteSet, IsFiniteSet
<1>2. \A S : P!Cardinality(S) = Cardinality(S)
  BY DEF P!Cardinality, Cardinality, P!IsFiniteSet, IsFiniteSet
<1>3. \A f, K, V : P!IsMap(f, K, V) <=> IsMap(f, K, V)
  BY <1>1 DEF P!IsMap, IsMap
<1> QED BY <1>1, <1>2, <1>3

(* So are the types.                                                       *)
LEMMA PathTypes == P!Backing = Backing /\ P!Utxo = Utxo /\ P!Outpoint = Outpoint /\ P!Amount = Amount
  BY DEF P!Backing, Backing, P!Utxo, Utxo, P!Outpoint, Outpoint, P!Amount, Amount

(* Finitely many carriers hold finitely many atoms.                        *)
LEMMA PathAtoms ==
  ASSUME NEW f, NEW S, IsFiniteSet(S)
  PROVE  P!Atoms(f, S) \in Nat
<1>1. P!Atoms(f, S) = Atoms(f, S)
  BY PathCounts DEF P!Atoms, Atoms, P!Units, Units
<1> QED BY <1>1, UnitsFinite

(* Atoms depend on the amounts alone.                                      *)
LEMMA PathAtomsSame ==
  ASSUME NEW f, NEW g, NEW S, \A o \in S : f[o].amount = g[o].amount
  PROVE  P!Atoms(f, S) = P!Atoms(g, S)
<1>1. P!Units(f, S) = P!Units(g, S)
  BY DEF P!Units
<1> QED BY <1>1 DEF P!Atoms

(* A finite set, put in order, is a sequence of its elements.              *)
LEMMA SetInOrder ==
  ASSUME NEW S, IsFiniteSet(S)
  PROVE  P!SetToSeq(S) \in Seq(S)
<1>1. PICK n \in Nat : ExistsBijection(1 .. n, S)
  BY FS_NatBijection
<1>2. P!Cardinality(S) = n
  BY <1>1, FS_CountingElements, PathCounts
<1>3. PICK f \in [1 .. n -> S] : \A a, b \in 1 .. n : f[a] = f[b] => a = b
  BY <1>1 DEF ExistsBijection, Bijection, Injection, IsInjective
<1>4. P!IsInjective(f)
  BY <1>3 DEF P!IsInjective
<1>5. \E g \in [1 .. P!Cardinality(S) -> S] : P!IsInjective(g)
  BY <1>2, <1>3, <1>4
<1>6. P!SetToSeq(S) \in [1 .. P!Cardinality(S) -> S]
  BY <1>5, Zenon DEF P!SetToSeq
<1>7. P!SetToSeq(S) \in [1 .. n -> S]
  BY <1>2, <1>6
<1> QED BY <1>7

(* The inputs are the first and the others.                                *)
LEMMA InputsAre ==
  ASSUME NEW tx, NEW S, tx.ins \in Seq(S)
  PROVE  /\ Others(tx) \subseteq P!InputsOf(tx)
         /\ tx.ins # <<>> => P!InputsOf(tx) = {Head(tx.ins).out} \cup Others(tx)
         /\ tx.ins # <<>> => Head(tx.ins).out \in P!InputsOf(tx)
<1>1. PICK s \in Seq(S) : s = tx.ins
  OBVIOUS
<1>2. /\ P!InputsOf(tx) = {s[k].out : k \in 1 .. Len(s)}
      /\ Others(tx) = {s[k].out : k \in 2 .. Len(s)}
  BY <1>1 DEF P!InputsOf, Others
<1>3. 2 .. Len(s) \subseteq 1 .. Len(s)
  OBVIOUS
<1>4. CASE s # <<>>
  <2>1. 1 \in 1 .. Len(s) /\ Head(s) = s[1] /\ 1 .. Len(s) = {1} \cup 2 .. Len(s)
    BY <1>4
  <2> QED BY <1>1, <1>2, <1>3, <2>1
<1>5. CASE s = <<>>
  BY <1>1, <1>2, <1>3, <1>5
<1> QED BY <1>4, <1>5

(* The vault a transition makes.                                           *)
LEMMA AfterIs ==
  ASSUME NEW tx
  PROVE  /\ AfterTx(tx).out = <<tx.id, 1>> /\ AfterTx(tx).out[1] = tx.id
         /\ AfterTx(tx).supply = P!OutAt(tx, 1).script.supply
  BY DEF AfterTx, P!Successor

(* No two tips of a token are held by one output.                          *)
LEMMA TipsApart ==
  ASSUME NEW i, NEW pl, NEW sp, NEW m, PathIndex(i, m), PoolInv(i, pl, sp, m),
         NEW t \in DOMAIN i.backing, NEW b \in Tips(i, pl, t), NEW c \in Tips(i, pl, t),
         b.out[1] = c.out[1]
  PROVE  b = c
<1>1. i.backing[t].out[1] \notin Fresh \ MinedIds(m)
  BY DEF PathIndex
<1>2. \A p \in Pending(pl, t) : p \in pl /\ p.tx.id \in Fresh \ MinedIds(m)
  BY DEF Pending, PoolInv, PoolTx, IsPsbt
<1>3. \A p, q \in Pending(pl, t) : p.tx.id = q.tx.id => p = q
  BY DEF Pending, PoolInv
<1>4. \A d \in Tips(i, pl, t) :
        d = i.backing[t] \/ \E p \in Pending(pl, t) : d = AfterTx(p.tx) /\ d.out[1] = p.tx.id
  BY AfterIs DEF Tips
<1>5. CASE b = i.backing[t]
  BY <1>1, <1>2, <1>4, <1>5
<1>6. CASE \E p \in Pending(pl, t) : b = AfterTx(p.tx) /\ b.out[1] = p.tx.id
  <2>1. PICK p \in Pending(pl, t) : b = AfterTx(p.tx) /\ b.out[1] = p.tx.id
    BY <1>6
  <2>2. PICK q \in Pending(pl, t) : c = AfterTx(q.tx) /\ c.out[1] = q.tx.id
    BY <1>1, <1>2, <1>4, <2>1
  <2> QED BY <1>3, <2>1, <2>2
<1> QED BY <1>4, <1>5, <1>6

(* followPendingBacking goes from tip to tip.                              *)
NextTip(t, stop, b) ==
  IF b.out = stop \/ P!PendingSpend(t, b) = {} THEN b
  ELSE LET tx == (CHOOSE p \in P!PendingSpend(t, b) : TRUE).tx
           n == IF tx.kind = "MINT" THEN b.supply + tx.amount ELSE b.supply - tx.amount
       IN  P!Successor(n, tx.id)

(* The successor of a tip is a tip.                                        *)
LEMMA NextTipIsTip ==
  ASSUME PathIndex(idx, mined), PoolInv(idx, pool, spent, mined),
         NEW t \in DOMAIN idx.backing, NEW stop, NEW b \in Tips(idx, pool, t)
  PROVE  NextTip(t, stop, b) \in Tips(idx, pool, t)
<1>1. CASE b.out = stop \/ P!PendingSpend(t, b) = {}
  BY <1>1 DEF NextTip
<1>2. CASE ~(b.out = stop \/ P!PendingSpend(t, b) = {})
  <2>1. PICK q : q = CHOOSE p \in P!PendingSpend(t, b) : TRUE
    OBVIOUS
  <2>2. q \in P!PendingSpend(t, b)
    BY <1>2, <2>1, Zenon
  <2>3. q \in pool /\ q.tx.kind \in VaultKinds /\ q.tx.token = t /\ Head(q.tx.ins).out = b.out
    BY <2>2 DEF P!PendingSpend, VaultKinds
  <2>4. OnTip(q.tx, idx, pool)
    BY <2>3 DEF PoolInv, PoolTx
  <2>5. PICK c \in Tips(idx, pool, t) : Fits(q.tx, c)
    BY <2>3, <2>4 DEF OnTip
  <2>6. c.out = b.out
    BY <2>3, <2>5 DEF Fits
  <2>7. b = c
    BY <2>6, TipsApart
  <2>8. PICK n : n = IF q.tx.kind = "MINT" THEN b.supply + q.tx.amount ELSE b.supply - q.tx.amount
    OBVIOUS
  <2>9. MintFits(q.tx, b) \/ RedeemFits(q.tx, b)
    BY <2>5, <2>7 DEF Fits
  <2>10. VaultOut(q.tx, n)
    BY <2>8, <2>9 DEF MintFits, RedeemFits
  <2>11. P!OutAt(q.tx, 1).script.supply = n
    BY <2>10 DEF VaultOut, P!Out, P!VaultScript
  <2>12. NextTip(t, stop, b) = P!Successor(n, q.tx.id)
    <3>1. NextTip(t, stop, b) =
            P!Successor(IF q.tx.kind = "MINT" THEN b.supply + q.tx.amount
                        ELSE b.supply - q.tx.amount, q.tx.id)
      BY <1>2, <2>1 DEF NextTip
    <3> QED BY <2>8, <3>1
  <2>13. NextTip(t, stop, b) = AfterTx(q.tx)
    BY <2>11, <2>12 DEF AfterTx
  <2>14. q \in Pending(pool, t)
    BY <2>3 DEF Pending
  <2> QED BY <2>13, <2>14 DEF Tips
<1> QED BY <1>1, <1>2

Walks(t, stop, n, f) ==
  f = [k \in 0 .. n |-> IF k = 0 THEN idx.backing[t] ELSE NextTip(t, stop, f[k - 1])]
Walk(t, stop, n) == CHOOSE f : Walks(t, stop, n, f)

(* The walk's recursion has a solution, by induction on its length.        *)
LEMMA WalkExists ==
  ASSUME NEW t, NEW stop, NEW n \in Nat
  PROVE  \E f : Walks(t, stop, n, f)
<1> DEFINE T == {m \in Nat : ~\E f : Walks(t, stop, m, f)}
<1>1. SUFFICES ASSUME T # {} PROVE FALSE
  OBVIOUS
<1>2. PICK m \in T : \A k \in T : m <= k
  BY <1>1, LeastNat
<1>3. m \in Nat /\ ~\E f : Walks(t, stop, m, f)
  BY <1>2
<1>4. CASE m = 0
  <2>1. PICK g : g = [k \in 0 .. 0 |-> idx.backing[t]]
    OBVIOUS
  <2>2. Walks(t, stop, 0, g)
    BY <2>1 DEF Walks
  <2> QED BY <1>3, <1>4, <2>2
<1>5. CASE m # 0
  <2>1. m - 1 \in Nat /\ m - 1 \notin T
    BY <1>2, <1>3, <1>5
  <2>2. PICK f : Walks(t, stop, m - 1, f)
    BY <2>1
  <2>3. PICK v : v = NextTip(t, stop, f[m - 1])
    OBVIOUS
  <2>4. PICK g : g = [k \in 0 .. m |-> IF k = m THEN v ELSE f[k]]
    OBVIOUS
  <2>5. \A k \in 0 .. m - 1 : f[k] = IF k = 0 THEN idx.backing[t] ELSE NextTip(t, stop, f[k - 1])
    BY <2>2 DEF Walks
  <2>6. g[m] = v /\ \A k \in 0 .. m - 1 : g[k] = f[k]
    BY <1>3, <2>4
  <2>7. \A k \in 0 .. m : g[k] = IF k = 0 THEN idx.backing[t] ELSE NextTip(t, stop, g[k - 1])
    <3>1. TAKE k \in 0 .. m
    <3>2. CASE k = m
      <4>1. m - 1 \in 0 .. m - 1
        BY <2>1
      <4>2. g[k - 1] = f[m - 1]
        BY <2>6, <3>2, <4>1
      <4> QED BY <1>5, <2>3, <2>6, <3>2, <4>2
    <3>3. CASE k # m /\ k # 0
      <4>1. k \in 0 .. m - 1 /\ k - 1 \in 0 .. m - 1
        BY <1>3, <3>3
      <4>2. g[k] = f[k] /\ g[k - 1] = f[k - 1]
        BY <2>6, <4>1
      <4> QED BY <2>5, <3>3, <4>1, <4>2
    <3>4. CASE k = 0
      <4>1. 0 \in 0 .. m - 1
        BY <2>1
      <4>2. g[0] = f[0] /\ f[0] = idx.backing[t]
        BY <2>5, <2>6, <4>1
      <4> QED BY <3>4, <4>2
    <3> QED BY <3>2, <3>3, <3>4
  <2>8. g = [k \in 0 .. m |-> g[k]]
    BY <2>4
  <2>9. Walks(t, stop, m, g)
    BY <2>7, <2>8 DEF Walks
  <2> QED BY <1>3, <2>9
<1> QED BY <1>4, <1>5

(* followPendingBacking ends at a tip.                                     *)
LEMMA FollowIsTip ==
  ASSUME P!Sound, PathIndex(idx, mined), PoolInv(idx, pool, spent, mined),
         NEW t \in DOMAIN idx.backing, NEW stop
  PROVE  P!Follow(t, stop) \in Tips(idx, pool, t)
<1>1. PICK n \in Nat : n = P!Cardinality(TxId)
  <2>1. IsFiniteSet(TxId)
    BY PathCounts DEF P!Sound
  <2> QED BY <2>1, FS_CardinalityType, PathCounts
<1>2. Walks(t, stop, n, Walk(t, stop, n))
  BY <1>1, WalkExists, Zenon DEF Walk
<1>3. P!Follow(t, stop) = Walk(t, stop, n)[n]
  BY <1>1, Zenon DEF P!Follow, Walk, Walks, NextTip
<1>4. PICK f : f = Walk(t, stop, n)
  OBVIOUS
<1>5. f = [k \in 0 .. n |-> IF k = 0 THEN idx.backing[t] ELSE NextTip(t, stop, f[k - 1])]
  BY <1>2, <1>4, Zenon DEF Walks
<1>6. f[0] = idx.backing[t] /\ \A k \in 1 .. n : f[k] = NextTip(t, stop, f[k - 1])
  BY <1>5
<1> DEFINE T == {k \in 0 .. n : f[k] \notin Tips(idx, pool, t)}
<1>7. ASSUME T # {} PROVE FALSE
  <2>1. T \in SUBSET Nat
    OBVIOUS
  <2>2. PICK m \in T : \A k \in T : m <= k
    BY <1>7, <2>1, LeastNat
  <2>3. m \in 0 .. n /\ f[m] \notin Tips(idx, pool, t) /\ m # 0
    BY <1>6, <2>2 DEF Tips
  <2>4. m \in 1 .. n /\ m - 1 \in 0 .. n /\ m - 1 \notin T
    BY <2>2, <2>3
  <2>5. f[m - 1] \in Tips(idx, pool, t)
    BY <2>4
  <2> QED BY <1>6, <2>3, <2>4, <2>5, NextTipIsTip
<1>8. n \in 0 .. n
  OBVIOUS
<1>9. f[n] \in Tips(idx, pool, t)
  BY <1>7, <1>8
<1> QED BY <1>3, <1>4, <1>9

(* What a view shows of the index.                                         *)
LEMMA ViewIs ==
  ASSUME NEW t, NEW stop
  PROVE  /\ DOMAIN P!View(t, stop).utxos = {o \in DOMAIN idx.utxos : idx.utxos[o].token = t}
         /\ \A o \in DOMAIN P!View(t, stop).utxos : P!View(t, stop).utxos[o] = idx.utxos[o]
         /\ DOMAIN P!View(t, stop).backing = DOMAIN idx.backing \cap {t}
         /\ t \in DOMAIN idx.backing => P!View(t, stop).backing[t] = P!Follow(t, stop)
<1>1. PICK b : b = [s \in DOMAIN idx.backing \cap {t} |-> idx.backing[s]]
  OBVIOUS
<1>2. PICK u : u = [o \in {o \in DOMAIN idx.utxos : idx.utxos[o].token = t} |-> idx.utxos[o]]
  OBVIOUS
<1>3. PICK f : f = P!Follow(t, stop)
  OBVIOUS
<1>4. P!Snapshot(t) = [backing |-> b, utxos |-> u]
  BY <1>1, <1>2 DEF P!Snapshot
<1>5. P!View(t, stop) = IF t \notin DOMAIN idx.backing THEN [backing |-> b, utxos |-> u]
                        ELSE [[backing |-> b, utxos |-> u] EXCEPT !.backing[t] = f]
  BY <1>3, <1>4, Zenon DEF P!View
<1>6. /\ DOMAIN u = {o \in DOMAIN idx.utxos : idx.utxos[o].token = t}
      /\ \A o \in DOMAIN u : u[o] = idx.utxos[o]
  BY <1>2
<1>7. DOMAIN b = DOMAIN idx.backing \cap {t}
  BY <1>1
<1>8. /\ P!View(t, stop).utxos = u
      /\ DOMAIN P!View(t, stop).backing = DOMAIN b
      /\ t \in DOMAIN idx.backing => P!View(t, stop).backing[t] = f
  BY <1>1, <1>5
<1> QED BY <1>3, <1>6, <1>7, <1>8

(* What the Guardian lets pass for funding are coins.                      *)
LEMMA FundingIsCoins ==
  ASSUME NEW tx, NEW v, NEW except, IsPsbt(tx), Loose(tx, idx, spent), tx.kind \in VaultKinds,
         P!GuardianFunding(tx, v, except)
  PROVE  Others(tx) \subseteq except \cup P!CoinOuts
<1>1. \A k \in 2 .. Len(tx.ins) :
        \/ tx.ins[k].out \in except
        \/ tx.ins[k].out \notin spent /\ tx.ins[k].out \notin DOMAIN idx.utxos
  BY DEF P!GuardianFunding, P!chainFundingChecker
<1>2. Others(tx) \subseteq P!CoinOuts \cup DOMAIN idx.utxos \cup spent
  BY DEF Loose
<1>3. \A o \in Others(tx) : \E k \in 2 .. Len(tx.ins) : o = tx.ins[k].out
  BY DEF Others
<1> QED BY <1>1, <1>2, <1>3

(* Validation of a mint on a vault state: the index will find it valid.    *)
LEMMA MintValidated ==
  ASSUME NEW tx, NEW v, NEW b, P!validateMintTransitionV3(tx, v), v.backing[tx.token] = b
  PROVE  Fits(tx, b) /\ P!GuardianFunding(tx, v, {})
<1>1. /\ P!HasEnvelope(tx) /\ tx.kind = "MINT" /\ Head(tx.ins).out = b.out
      /\ P!MintAllowed(b, tx.amount) /\ tx.to = 2
      /\ P!OutAt(tx, 1) = P!Out(P!VaultScript(tx.token, b.supply + tx.amount),
                                Anchor + R[b.supply + tx.amount])
      /\ P!CarriesTokens(P!OutAt(tx, 2))
      /\ P!OutAt(tx, 3) = P!Out(P!FeeScript,
           MintFee(P!Gross(b.supply, b.supply + tx.amount), tx.amount))
      /\ P!OutAt(tx, 4) = P!Out(P!Payment(Maker[tx.token]),
           CreatorFee(P!Gross(b.supply, b.supply + tx.amount)))
      /\ P!GuardianFunding(tx, v, {})
  BY Zenon DEF P!validateMintTransitionV3, P!GuardianBacking
<1>2. P!IndexerPays(tx, b.supply)
  BY <1>1 DEF P!IndexerPays
<1>3. MintFits(tx, b)
  BY <1>1, Zenon DEF MintFits, VaultOut
<1> QED BY <1>1, <1>2, <1>3, Zenon DEF Fits

(* What the validation of a redemption says of the transaction.            *)
LEMMA RedeemValidated ==
  ASSUME NEW tx, NEW v, NEW b, P!validateRedeemTransitionV3(tx, v), v.backing[tx.token] = b,
         NEW S, S = {o \in P!TokenInputs(tx, v) : v.utxos[o].token = tx.token}
  PROVE  /\ Fits(tx, b) /\ S # {}
         /\ P!AllocSum(tx) = P!Atoms(v.utxos, S) - tx.amount
         /\ AllocsFit(tx) /\ DOMAIN tx.allocs \subseteq {4}
         /\ P!GuardianFunding(tx, v, S)
<1>1. PICK change : change = P!Atoms(v.utxos, S) - tx.amount
  OBVIOUS
<1>2. /\ P!HasEnvelope(tx) /\ tx.kind = "REDEEM" /\ Head(tx.ins).out = b.out
      /\ P!OwnToken(tx, v, S) /\ P!RedeemAllowed(b, tx.amount)
      /\ P!AllocSum(tx) = change /\ P!RedeemSettles(tx, v, b, S, change)
  BY <1>1, Zenon DEF P!validateRedeemTransitionV3, P!GuardianBacking
<1>3. /\ P!OutAt(tx, 1) = P!Out(P!VaultScript(tx.token, b.supply - tx.amount),
                                Anchor + R[b.supply - tx.amount])
      /\ P!OutAt(tx, 2).value = P!Gross(b.supply, b.supply - tx.amount)
                                  - RedeemFee(P!Gross(b.supply, b.supply - tx.amount))
      /\ P!OutAt(tx, 3) = P!Out(P!FeeScript, RedeemFee(P!Gross(b.supply, b.supply - tx.amount)))
      /\ P!GuardianFunding(tx, v, S)
      /\ IF change > 0
         THEN P!CarriesTokens(P!OutAt(tx, 4)) /\ tx.allocs = [w \in {4} |-> change]
         ELSE DOMAIN tx.allocs = {}
  BY <1>2, Zenon DEF P!RedeemSettles
<1>4. P!IndexerPays(tx, b.supply)
  BY <1>2, <1>3 DEF P!IndexerPays
<1>5. RedeemFits(tx, b)
  BY <1>2, <1>3, Zenon DEF RedeemFits, VaultOut
<1>6. AllocsFit(tx) /\ DOMAIN tx.allocs \subseteq {4}
  BY <1>3 DEF AllocsFit
<1>7. S # {}
  BY <1>2 DEF P!OwnToken
<1> QED BY <1>1, <1>2, <1>3, <1>4, <1>5, <1>6, <1>7 DEF Fits

(* Whatever the Guardian signs is a transition of a tip.                   *)
LEMMA SignedFits ==
  ASSUME P!Sound, PathIndex(idx, mined), PoolInv(idx, pool, spent, mined),
         NEW tx, NEW stop, IsPsbt(tx), tx.id \notin MinedIds(mined), \A p \in pool : p.tx.id # tx.id,
         Loose(tx, idx, spent), tx.kind \in VaultKinds, P!Validate(tx, P!View(tx.token, stop))
  PROVE  OnTip(tx, idx, pool) /\ TokensFit(tx, idx)
<1> DEFINE t == tx.token
<1>1. PICK v : v = P!View(t, stop)
  OBVIOUS
<1>2. /\ tx.kind = "MINT" => P!validateMintTransitionV3(tx, v)
      /\ tx.kind = "REDEEM" => P!validateRedeemTransitionV3(tx, v)
  BY <1>1 DEF P!Validate
<1>3. t \in DOMAIN v.backing
  BY <1>2, Zenon DEF VaultKinds, P!validateMintTransitionV3, P!validateRedeemTransitionV3
<1>4. t \in DOMAIN idx.backing
  BY <1>1, <1>3, ViewIs
<1>5. PICK b : b = v.backing[t]
  OBVIOUS
<1>6. b = P!Follow(t, stop)
  BY <1>1, <1>4, <1>5, ViewIs
<1>7. b \in Tips(idx, pool, t)
  BY <1>4, <1>6, FollowIsTip
<1>8. b.out[1] # tx.id
  <2>1. b = idx.backing[t] \/ \E p \in Pending(pool, t) : b = AfterTx(p.tx)
    BY <1>7 DEF Tips
  <2>2. tx.id \in Fresh \ MinedIds(mined)
    BY DEF IsPsbt
  <2>3. CASE b = idx.backing[t]
    BY <1>4, <2>2, <2>3 DEF PathIndex
  <2>4. CASE \E p \in Pending(pool, t) : b = AfterTx(p.tx)
    <3>1. PICK p \in Pending(pool, t) : b = AfterTx(p.tx)
      BY <2>4
    <3>2. p \in pool /\ AfterTx(p.tx).out[1] = p.tx.id
      BY <3>1, AfterIs DEF Pending
    <3> QED BY <3>1, <3>2
  <2> QED BY <2>1, <2>3, <2>4
<1>9. CASE tx.kind = "MINT"
  <2>1. Fits(tx, b) /\ P!GuardianFunding(tx, v, {})
    BY <1>2, <1>5, <1>9, MintValidated
  <2>2. OnTip(tx, idx, pool)
    BY <1>4, <1>7, <1>8, <2>1 DEF OnTip
  <2>3. Others(tx) \subseteq {} \cup P!CoinOuts
    BY <2>1, FundingIsCoins
  <2> QED BY <1>9, <2>2, <2>3 DEF TokensFit
<1>10. CASE tx.kind = "REDEEM"
  <2>1. PICK S : S = {o \in P!TokenInputs(tx, v) : v.utxos[o].token = tx.token}
    OBVIOUS
  <2>2. P!validateRedeemTransitionV3(tx, v)
    BY <1>2, <1>10
  <2>3. /\ Fits(tx, b) /\ S # {}
        /\ P!AllocSum(tx) = P!Atoms(v.utxos, S) - tx.amount
        /\ AllocsFit(tx) /\ DOMAIN tx.allocs \subseteq {4}
        /\ P!GuardianFunding(tx, v, S)
    BY <1>5, <2>1, <2>2, RedeemValidated
  <2>4. OnTip(tx, idx, pool)
    BY <1>4, <1>7, <1>8, <2>3 DEF OnTip
  <2>5. Others(tx) \subseteq S \cup P!CoinOuts
    BY <2>3, FundingIsCoins
  <2>6. /\ DOMAIN v.utxos = {o \in DOMAIN idx.utxos : idx.utxos[o].token = t}
        /\ \A o \in DOMAIN v.utxos : v.utxos[o] = idx.utxos[o]
    BY <1>1, ViewIs
  <2>7. S = {o \in DOMAIN v.utxos : o \in Others(tx)}
    BY <2>1, <2>6 DEF P!TokenInputs, Others
  <2>8. \A o \in DOMAIN idx.utxos : o \notin P!CoinOuts
    BY DEF PathIndex
  <2>9. LiveOf(idx, Others(tx)) = S
    BY <2>5, <2>6, <2>7, <2>8 DEF LiveOf
  <2>10. \A o \in S : idx.utxos[o].token = tx.token /\ v.utxos[o].amount = idx.utxos[o].amount
    BY <2>6, <2>7
  <2>11. P!Atoms(v.utxos, S) = P!Atoms(idx.utxos, S)
    BY <2>10, PathAtomsSame
  <2>12. P!Atoms(idx.utxos, S) = tx.amount + P!AllocSum(tx)
    <3>1. P!Atoms(idx.utxos, S) \in Int /\ tx.amount \in Int
      <4>1. S \subseteq DOMAIN idx.utxos /\ IsFiniteSet(DOMAIN idx.utxos)
        BY <2>6, <2>7 DEF PathIndex, IsMap
      <4>2. IsFiniteSet(S)
        BY <4>1, FS_Subset
      <4>3. tx.amount \in Amount
        BY <1>10 DEF IsPsbt
      <4> QED BY <4>2, <4>3, PathAtoms DEF Amount
    <3> QED BY <2>3, <2>11, <3>1
  <2>13. Spends(tx, idx, Others(tx), tx.amount + P!AllocSum(tx))
    BY <2>3, <2>5, <2>9, <2>10, <2>12 DEF Spends
  <2> QED BY <1>10, <2>3, <2>4, <2>13 DEF TokensFit
<1> QED BY <1>9, <1>10 DEF VaultKinds

(* The app's final check of a transfer: it accounts for what it spends.    *)
LEMMA TransferFinal ==
  ASSUME PathIndex(idx, mined), NEW tx, NEW stop, tx.kind = "TRANSFER", Loose(tx, idx, spent),
         P!InputsOf(tx) \cap spent = {},
         P!validateFinalizedTransferTransaction(tx, P!View(tx.token, stop))
  PROVE  TokensFit(tx, idx)
<1>1. PICK v : v = P!View(tx.token, stop)
  OBVIOUS
<1>2. PICK S : S = {o \in DOMAIN v.utxos : o \in P!InputsOf(tx)}
  OBVIOUS
<1>3. /\ P!HasEnvelope(tx) /\ P!OwnToken(tx, v, S) /\ P!AllocSum(tx) = P!Atoms(v.utxos, S)
      /\ AllocsFit(tx)
  BY <1>1, <1>2, Zenon DEF P!validateFinalizedTransferTransaction, AllocsFit
<1>4. /\ DOMAIN v.utxos = {o \in DOMAIN idx.utxos : idx.utxos[o].token = tx.token}
      /\ \A o \in DOMAIN v.utxos : v.utxos[o] = idx.utxos[o]
  BY <1>1, ViewIs
<1>5. \A o \in P!InputsOf(tx) :
        \/ o \in P!CoinOuts
        \/ o \in DOMAIN idx.utxos /\ idx.utxos[o].token = tx.token
  BY DEF Loose
<1>6. \A o \in DOMAIN idx.utxos : o \notin P!CoinOuts
  BY DEF PathIndex
<1>7. LiveOf(idx, P!InputsOf(tx)) = S
  BY <1>2, <1>4, <1>5, <1>6 DEF LiveOf
<1>8. S # {} /\ P!InputsOf(tx) \subseteq P!CoinOuts \cup S
  BY <1>2, <1>3, <1>4, <1>5 DEF P!OwnToken
<1>9. \A o \in S : idx.utxos[o].token = tx.token /\ v.utxos[o].amount = idx.utxos[o].amount
  BY <1>2, <1>4
<1>10. P!Atoms(v.utxos, S) = P!Atoms(idx.utxos, S)
  BY <1>9, PathAtomsSame
<1>11. Spends(tx, idx, P!InputsOf(tx), P!AllocSum(tx))
  BY <1>3, <1>7, <1>8, <1>9, <1>10 DEF Spends
<1> QED BY <1>3, <1>11 DEF TokensFit

-----------------------------------------------------------------------------
(* A transaction whose time has come: the index as it stands finds it      *)
(* valid.                                                                  *)
Ripe(tx, i, m) ==
  /\ PathIndex(i, m) /\ IsPsbt(tx) /\ tx.id \notin MinedIds(m) /\ TokensFit(tx, i)
  /\ tx.kind \in VaultKinds => tx.token \in DOMAIN i.backing /\ Fits(tx, i.backing[tx.token])
  /\ tx.kind = "TRANSFER" => tx.token \in DOMAIN i.backing
  /\ tx.kind = "DEPLOY" =>
       tx.token \notin DOMAIN i.backing /\ P!validateFinalizedDeployTransaction(tx)

(* What the index makes of it.                                             *)
Made(i, j) == DOMAIN j.utxos \ DOMAIN i.utxos
Applied(tx, i, j) ==
  /\ IsMap(j.backing, Token, Backing) /\ IsMap(j.utxos, Outpoint, Utxo)
  /\ j = [backing |-> j.backing, utxos |-> j.utxos]
  /\ DOMAIN i.utxos \ DOMAIN j.utxos = DOMAIN i.utxos \cap P!InputsOf(tx)
  /\ \A o \in DOMAIN i.utxos \cap DOMAIN j.utxos : j.utxos[o] = i.utxos[o]
  /\ \A o \in Made(i, j) :
       /\ o[1] = tx.id /\ j.utxos[o].token = tx.token
       /\ tx.kind # "TRANSFER" => o # <<tx.id, 1>>
  /\ tx.kind = "TRANSFER" => j.backing = i.backing
  /\ tx.kind # "TRANSFER" =>
       /\ DOMAIN j.backing = DOMAIN i.backing \cup {tx.token}
       /\ j.backing[tx.token] = AfterTx(tx)
       /\ \A t \in DOMAIN i.backing : t # tx.token => j.backing[t] = i.backing[t]

(* The rules see the transaction's own fields.                             *)
Seen(tx, i, w) ==
  /\ w.id = tx.id /\ w.kind = tx.kind /\ w.in0 = Head(tx.ins).out
  /\ w.ins = P!InputsOf(tx) /\ w.token = tx.token /\ w.amount = tx.amount
  /\ w.to = tx.to /\ w.allocs = tx.allocs
  /\ w.vault = [token |-> P!OutAt(tx, 1).script.token, supply |-> P!OutAt(tx, 1).script.supply,
                value |-> P!OutAt(tx, 1).value]
  /\ w.carriers = {v \in Vout : P!CarriesTokens(P!OutAt(tx, v))}
  /\ w.pays = P!IndexerPays(tx, IF tx.token \in DOMAIN i.backing
                                THEN i.backing[tx.token].supply ELSE 0)
  /\ P!Created(w) = P!Created(tx)
  /\ P!LiveInputs(i, w) = LiveOf(i, P!InputsOf(tx))

(* The fields of the transaction the indexer sees.                         *)
LEMMA ForIndexIs ==
  ASSUME NEW tx, NEW i, NEW w, w = P!ForIndex(tx, i), P!HasEnvelope(tx)
  PROVE  Seen(tx, i, w)
<1>1. /\ w.id = tx.id /\ w.kind = tx.kind /\ w.in0 = Head(tx.ins).out
      /\ w.ins = P!InputsOf(tx) /\ w.token = tx.token /\ w.amount = tx.amount
      /\ w.to = tx.to /\ w.allocs = tx.allocs
      /\ w.vault = [token |-> P!OutAt(tx, 1).script.token, supply |-> P!OutAt(tx, 1).script.supply,
                    value |-> P!OutAt(tx, 1).value]
      /\ w.carriers = {v \in Vout : P!CarriesTokens(P!OutAt(tx, v))}
      /\ w.pays = P!IndexerPays(tx, IF tx.token \in DOMAIN i.backing
                                    THEN i.backing[tx.token].supply ELSE 0)
  BY DEF P!ForIndex
<1>2. P!Created(w) = P!Created(tx)
  BY <1>1 DEF P!Created
<1>3. P!LiveInputs(i, w) = LiveOf(i, P!InputsOf(tx))
  BY <1>1 DEF P!LiveInputs, LiveOf
<1> QED BY <1>1, <1>2, <1>3, Zenon DEF Seen

(* The vault output of a transition is the one the index asks for.         *)
LEMMA VaultPaid ==
  ASSUME NEW tx, NEW i, NEW w, w = P!ForIndex(tx, i), P!HasEnvelope(tx), NEW n, VaultOut(tx, n)
  PROVE  P!PaysVault(w, tx.token, n) /\ AfterTx(tx) = P!Successor(n, tx.id)
<1>1. /\ P!OutAt(tx, 1).script.token = tx.token /\ P!OutAt(tx, 1).script.supply = n
      /\ P!OutAt(tx, 1).value = Anchor + R[n]
  BY DEF VaultOut, P!Out, P!VaultScript
<1>2. w.vault = [token |-> P!OutAt(tx, 1).script.token, supply |-> P!OutAt(tx, 1).script.supply,
                 value |-> P!OutAt(tx, 1).value]
  BY ForIndexIs DEF Seen
<1>3. w.vault = [token |-> tx.token, supply |-> n, value |-> Anchor + R[n]]
  BY <1>1, <1>2
<1> QED BY <1>1, <1>3 DEF P!PaysVault, AfterTx

(* The allocations become carriers of the transaction's own id.            *)
LEMMA CreatedIs ==
  ASSUME P!Sound, NEW tx, IsPsbt(tx)
  PROVE  /\ IsMap(P!Created(tx), Outpoint, Utxo)
         /\ \A o \in DOMAIN P!Created(tx) : o[1] = tx.id /\ P!Created(tx)[o].token = tx.token
         /\ \A o \in DOMAIN P!Created(tx) : \E v \in DOMAIN tx.allocs : o = <<tx.id, v>>
<1> DEFINE K == {<<tx.id, v>> : v \in DOMAIN tx.allocs}
<1>1. IsFiniteSet(DOMAIN tx.allocs) /\ DOMAIN tx.allocs \subseteq Vout
  BY DEF IsPsbt, IsMap
<1>2. IsFiniteSet({tx.id} \X DOMAIN tx.allocs)
  BY <1>1, FS_Singleton, FS_Product
<1>3. K = {tx.id} \X DOMAIN tx.allocs
  OBVIOUS
<1>4. IsFiniteSet(K)
  BY <1>2, <1>3
<1>5. tx.id \in TxId /\ tx.token \in Token
  BY DEF IsPsbt, P!Sound
<1>6. \A v \in DOMAIN tx.allocs : tx.allocs[v] \in Amount
  BY DEF IsPsbt, IsMap
<1>7. P!Created(tx) = [o \in K |-> [token |-> tx.token, amount |-> tx.allocs[o[2]]]]
  BY DEF P!Created
<1>8. \A o \in K : o[1] = tx.id /\ o[2] \in DOMAIN tx.allocs /\ o = <<tx.id, o[2]>>
  OBVIOUS
<1>9. K \subseteq Outpoint
  BY <1>1, <1>5 DEF Outpoint
<1> HIDE DEF K
<1>10. \A o \in K : [token |-> tx.token, amount |-> tx.allocs[o[2]]] \in Utxo
  BY <1>5, <1>6, <1>8 DEF Utxo
<1>11. DOMAIN P!Created(tx) = K /\ P!Created(tx) \in [K -> Utxo]
  BY <1>7, <1>10
<1>12. IsMap(P!Created(tx), Outpoint, Utxo)
  BY <1>4, <1>9, <1>11 DEF IsMap
<1>13. \A o \in K : P!Created(tx)[o].token = tx.token
  BY <1>7
<1> QED BY <1>8, <1>11, <1>12, <1>13

(* The operation the rules find in it.                                     *)
OpFits(tx, i, w, op) ==
  /\ op.kind = tx.kind /\ op.token = tx.token
  /\ DOMAIN op.spent = LiveOf(i, P!InputsOf(tx))
  /\ IsMap(op.created, Outpoint, Utxo)
  /\ \A o \in DOMAIN op.created :
       /\ o[1] = tx.id /\ op.created[o].token = tx.token
       /\ tx.kind # "TRANSFER" => o # <<tx.id, 1>>
  /\ tx.kind # "TRANSFER" =>
       P!Successor(P!NextSupply(i, w, op), tx.id) = AfterTx(tx) /\ AfterTx(tx) \in Backing

(* The fields of a journal entry.                                          *)
LEMMA EntryIs ==
  ASSUME NEW k, NEW t, NEW p, NEW s, NEW c, NEW e, e = P!Entry(k, t, p, s, c)
  PROVE  e.kind = k /\ e.token = t /\ e.prior = p /\ e.spent = s /\ e.created = c
  BY DEF P!Entry

(* A successor is a backing.                                               *)
LEMMA SuccessorType ==
  ASSUME P!Sound, NEW id \in Fresh, NEW n \in 0 .. MaxSupply
  PROVE  P!Successor(n, id) \in Backing
<1>1. id \in TxId /\ 1 \in Vout /\ R[n] \in Nat /\ Anchor \in Nat
  BY RulesAssumption DEF P!Sound
<1>2. <<id, 1>> \in Outpoint /\ Anchor + R[n] \in Nat
  BY <1>1 DEF Outpoint
<1> QED BY <1>1, <1>2 DEF P!Successor, Backing

(* applyTx on a launch that passed the final check.                        *)
LEMMA DeployOp ==
  ASSUME P!Sound, NEW tx, NEW i, NEW m, Ripe(tx, i, m), tx.kind = "DEPLOY",
         NEW w, w = P!ForIndex(tx, i), NEW op, op = P!OpOf(i, w)
  PROVE  OpFits(tx, i, w, op)
<1>1. /\ P!HasEnvelope(tx) /\ P!OutAt(tx, 1) = P!Out(P!VaultScript(tx.token, 0), Anchor)
      /\ P!OutAt(tx, 2).value = CreatorRecord /\ P!isCreatorScript(P!OutAt(tx, 2).script)
      /\ P!OutAt(tx, 2).script = P!Payment(Maker[tx.token])
      /\ tx.token \notin DOMAIN i.backing
  BY Zenon DEF Ripe, P!validateFinalizedDeployTransaction
<1>2. VaultOut(tx, 0)
  BY <1>1, RulesAssumption DEF VaultOut
<1>3. P!PaysVault(w, tx.token, 0) /\ AfterTx(tx) = P!Successor(0, tx.id)
  BY <1>1, <1>2, VaultPaid
<1>4. /\ w.id = tx.id /\ w.kind = tx.kind /\ w.token = tx.token
      /\ w.pays = P!IndexerPays(tx, IF tx.token \in DOMAIN i.backing
                                    THEN i.backing[tx.token].supply ELSE 0)
  <2>1. Seen(tx, i, w)
    BY <1>1, ForIndexIs
  <2> QED BY <2>1 DEF Seen
<1>5. w.pays
  BY <1>1, <1>4 DEF P!IndexerPays
<1>6. P!DeployValid(i, w)
  BY <1>1, <1>3, <1>4, <1>5 DEF P!DeployValid
<1>7. op = P!Entry("DEPLOY", w.token, P!NoBacking, P!Nothing, P!Nothing)
  BY <1>4, <1>6 DEF P!OpOf, P!MintValid, P!TransferValid, P!RedeemValid
<1>8. op.kind = "DEPLOY" /\ op.token = tx.token /\ op.spent = P!Nothing /\ op.created = P!Nothing
  BY <1>4, <1>7, EntryIs
<1>9. P!Nothing = Nothing
  BY DEF P!Nothing, Nothing
<1>10. DOMAIN op.spent = {} /\ DOMAIN op.created = {} /\ IsMap(op.created, Outpoint, Utxo)
  BY <1>8, <1>9, NothingIsMap
<1>11. LiveOf(i, P!InputsOf(tx)) = {}
  BY DEF LiveOf, Ripe, TokensFit, PathIndex
<1>12. P!NextSupply(i, w, op) = 0
  BY <1>8 DEF P!NextSupply
<1>13. AfterTx(tx) \in Backing
  <2>1. 0 \in 0 .. MaxSupply /\ tx.id \in Fresh
    BY RulesAssumption DEF Ripe, IsPsbt
  <2> QED BY <1>3, <2>1, SuccessorType
<1> QED BY <1>3, <1>8, <1>10, <1>11, <1>12, <1>13 DEF OpFits

(* A vault is no carrier.                                                  *)
LEMMA VaultInputs ==
  ASSUME NEW tx, NEW i, NEW m, Ripe(tx, i, m), tx.kind \in VaultKinds
  PROVE  LiveOf(i, P!InputsOf(tx)) = LiveOf(i, Others(tx))
<1>1. /\ \E S : tx.ins \in Seq(S)
      /\ tx.ins # <<>> /\ tx.token \in DOMAIN i.backing
      /\ Head(tx.ins).out = i.backing[tx.token].out
  BY DEF Ripe, IsPsbt, Fits
<1>2. P!InputsOf(tx) = {Head(tx.ins).out} \cup Others(tx)
  BY <1>1, InputsAre
<1>3. Head(tx.ins).out \notin DOMAIN i.utxos
  BY <1>1 DEF Ripe, PathIndex
<1> QED BY <1>2, <1>3 DEF LiveOf

(* applyTx on a mint that fits the vault it spends.                        *)
LEMMA MintOp ==
  ASSUME P!Sound, NEW tx, NEW i, NEW m, Ripe(tx, i, m), tx.kind = "MINT",
         NEW w, w = P!ForIndex(tx, i), NEW op, op = P!OpOf(i, w)
  PROVE  OpFits(tx, i, w, op)
<1>1. PICK b : b = i.backing[tx.token]
  OBVIOUS
<1>2. /\ tx.kind \in VaultKinds /\ tx.token \in DOMAIN i.backing
      /\ P!HasEnvelope(tx) /\ Head(tx.ins).out = b.out /\ P!IndexerPays(tx, b.supply)
      /\ MintFits(tx, b)
  BY <1>1 DEF Ripe, Fits, RedeemFits, VaultKinds
<1>3. /\ P!MintAllowed(b, tx.amount) /\ VaultOut(tx, b.supply + tx.amount)
      /\ tx.to = 2 /\ P!CarriesTokens(P!OutAt(tx, 2))
  BY <1>2 DEF MintFits
<1>4. PICK n : n = b.supply + tx.amount
  OBVIOUS
<1>5. P!PaysVault(w, tx.token, n) /\ AfterTx(tx) = P!Successor(n, tx.id)
  BY <1>2, <1>3, <1>4, VaultPaid
<1>6. /\ w.id = tx.id /\ w.kind = tx.kind /\ w.token = tx.token /\ w.in0 = Head(tx.ins).out
      /\ w.amount = tx.amount /\ w.to = tx.to
      /\ w.carriers = {v \in Vout : P!CarriesTokens(P!OutAt(tx, v))}
      /\ w.pays = P!IndexerPays(tx, IF tx.token \in DOMAIN i.backing
                                    THEN i.backing[tx.token].supply ELSE 0)
  <2>1. Seen(tx, i, w)
    BY <1>2, ForIndexIs
  <2> QED BY <2>1 DEF Seen
<1>7. w.pays /\ 2 \in w.carriers
  BY <1>1, <1>2, <1>3, <1>6, RulesAssumption
<1>8. P!MintValid(i, w)
  BY <1>1, <1>2, <1>3, <1>4, <1>5, <1>6, <1>7 DEF P!MintValid
<1>9. PICK c : c = [o \in {<<tx.id, 2>>} |-> [token |-> tx.token, amount |-> tx.amount]]
  OBVIOUS
<1>10. op = P!Entry("MINT", w.token, b, P!Nothing, c)
  BY <1>1, <1>6, <1>8, <1>9 DEF P!OpOf, P!DeployValid, P!TransferValid, P!RedeemValid
<1>11. op.kind = "MINT" /\ op.token = tx.token /\ op.spent = P!Nothing /\ op.created = c
  BY <1>6, <1>10, EntryIs
<1>12. P!Nothing = Nothing
  BY DEF P!Nothing, Nothing
<1>13. DOMAIN op.spent = {}
  BY <1>11, <1>12, NothingIsMap
<1>14. tx.id \in Fresh /\ tx.id \in TxId /\ tx.token \in Token /\ tx.amount \in Amount
  BY DEF Ripe, IsPsbt, P!Sound
<1>15. IsMap(c, Outpoint, Utxo)
  <2>1. PICK x : x = <<tx.id, 2>>
    OBVIOUS
  <2>2. PICK u : u = [token |-> tx.token, amount |-> tx.amount]
    OBVIOUS
  <2>3. x \in Outpoint /\ u \in Utxo
    BY <1>14, <2>1, <2>2, RulesAssumption DEF Outpoint, Utxo
  <2>4. c = [o \in {x} |-> u]
    BY <1>9, <2>1, <2>2
  <2>5. DOMAIN c = {x} /\ c \in [{x} -> Utxo] /\ IsFiniteSet({x})
    BY <2>3, <2>4, FS_Singleton
  <2> QED BY <2>3, <2>5 DEF IsMap
<1>16. \A o \in DOMAIN c : o[1] = tx.id /\ c[o].token = tx.token /\ o # <<tx.id, 1>>
  BY <1>9
<1>17. LiveOf(i, P!InputsOf(tx)) = {}
  <2>1. LiveOf(i, P!InputsOf(tx)) = LiveOf(i, Others(tx))
    BY <1>2, VaultInputs
  <2> QED BY <2>1 DEF LiveOf, Ripe, TokensFit, PathIndex
<1>18. P!NextSupply(i, w, op) = n
  BY <1>1, <1>4, <1>6, <1>11 DEF P!NextSupply
<1>19. AfterTx(tx) \in Backing
  <2>1. n \in 0 .. MaxSupply
    BY <1>3, <1>4, <1>14, RulesAssumption DEF P!MintAllowed, P!ValidateState, Amount
  <2> QED BY <1>5, <1>14, <2>1, SuccessorType
<1> QED BY <1>5, <1>11, <1>13, <1>15, <1>16, <1>17, <1>18, <1>19 DEF OpFits

(* applyTx on a redemption that fits the vault it spends.                  *)
LEMMA RedeemOp ==
  ASSUME P!Sound, NEW tx, NEW i, NEW m, Ripe(tx, i, m), tx.kind = "REDEEM",
         NEW w, w = P!ForIndex(tx, i), NEW op, op = P!OpOf(i, w)
  PROVE  OpFits(tx, i, w, op)
<1>1. PICK b : b = i.backing[tx.token]
  OBVIOUS
<1>2. /\ tx.kind \in VaultKinds /\ tx.token \in DOMAIN i.backing
      /\ P!HasEnvelope(tx) /\ Head(tx.ins).out = b.out /\ P!IndexerPays(tx, b.supply)
      /\ RedeemFits(tx, b)
  BY <1>1 DEF Ripe, Fits, MintFits, VaultKinds
<1>3. P!RedeemAllowed(b, tx.amount) /\ VaultOut(tx, b.supply - tx.amount)
  BY <1>2 DEF RedeemFits
<1>4. PICK n : n = b.supply - tx.amount
  OBVIOUS
<1>5. P!PaysVault(w, tx.token, n) /\ AfterTx(tx) = P!Successor(n, tx.id)
  BY <1>2, <1>3, <1>4, VaultPaid
<1>6. /\ w.id = tx.id /\ w.kind = tx.kind /\ w.token = tx.token /\ w.in0 = Head(tx.ins).out
      /\ w.amount = tx.amount /\ w.allocs = tx.allocs
      /\ w.carriers = {v \in Vout : P!CarriesTokens(P!OutAt(tx, v))}
      /\ w.pays = P!IndexerPays(tx, IF tx.token \in DOMAIN i.backing
                                    THEN i.backing[tx.token].supply ELSE 0)
      /\ P!Created(w) = P!Created(tx)
      /\ P!LiveInputs(i, w) = LiveOf(i, P!InputsOf(tx))
  <2>1. Seen(tx, i, w)
    BY <1>2, ForIndexIs
  <2> QED BY <2>1 DEF Seen
<1>7. LiveOf(i, P!InputsOf(tx)) = LiveOf(i, Others(tx))
  BY <1>2, VaultInputs
<1>8. Spends(tx, i, Others(tx), tx.amount + P!AllocSum(tx)) /\ DOMAIN tx.allocs \subseteq {4}
  BY DEF Ripe, TokensFit
<1>9. w.pays /\ DOMAIN w.allocs \subseteq w.carriers
  BY <1>1, <1>2, <1>6, <1>8 DEF Spends, AllocsFit, Ripe, IsPsbt, IsMap
<1>10. P!TokenInputsResolve(i, w)
  BY <1>6, <1>7, <1>8 DEF P!TokenInputsResolve, Spends
<1>11. P!Atoms(i.utxos, P!LiveInputs(i, w)) = w.amount + P!Atoms(P!Created(w), DOMAIN P!Created(w))
  BY <1>6, <1>7, <1>8 DEF Spends, P!AllocSum
<1>12. P!RedeemValid(i, w)
  BY <1>1, <1>2, <1>3, <1>4, <1>5, <1>6, <1>8, <1>9, <1>10, <1>11 DEF P!RedeemValid
<1>13. op = P!Entry("REDEEM", w.token, b, P!SpentBy(i, w), P!Created(w))
  BY <1>1, <1>6, <1>12 DEF P!OpOf, P!DeployValid, P!TransferValid, P!MintValid
<1>14. /\ op.kind = "REDEEM" /\ op.token = tx.token /\ op.spent = P!SpentBy(i, w)
       /\ op.created = P!Created(tx)
  BY <1>6, <1>13, EntryIs
<1>15. DOMAIN op.spent = LiveOf(i, P!InputsOf(tx))
  BY <1>6, <1>14 DEF P!SpentBy
<1>16. /\ IsMap(P!Created(tx), Outpoint, Utxo)
       /\ \A o \in DOMAIN P!Created(tx) : o[1] = tx.id /\ P!Created(tx)[o].token = tx.token
       /\ \A o \in DOMAIN P!Created(tx) : \E v \in DOMAIN tx.allocs : o = <<tx.id, v>>
  <2>1. IsPsbt(tx)
    BY DEF Ripe
  <2> QED BY <2>1, CreatedIs
<1>17. \A o \in DOMAIN P!Created(tx) : o # <<tx.id, 1>>
  BY <1>8, <1>16
<1>18. P!NextSupply(i, w, op) = n
  BY <1>1, <1>4, <1>6, <1>14 DEF P!NextSupply
<1>19. AfterTx(tx) \in Backing
  <2>1. tx.id \in Fresh /\ tx.amount \in Amount
    BY DEF Ripe, IsPsbt
  <2>2. n \in 0 .. MaxSupply
    <3>1. b.supply \in 0 .. MaxSupply /\ tx.amount <= b.supply
      BY <1>3 DEF P!RedeemAllowed, P!ValidateState
    <3>2. tx.amount \in Nat /\ MaxSupply \in Nat
      BY <2>1, RulesAssumption DEF Amount
    <3> QED BY <1>4, <3>1, <3>2
  <2> QED BY <1>5, <2>1, <2>2, SuccessorType
<1> QED BY <1>5, <1>14, <1>15, <1>16, <1>17, <1>18, <1>19 DEF OpFits

(* applyTx on a transfer whose carriers are live.                          *)
LEMMA TransferOp ==
  ASSUME P!Sound, NEW tx, NEW i, NEW m, Ripe(tx, i, m), tx.kind = "TRANSFER",
         NEW w, w = P!ForIndex(tx, i), NEW op, op = P!OpOf(i, w)
  PROVE  OpFits(tx, i, w, op)
<1>1. /\ Spends(tx, i, P!InputsOf(tx), P!AllocSum(tx)) /\ P!HasEnvelope(tx)
      /\ tx.token \in DOMAIN i.backing /\ IsPsbt(tx)
  BY DEF Ripe, TokensFit
<1>2. /\ w.id = tx.id /\ w.kind = tx.kind /\ w.token = tx.token /\ w.allocs = tx.allocs
      /\ w.carriers = {v \in Vout : P!CarriesTokens(P!OutAt(tx, v))}
      /\ P!Created(w) = P!Created(tx)
      /\ P!LiveInputs(i, w) = LiveOf(i, P!InputsOf(tx))
  <2>1. Seen(tx, i, w)
    BY <1>1, ForIndexIs
  <2> QED BY <2>1 DEF Seen
<1>3. DOMAIN w.allocs \subseteq w.carriers
  BY <1>1, <1>2 DEF Spends, AllocsFit, IsPsbt, IsMap
<1>4. P!TokenInputsResolve(i, w)
  BY <1>1, <1>2 DEF P!TokenInputsResolve, Spends
<1>5. P!Atoms(i.utxos, P!LiveInputs(i, w)) = P!Atoms(P!Created(w), DOMAIN P!Created(w))
  BY <1>1, <1>2 DEF Spends, P!AllocSum
<1>6. P!TransferValid(i, w)
  BY <1>1, <1>2, <1>3, <1>4, <1>5 DEF P!TransferValid
<1>7. op = P!Entry("TRANSFER", w.token, P!NoBacking, P!SpentBy(i, w), P!Created(w))
  BY <1>2, <1>6 DEF P!OpOf, P!DeployValid, P!MintValid, P!RedeemValid
<1>8. /\ op.kind = "TRANSFER" /\ op.token = tx.token /\ op.spent = P!SpentBy(i, w)
      /\ op.created = P!Created(tx)
  BY <1>2, <1>7, EntryIs
<1>9. DOMAIN op.spent = LiveOf(i, P!InputsOf(tx))
  BY <1>2, <1>8 DEF P!SpentBy
<1>10. /\ IsMap(P!Created(tx), Outpoint, Utxo)
       /\ \A o \in DOMAIN P!Created(tx) : o[1] = tx.id /\ P!Created(tx)[o].token = tx.token
  BY <1>1, CreatedIs
<1> QED BY <1>8, <1>9, <1>10 DEF OpFits

(* Nothing a transaction spends is its own.                                *)
LEMMA InputsOld ==
  ASSUME P!Sound, NEW tx, NEW i, NEW m, Ripe(tx, i, m), NEW o \in P!InputsOf(tx)
  PROVE  o[1] # tx.id
<1>1. PICK x : x = o[1]
  OBVIOUS
<1>2. tx.id \in Fresh \ MinedIds(m) /\ PathIndex(i, m)
  BY DEF Ripe, IsPsbt
<1>3. \A c \in P!CoinOuts : c[1] \notin Fresh
  BY DEF P!Sound
<1>4. \A c \in DOMAIN i.utxos : c[1] # tx.id
  BY <1>2 DEF PathIndex
<1>5. \A t \in DOMAIN i.backing : i.backing[t].out[1] # tx.id
  BY <1>2 DEF PathIndex
<1>6. CASE tx.kind \in VaultKinds
  <2>1. /\ \E S : tx.ins \in Seq(S)
        /\ tx.ins # <<>> /\ tx.token \in DOMAIN i.backing
        /\ Head(tx.ins).out = i.backing[tx.token].out
    BY <1>6 DEF Ripe, IsPsbt, Fits
  <2>2. P!InputsOf(tx) = {Head(tx.ins).out} \cup Others(tx)
    BY <2>1, InputsAre
  <2>3. Others(tx) \subseteq P!CoinOuts \cup DOMAIN i.utxos
    BY <1>6 DEF Ripe, TokensFit, Spends, LiveOf, VaultKinds
  <2> QED BY <1>2, <1>3, <1>4, <1>5, <2>1, <2>2, <2>3
<1>7. CASE tx.kind \notin VaultKinds
  <2>1. tx.kind \in {"DEPLOY", "TRANSFER"}
    BY <1>7 DEF Ripe, IsPsbt
  <2>2. P!InputsOf(tx) \subseteq P!CoinOuts \cup DOMAIN i.utxos
    BY <2>1 DEF Ripe, TokensFit, Spends, LiveOf
  <2> QED BY <1>2, <1>3, <1>4, <2>2
<1> QED BY <1>6, <1>7

(* The index applies a ripe transaction as the operation it is, and burns  *)
(* nothing.                                                                *)
LEMMA RipeApplied ==
  ASSUME P!Sound, NEW tx, NEW i, NEW m, Ripe(tx, i, m),
         NEW r, r = P!ApplyTx(i, P!ForIndex(tx, i))
  PROVE  r.op.kind = tx.kind /\ DOMAIN r.burned = {} /\ Applied(tx, i, r.state)
<1>1. PICK w : w = P!ForIndex(tx, i)
  OBVIOUS
<1>2. PICK op : op = P!OpOf(i, w)
  OBVIOUS
<1>3. OpFits(tx, i, w, op)
  <2>1. tx.kind \in VaultKinds \cup {"DEPLOY", "TRANSFER"}
    BY DEF Ripe, IsPsbt
  <2>2. CASE tx.kind = "DEPLOY"
    BY <1>1, <1>2, <2>2, DeployOp
  <2>3. CASE tx.kind = "MINT"
    BY <1>1, <1>2, <2>3, MintOp
  <2>4. CASE tx.kind = "REDEEM"
    BY <1>1, <1>2, <2>4, RedeemOp
  <2>5. CASE tx.kind = "TRANSFER"
    BY <1>1, <1>2, <2>5, TransferOp
  <2> QED BY <2>1, <2>2, <2>3, <2>4, <2>5 DEF VaultKinds
<1>4. w.ins = P!InputsOf(tx) /\ w.id = tx.id
  BY <1>1 DEF P!ForIndex
<1>5. PICK B : B = IF P!MovesBacking(op)
                   THEN P!Put(i.backing, [t \in {op.token} |-> P!Successor(P!NextSupply(i, w, op), w.id)])
                   ELSE i.backing
  OBVIOUS
<1>6. PICK U : U = P!Put(P!Del(i.utxos, DOMAIN op.spent), op.created)
  OBVIOUS
<1>7. P!Perform(i, w, op) = [backing |-> B, utxos |-> U]
  BY <1>5, <1>6, Zenon DEF P!Perform
<1>8. PICK s1 : s1 = [backing |-> B, utxos |-> U]
  OBVIOUS
<1>9. PICK b : b = P!BurnOf(s1, w)
  OBVIOUS
<1>10. r = [state |-> P!Burn(s1, b), op |-> op, burned |-> b]
  BY <1>1, <1>2, <1>7, <1>8, <1>9, Zenon DEF P!ApplyTx
<1>11. r.state = P!Burn(s1, b) /\ r.op = op /\ r.burned = b
  BY <1>10
<1>12. /\ DOMAIN U = (DOMAIN i.utxos \ LiveOf(i, P!InputsOf(tx))) \cup DOMAIN op.created
       /\ \A o \in DOMAIN op.created : U[o] = op.created[o]
       /\ \A o \in DOMAIN i.utxos : o \in DOMAIN U /\ o \notin DOMAIN op.created => U[o] = i.utxos[o]
  BY <1>3, <1>6 DEF OpFits, P!Put, P!Del
<1>13. \A o \in DOMAIN op.created : o \notin P!InputsOf(tx) /\ o \notin DOMAIN i.utxos
  <2>1. \A o \in DOMAIN op.created : o[1] = tx.id
    BY <1>3 DEF OpFits
  <2>2. tx.id \in Fresh \ MinedIds(m)
    BY DEF Ripe, IsPsbt
  <2>3. \A o \in DOMAIN i.utxos : o[1] \notin Fresh \ MinedIds(m)
    BY DEF Ripe, PathIndex
  <2>4. \A o \in P!InputsOf(tx) : o[1] # tx.id
    BY InputsOld
  <2> QED BY <2>1, <2>2, <2>3, <2>4
<1>14. DOMAIN b = {}
  <2>1. DOMAIN b = {o \in DOMAIN U : o \in P!InputsOf(tx)}
    BY <1>4, <1>8, <1>9 DEF P!BurnOf, P!SpentBy, P!LiveInputs
  <2> QED BY <1>12, <1>13, <2>1 DEF LiveOf
<1>15. PICK j : j = r.state
  OBVIOUS
<1>16. U = [o \in DOMAIN U |-> U[o]]
  BY <1>6 DEF P!Put
<1>17. j = [backing |-> B, utxos |-> U]
  <2>1. PICK V : V = P!Del(U, DOMAIN b)
    OBVIOUS
  <2>2. j = [s1 EXCEPT !.utxos = V]
    BY <1>8, <1>11, <1>15, <2>1 DEF P!Burn
  <2>3. V = [o \in DOMAIN U |-> U[o]]
    BY <1>14, <2>1 DEF P!Del
  <2> QED BY <1>8, <1>16, <2>2, <2>3
<1>18. j.backing = B /\ j.utxos = U /\ j = [backing |-> j.backing, utxos |-> j.utxos]
  BY <1>17
<1>19. IsMap(U, Outpoint, Utxo)
  <2>1. IsMap(i.utxos, Outpoint, Utxo) /\ IsMap(op.created, Outpoint, Utxo)
    BY <1>3 DEF Ripe, PathIndex, OpFits
  <2>2. /\ DOMAIN U \subseteq DOMAIN i.utxos \cup DOMAIN op.created
        /\ IsFiniteSet(DOMAIN i.utxos \cup DOMAIN op.created)
    BY <1>12, <2>1, FS_Union DEF IsMap
  <2>3. IsFiniteSet(DOMAIN U)
    BY <2>2, FS_Subset
  <2>4. \A o \in DOMAIN U : U[o] \in Utxo /\ o \in Outpoint
    BY <1>12, <2>1 DEF IsMap
  <2> QED BY <1>16, <2>3, <2>4 DEF IsMap
<1>20. /\ DOMAIN i.utxos \ DOMAIN U = DOMAIN i.utxos \cap P!InputsOf(tx)
       /\ \A o \in DOMAIN i.utxos \cap DOMAIN U : U[o] = i.utxos[o]
       /\ DOMAIN U \ DOMAIN i.utxos = DOMAIN op.created
  BY <1>12, <1>13 DEF LiveOf
<1>21. \A o \in DOMAIN U \ DOMAIN i.utxos :
         /\ o[1] = tx.id /\ U[o].token = tx.token
         /\ tx.kind # "TRANSFER" => o # <<tx.id, 1>>
  BY <1>3, <1>12, <1>20 DEF OpFits
<1>22. tx.kind = "TRANSFER" => B = i.backing
  BY <1>3, <1>5 DEF OpFits, P!MovesBacking
<1>23. IsMap(i.backing, Token, Backing) /\ tx.token \in Token
  BY DEF Ripe, PathIndex, IsPsbt
<1>24. tx.kind # "TRANSFER" =>
         /\ DOMAIN B = DOMAIN i.backing \cup {tx.token}
         /\ B[tx.token] = AfterTx(tx)
         /\ \A t \in DOMAIN i.backing : t # tx.token => B[t] = i.backing[t]
         /\ IsMap(B, Token, Backing)
  <2> SUFFICES ASSUME tx.kind # "TRANSFER"
               PROVE  /\ DOMAIN B = DOMAIN i.backing \cup {tx.token}
                      /\ B[tx.token] = AfterTx(tx)
                      /\ \A t \in DOMAIN i.backing : t # tx.token => B[t] = i.backing[t]
                      /\ IsMap(B, Token, Backing)
    OBVIOUS
  <2>1. PICK a : a = AfterTx(tx)
    OBVIOUS
  <2>2. P!Successor(P!NextSupply(i, w, op), w.id) = a /\ a \in Backing /\ op.token = tx.token
    BY <1>3, <1>4, <2>1 DEF OpFits
  <2>3. P!MovesBacking(op)
    BY <1>3 DEF OpFits, P!MovesBacking, Ripe, IsPsbt, VaultKinds
  <2>4. B = P!Put(i.backing, [t \in {tx.token} |-> a])
    BY <1>5, <2>2, <2>3
  <2>5. B = PutAt(i.backing, tx.token, a)
    BY <2>4 DEF P!Put, PutAt
  <2>6. IsMap(B, Token, Backing)
    BY <1>23, <2>2, <2>5, PutKeyType
  <2>7. /\ DOMAIN B = DOMAIN i.backing \cup {tx.token} /\ B[tx.token] = a
        /\ \A t \in DOMAIN i.backing : t # tx.token => B[t] = i.backing[t]
    BY <2>5 DEF PutAt
  <2> QED BY <2>1, <2>6, <2>7
<1>25. IsMap(B, Token, Backing)
  BY <1>22, <1>23, <1>24
<1>26. Applied(tx, i, j)
  BY <1>18, <1>19, <1>20, <1>21, <1>22, <1>24, <1>25 DEF Applied, Made
<1>27. r.op.kind = tx.kind
  BY <1>3, <1>11 DEF OpFits
<1> QED BY <1>11, <1>14, <1>15, <1>26, <1>27

(* Mining one transaction leaves alone what does not spend its inputs.     *)
Mines(p, i, j, pl, sp, m, n) ==
  /\ PathIndex(i, m) /\ PoolInv(i, pl, sp, m) /\ p \in pl
  /\ Ripe(p.tx, i, m) /\ Applied(p.tx, i, j) /\ MinedIds(n) = MinedIds(m) \cup {p.tx.id}

(* What another transaction spends is still there.                         *)
LEMMA SpendsKept ==
  ASSUME P!Sound, NEW p, NEW i, NEW j, NEW pl, NEW sp, NEW m, NEW n, Mines(p, i, j, pl, sp, m, n),
         NEW tx, NEW S, NEW a, S \cap P!InputsOf(p.tx) = {}, Spends(tx, i, S, a)
  PROVE  Spends(tx, j, S, a)
<1>1. /\ DOMAIN i.utxos \ DOMAIN j.utxos = DOMAIN i.utxos \cap P!InputsOf(p.tx)
      /\ \A o \in DOMAIN i.utxos \cap DOMAIN j.utxos : j.utxos[o] = i.utxos[o]
      /\ \A o \in DOMAIN j.utxos : o \notin DOMAIN i.utxos => o[1] = p.tx.id
  BY DEF Mines, Applied, Made
<1>2. p.tx.id \in Fresh /\ \A c \in P!CoinOuts : c[1] \notin Fresh
  BY DEF Mines, Ripe, IsPsbt, P!Sound
<1>3. /\ S \subseteq P!CoinOuts \cup LiveOf(i, S) /\ LiveOf(i, S) # {}
      /\ \A o \in LiveOf(i, S) : i.utxos[o].token = tx.token
      /\ P!Atoms(i.utxos, LiveOf(i, S)) = a /\ AllocsFit(tx)
  BY DEF Spends
<1>4. LiveOf(j, S) = LiveOf(i, S)
  <2>1. LiveOf(i, S) \subseteq LiveOf(j, S)
    BY <1>1 DEF LiveOf
  <2>2. ASSUME NEW o \in LiveOf(j, S), o \notin LiveOf(i, S) PROVE FALSE
    <3>1. o \in S /\ o \in DOMAIN j.utxos /\ o \notin DOMAIN i.utxos
      BY <2>2 DEF LiveOf
    <3>2. o \in P!CoinOuts
      BY <1>3, <2>2, <3>1
    <3> QED BY <1>1, <1>2, <3>1, <3>2
  <2> QED BY <2>1, <2>2
<1>5. \A o \in LiveOf(i, S) : j.utxos[o] = i.utxos[o]
  BY <1>1, <1>4 DEF LiveOf
<1>6. P!Atoms(j.utxos, LiveOf(i, S)) = P!Atoms(i.utxos, LiveOf(i, S))
  BY <1>5, PathAtomsSame
<1> QED BY <1>3, <1>4, <1>5, <1>6 DEF Spends

(* So its carriers still fit.                                              *)
LEMMA TokensKept ==
  ASSUME P!Sound, NEW p, NEW i, NEW j, NEW pl, NEW sp, NEW m, NEW n, Mines(p, i, j, pl, sp, m, n),
         NEW tx, IsPsbt(tx), P!InputsOf(tx) \cap P!InputsOf(p.tx) = {}, TokensFit(tx, i)
  PROVE  TokensFit(tx, j)
<1>1. Others(tx) \cap P!InputsOf(p.tx) = {}
  <2>1. \E S : tx.ins \in Seq(S)
    BY DEF IsPsbt
  <2>2. Others(tx) \subseteq P!InputsOf(tx)
    BY <2>1, InputsAre
  <2> QED BY <2>2
<1>2. tx.kind = "REDEEM" => Spends(tx, j, Others(tx), tx.amount + P!AllocSum(tx))
  <2>1. ASSUME tx.kind = "REDEEM" PROVE Spends(tx, i, Others(tx), tx.amount + P!AllocSum(tx))
    BY <2>1 DEF TokensFit
  <2> QED BY <1>1, <2>1, SpendsKept
<1>3. tx.kind = "TRANSFER" => Spends(tx, j, P!InputsOf(tx), P!AllocSum(tx))
  <2>1. ASSUME tx.kind = "TRANSFER" PROVE Spends(tx, i, P!InputsOf(tx), P!AllocSum(tx))
    BY <2>1 DEF TokensFit
  <2> QED BY <2>1, SpendsKept
<1> QED BY <1>2, <1>3 DEF TokensFit

(* The vault another one spends is still a tip.                            *)
LEMMA TipKept ==
  ASSUME P!Sound, NEW p, NEW i, NEW j, NEW pl, NEW sp, NEW m, NEW n, Mines(p, i, j, pl, sp, m, n),
         NEW tx, IsPsbt(tx), P!InputsOf(tx) \cap P!InputsOf(p.tx) = {}, OnTip(tx, i, pl)
  PROVE  OnTip(tx, j, pl \ {p})
<1> SUFFICES ASSUME tx.kind \in VaultKinds
             PROVE  /\ tx.token \in DOMAIN j.backing
                    /\ \E b \in Tips(j, pl \ {p}, tx.token) : b.out[1] # tx.id /\ Fits(tx, b)
  BY DEF OnTip
<1> DEFINE t == tx.token
<1>1. PICK b \in Tips(i, pl, t) : b.out[1] # tx.id /\ Fits(tx, b)
  BY DEF OnTip
<1>2. t \in DOMAIN i.backing
  BY DEF OnTip
<1>3. /\ p.tx.kind = "TRANSFER" => j.backing = i.backing
      /\ p.tx.kind # "TRANSFER" =>
           /\ DOMAIN j.backing = DOMAIN i.backing \cup {p.tx.token}
           /\ j.backing[p.tx.token] = AfterTx(p.tx)
           /\ \A s \in DOMAIN i.backing : s # p.tx.token => j.backing[s] = i.backing[s]
  BY DEF Mines, Applied
<1>4. t \in DOMAIN j.backing
  BY <1>2, <1>3
<1>5. b = i.backing[t] \/ \E q \in Pending(pl, t) : b = AfterTx(q.tx)
  BY <1>1 DEF Tips
<1>6. CASE b = i.backing[t]
  <2>1. ASSUME p.tx.kind # "TRANSFER", p.tx.token = t PROVE FALSE
    <3>1. p.tx.kind \in VaultKinds
      BY <1>2, <2>1 DEF Mines, Ripe, IsPsbt
    <3>2. Head(p.tx.ins).out = b.out /\ p.tx.ins # <<>> /\ \E S : p.tx.ins \in Seq(S)
      BY <1>6, <2>1, <3>1 DEF Mines, Ripe, Fits, IsPsbt
    <3>3. Head(tx.ins).out = b.out /\ tx.ins # <<>> /\ \E S : tx.ins \in Seq(S)
      BY <1>1 DEF Fits, IsPsbt
    <3>4. b.out \in P!InputsOf(p.tx)
      BY <3>2, InputsAre
    <3>5. b.out \in P!InputsOf(tx)
      BY <3>3, InputsAre
    <3> QED BY <3>4, <3>5
  <2>2. j.backing[t] = b
    BY <1>2, <1>3, <1>6, <2>1
  <2> QED BY <1>1, <1>4, <2>2 DEF Tips
<1>7. CASE \E q \in Pending(pl, t) : b = AfterTx(q.tx)
  <2>1. PICK q \in Pending(pl, t) : b = AfterTx(q.tx)
    BY <1>7
  <2>2. CASE q = p
    <3>1. p.tx.kind # "TRANSFER" /\ p.tx.token = t
      BY <2>1, <2>2 DEF Pending, VaultKinds
    <3>2. j.backing[t] = b
      BY <1>3, <2>1, <2>2, <3>1
    <3> QED BY <1>1, <1>4, <3>2 DEF Tips
  <2>3. CASE q # p
    <3>1. q \in Pending(pl \ {p}, t)
      BY <2>1, <2>3 DEF Pending
    <3>2. b \in Tips(j, pl \ {p}, t)
      BY <2>1, <3>1 DEF Tips
    <3> QED BY <1>1, <1>4, <3>2
  <2> QED BY <2>2, <2>3
<1> QED BY <1>5, <1>6, <1>7

(* The index stays apart from what is not mined.                           *)
LEMMA IndexKept ==
  ASSUME P!Sound, NEW p, NEW i, NEW j, NEW pl, NEW sp, NEW m, NEW n, Mines(p, i, j, pl, sp, m, n)
  PROVE  PathIndex(j, n)
<1> DEFINE tx == p.tx
<1>1. PathIndex(i, m) /\ Ripe(tx, i, m) /\ Applied(tx, i, j) /\ MinedIds(n) = MinedIds(m) \cup {tx.id}
  BY DEF Mines
<1>2. tx.id \in Fresh \ MinedIds(m) /\ tx.token \in Token
  BY <1>1 DEF Ripe, IsPsbt
<1>3. /\ IsMap(j.backing, Token, Backing) /\ IsMap(j.utxos, Outpoint, Utxo)
      /\ j = [backing |-> j.backing, utxos |-> j.utxos]
  BY <1>1, Zenon DEF Applied
<1>4. /\ DOMAIN i.backing \subseteq DOMAIN j.backing
      /\ tx.token \in DOMAIN j.backing
  BY <1>1 DEF Applied, Ripe, IsPsbt
<1>5. ASSUME NEW o \in DOMAIN j.utxos
      PROVE  /\ o[1] \notin Fresh \ MinedIds(n) /\ o \notin P!CoinOuts
             /\ j.utxos[o].token \in DOMAIN j.backing
  <2>1. CASE o \in DOMAIN i.utxos
    <3>1. j.utxos[o] = i.utxos[o]
      BY <1>1, <1>5, <2>1 DEF Applied
    <3> QED BY <1>1, <1>4, <2>1, <3>1 DEF PathIndex
  <2>2. CASE o \notin DOMAIN i.utxos
    <3>1. o[1] = tx.id /\ j.utxos[o].token = tx.token
      BY <1>1, <1>5, <2>2 DEF Applied, Made
    <3>2. \A c \in P!CoinOuts : c[1] \notin Fresh
      BY DEF P!Sound
    <3> QED BY <1>1, <1>2, <1>4, <3>1, <3>2
  <2> QED BY <2>1, <2>2
<1>6. ASSUME NEW t \in DOMAIN j.backing
      PROVE  /\ j.backing[t].out[1] \notin Fresh \ MinedIds(n)
             /\ j.backing[t].out \notin DOMAIN j.utxos
  <2>1. CASE tx.kind # "TRANSFER" /\ t = tx.token
    <3>1. j.backing[t] = AfterTx(tx)
      BY <1>1, <2>1 DEF Applied
    <3>2. j.backing[t].out = <<tx.id, 1>> /\ j.backing[t].out[1] = tx.id
      BY <3>1, AfterIs
    <3>3. \A o \in DOMAIN i.utxos : o[1] \notin Fresh \ MinedIds(m)
      BY <1>1 DEF PathIndex
    <3>4. \A o \in DOMAIN j.utxos : o \notin DOMAIN i.utxos => o # <<tx.id, 1>>
      BY <1>1, <2>1 DEF Applied, Made
    <3>5. PICK x : x = j.backing[t].out
      OBVIOUS
    <3>6. x \notin DOMAIN j.utxos
      BY <1>2, <3>2, <3>3, <3>4, <3>5
    <3> QED BY <1>1, <3>2, <3>5, <3>6
  <2>2. CASE ~(tx.kind # "TRANSFER" /\ t = tx.token)
    <3>1. t \in DOMAIN i.backing /\ j.backing[t] = i.backing[t]
      BY <1>1, <1>6, <2>2 DEF Applied
    <3>2. PICK x : x = i.backing[t].out
      OBVIOUS
    <3>3. x[1] \notin Fresh \ MinedIds(m) /\ x \notin DOMAIN i.utxos
      BY <1>1, <3>1, <3>2 DEF PathIndex
    <3>4. \A o \in DOMAIN j.utxos : o \notin DOMAIN i.utxos => o[1] = tx.id
      BY <1>1 DEF Applied, Made
    <3>5. x \notin DOMAIN j.utxos
      BY <1>2, <3>3, <3>4
    <3> QED BY <1>1, <3>1, <3>2, <3>3, <3>5
  <2> QED BY <2>1, <2>2
<1> QED BY <1>3, <1>5, <1>6 DEF PathIndex

(* The tokens of the index only grow, by the one just launched.            *)
LEMMA TokensGrow ==
  ASSUME NEW p, NEW i, NEW j, NEW pl, NEW sp, NEW m, NEW n, Mines(p, i, j, pl, sp, m, n)
  PROVE  /\ DOMAIN i.backing \subseteq DOMAIN j.backing
         /\ \A t \in DOMAIN j.backing :
              t \in DOMAIN i.backing \/ (p.tx.kind = "DEPLOY" /\ t = p.tx.token)
<1>1. /\ p.tx.kind = "TRANSFER" => j.backing = i.backing
      /\ p.tx.kind # "TRANSFER" => DOMAIN j.backing = DOMAIN i.backing \cup {p.tx.token}
  BY DEF Mines, Applied
<1>2. /\ p.tx.kind \in VaultKinds => p.tx.token \in DOMAIN i.backing
      /\ p.tx.kind \in VaultKinds \cup {"DEPLOY", "TRANSFER"}
  BY DEF Mines, Ripe, IsPsbt
<1> QED BY <1>1, <1>2

(* The rest of the mempool will still be applied.                          *)
LEMMA PoolKept ==
  ASSUME P!Sound, NEW p, NEW i, NEW j, NEW pl, NEW sp, NEW m, NEW n, Mines(p, i, j, pl, sp, m, n)
  PROVE  PoolInv(j, pl \ {p}, sp, n)
<1>1. PoolInv(i, pl, sp, m) /\ p \in pl /\ MinedIds(n) = MinedIds(m) \cup {p.tx.id}
  BY DEF Mines
<1>2. ASSUME NEW q \in pl \ {p} PROVE PoolTx(q.tx, j, pl \ {p}, sp, n)
  <2>1. /\ q \in pl /\ q # p /\ q.tx.id # p.tx.id
        /\ P!InputsOf(q.tx) \cap P!InputsOf(p.tx) = {}
        /\ p.tx.kind = "DEPLOY" /\ q.tx.kind = "DEPLOY" => p.tx.token # q.tx.token
    BY <1>1 DEF PoolInv
  <2>2. PoolTx(q.tx, i, pl, sp, m)
    BY <1>1, <2>1 DEF PoolInv
  <2>3. /\ IsPsbt(q.tx) /\ q.tx.id \notin MinedIds(m) /\ P!InputsOf(q.tx) \subseteq sp
        /\ OnTip(q.tx, i, pl) /\ TokensFit(q.tx, i)
        /\ q.tx.kind = "TRANSFER" => q.tx.token \in DOMAIN i.backing
        /\ q.tx.kind = "DEPLOY" =>
             q.tx.token \notin DOMAIN i.backing /\ P!validateFinalizedDeployTransaction(q.tx)
    BY <2>2 DEF PoolTx
  <2>4. OnTip(q.tx, j, pl \ {p})
    BY <2>1, <2>3, TipKept
  <2>5. TokensFit(q.tx, j)
    BY <2>1, <2>3, TokensKept
  <2>6. q.tx.id \notin MinedIds(n)
    BY <1>1, <2>1, <2>3
  <2>7. q.tx.kind = "TRANSFER" => q.tx.token \in DOMAIN j.backing
    BY <2>3, TokensGrow
  <2>8. q.tx.kind = "DEPLOY" => q.tx.token \notin DOMAIN j.backing
    BY <2>1, <2>3, TokensGrow
  <2> QED BY <2>3, <2>4, <2>5, <2>6, <2>7, <2>8 DEF PoolTx
<1> QED BY <1>1, <1>2 DEF PoolInv

(* So will the signed requests.                                            *)
LEMMA ReqKept ==
  ASSUME P!Sound, NEW p, NEW i, NEW j, NEW pl, NEW sp, NEW m, NEW n, Mines(p, i, j, pl, sp, m, n),
         NEW r, ReqTx(r, i, pl, sp, m)
  PROVE  ReqTx(r, j, pl \ {p}, sp, n)
<1>1. PoolInv(i, pl, sp, m) /\ p \in pl /\ MinedIds(n) = MinedIds(m) \cup {p.tx.id}
  BY DEF Mines
<1>2. P!InputsOf(p.tx) \subseteq sp
  BY <1>1 DEF PoolInv, PoolTx
<1>3. /\ IsReq(r) /\ IsPsbt(r.tx) /\ r.tx.id \notin MinedIds(m)
      /\ \A q \in pl : q.tx.id # r.tx.id
      /\ Loose(r.tx, i, sp)
      /\ r.tx.kind # "TRANSFER" => r.fill = P!NoFill
      /\ r.tx.kind \notin VaultKinds => r.honest = TRUE
      /\ r.tx.kind = "DEPLOY" => \A q \in pl : q.tx.kind = "DEPLOY" => q.tx.token # r.tx.token
  BY DEF ReqTx
<1>4. r.tx.id \notin MinedIds(n)
  BY <1>1, <1>3
<1>5. /\ DOMAIN i.utxos \subseteq DOMAIN j.utxos \cup sp
      /\ \A o \in DOMAIN i.utxos \cap DOMAIN j.utxos : j.utxos[o] = i.utxos[o]
  BY <1>2 DEF Mines, Applied
<1>6. Loose(r.tx, j, sp)
  <2>1. r.tx.kind \in VaultKinds =>
          Others(r.tx) \subseteq P!CoinOuts \cup DOMAIN j.utxos \cup sp
    BY <1>3, <1>5 DEF Loose
  <2>2. r.tx.kind = "TRANSFER" =>
          /\ r.tx.token \in DOMAIN j.backing
          /\ \A o \in P!InputsOf(r.tx) :
               \/ o \in P!CoinOuts \cup sp
               \/ o \in DOMAIN j.utxos /\ j.utxos[o].token = r.tx.token
    BY <1>3, <1>5, TokensGrow DEF Loose
  <2>3. r.tx.kind = "DEPLOY" =>
          P!InputsOf(r.tx) \subseteq P!CoinOuts /\ r.tx.token \notin DOMAIN j.backing
    BY <1>1, <1>3, TokensGrow DEF Loose
  <2> QED BY <2>1, <2>2, <2>3 DEF Loose
<1>7. ASSUME r.phase = "signed", r.tx.kind \in VaultKinds, P!InputsOf(r.tx) \cap sp = {}
      PROVE  OnTip(r.tx, j, pl \ {p}) /\ TokensFit(r.tx, j)
  <2>1. OnTip(r.tx, i, pl) /\ TokensFit(r.tx, i)
    BY <1>7 DEF ReqTx
  <2>2. P!InputsOf(r.tx) \cap P!InputsOf(p.tx) = {}
    BY <1>2, <1>7
  <2>3. OnTip(r.tx, j, pl \ {p})
    BY <1>3, <2>1, <2>2, TipKept
  <2>4. TokensFit(r.tx, j)
    BY <1>3, <2>1, <2>2, TokensKept
  <2> QED BY <2>3, <2>4
<1> QED BY <1>3, <1>4, <1>6, <1>7 DEF ReqTx

(* A pool transaction whose inputs are all confirmed is ripe.              *)
LEMMA MinableIsRipe ==
  ASSUME NEW i, NEW pl, NEW sp, NEW m, PathIndex(i, m), PoolInv(i, pl, sp, m), NEW p \in pl,
         \A q \in pl \ {p} : \A o \in P!InputsOf(p.tx) : o[1] # q.tx.id
  PROVE  Ripe(p.tx, i, m)
<1> DEFINE tx == p.tx
<1>1. PoolTx(tx, i, pl, sp, m)
  BY DEF PoolInv
<1>2. ASSUME tx.kind \in VaultKinds
      PROVE  tx.token \in DOMAIN i.backing /\ Fits(tx, i.backing[tx.token])
  <2>1. OnTip(tx, i, pl) /\ IsPsbt(tx)
    BY <1>1 DEF PoolTx
  <2>2. PICK b \in Tips(i, pl, tx.token) : b.out[1] # tx.id /\ Fits(tx, b)
    BY <1>2, <2>1 DEF OnTip
  <2>3. tx.token \in DOMAIN i.backing
    BY <1>2, <2>1 DEF OnTip
  <2>4. ASSUME NEW q \in Pending(pl, tx.token), b = AfterTx(q.tx) PROVE FALSE
    <3>1. b.out[1] = q.tx.id
      BY <2>4, AfterIs
    <3>2. q \in pl /\ q # p
      BY <2>2, <2>4, <3>1 DEF Pending
    <3>3. Head(tx.ins).out = b.out /\ tx.ins # <<>> /\ \E S : tx.ins \in Seq(S)
      BY <1>2, <2>1, <2>2 DEF Fits, IsPsbt
    <3>4. b.out \in P!InputsOf(tx)
      BY <3>3, InputsAre
    <3> QED BY <3>1, <3>2, <3>4
  <2>5. b = i.backing[tx.token]
    BY <2>2, <2>4 DEF Tips
  <2> QED BY <2>2, <2>3, <2>5
<1>3. IsPsbt(tx) /\ tx.id \notin MinedIds(m) /\ TokensFit(tx, i)
  BY <1>1 DEF PoolTx
<1>4. /\ tx.kind = "TRANSFER" => tx.token \in DOMAIN i.backing
      /\ tx.kind = "DEPLOY" =>
           tx.token \notin DOMAIN i.backing /\ P!validateFinalizedDeployTransaction(tx)
  BY <1>1 DEF PoolTx
<1> QED BY <1>2, <1>3, <1>4 DEF Ripe

(* A transaction is mined and applied.                                     *)
LEMMA MinePath ==
  ASSUME P!Sound, PathInv, NEW p \in pool, P!MineTx(p)
  PROVE  PathInv'
<1>1. PICK r : r = P!ApplyTx(idx, P!ForIndex(p.tx, idx))
  OBVIOUS
<1>2. PICK x : x = [id |-> p.tx.id, kind |-> p.tx.kind, did |-> r.op.kind,
                    burned |-> DOMAIN r.burned # {}]
  OBVIOUS
<1>3. /\ \A q \in pool \ {p} : \A o \in P!InputsOf(p.tx) : o[1] # q.tx.id
      /\ idx' = r.state /\ DOMAIN own' = DOMAIN r.state.utxos
      /\ pool' = pool \ {p} /\ mined' = mined \cup {x} /\ spent' = spent /\ req' = req
  BY <1>1, <1>2 DEF P!MineTx
<1>4. PathIndex(idx, mined) /\ PoolInv(idx, pool, spent, mined)
  BY DEF PathInv
<1>5. Ripe(p.tx, idx, mined)
  BY <1>3, <1>4, MinableIsRipe
<1>6. r.op.kind = p.tx.kind /\ DOMAIN r.burned = {} /\ Applied(p.tx, idx, r.state)
  BY <1>1, <1>5, RipeApplied
<1>7. PICK j : j = r.state
  OBVIOUS
<1>8. PICK n : n = mined \cup {x}
  OBVIOUS
<1>9. MinedIds(n) = MinedIds(mined) \cup {p.tx.id}
  BY <1>2, <1>8 DEF MinedIds
<1>10. Mines(p, idx, j, pool, spent, mined, n)
  BY <1>4, <1>5, <1>6, <1>7, <1>9 DEF Mines
<1>11. PathIndex(j, n)
  BY <1>10, IndexKept
<1>12. PoolInv(j, pool \ {p}, spent, n)
  BY <1>10, PoolKept
<1>13. ReqInv(req, j, pool \ {p}, spent, n)
  <2>1. ReqInv(req, idx, pool, spent, mined)
    BY DEF PathInv
  <2>2. \A u \in User : req[u].phase # "idle" => ReqTx(req[u], idx, pool, spent, mined)
    BY <2>1 DEF ReqInv
  <2>3. ASSUME NEW u \in User, req[u].phase # "idle" PROVE ReqTx(req[u], j, pool \ {p}, spent, n)
    <3>1. PICK q : q = req[u]
      OBVIOUS
    <3>2. ReqTx(q, idx, pool, spent, mined)
      BY <2>2, <2>3, <3>1
    <3>3. ReqTx(q, j, pool \ {p}, spent, n)
      BY <1>10, <3>2, ReqKept
    <3> QED BY <3>1, <3>3
  <2> QED BY <2>1, <2>3 DEF ReqInv
<1>14. \A y \in n : y.did = y.kind /\ ~y.burned
  <2>1. x.did = x.kind
    BY <1>2, <1>6
  <2>2. PICK v \in BOOLEAN : v = (DOMAIN r.burned # {})
    BY Zenon
  <2>3. x.burned = v
    BY <1>2, <2>2, Zenon
  <2>4. ~x.burned
    BY <1>6, <2>2, <2>3, Zenon
  <2>5. \A y \in mined : y.did = y.kind /\ ~y.burned
    BY Zenon DEF PathInv, P!SignedIsApplied
  <2> QED BY <1>8, <2>1, <2>4, <2>5, Zenon
<1>15. idx' = j /\ mined' = n /\ DOMAIN own' = DOMAIN j.utxos
  BY <1>3, <1>7, <1>8
<1>16. P!SignedIsApplied'
  BY <1>14, <1>15 DEF P!SignedIsApplied
<1>17. PathIndex(idx', mined') /\ DOMAIN own' = DOMAIN idx'.utxos
  BY <1>11, <1>15
<1>18. PoolInv(idx', pool', spent', mined')
  BY <1>3, <1>12, <1>15
<1>19. ReqInv(req', idx', pool', spent', mined')
  BY <1>3, <1>13, <1>15
<1> QED BY <1>16, <1>17, <1>18, <1>19 DEF PathInv

-----------------------------------------------------------------------------
(* Requests change one at a time.                                          *)
LEMMA ReqPut ==
  ASSUME NEW rq, NEW i, NEW pl, NEW sp, NEW m, ReqInv(rq, i, pl, sp, m), NEW u \in User, NEW q,
         q.phase \in Phases,
         q.phase # "idle" =>
           /\ ReqTx(q, i, pl, sp, m)
           /\ q.tx.kind = "DEPLOY" => Maker[q.tx.token] = u
           /\ \A w \in User : w # u /\ rq[w].phase # "idle" => rq[w].tx.id # q.tx.id
  PROVE  ReqInv([rq EXCEPT ![u] = q], i, pl, sp, m)
<1>1. PICK s : s = [rq EXCEPT ![u] = q]
  OBVIOUS
<1>2. rq \in [User -> {rq[w] : w \in User}]
  BY DEF ReqInv
<1>3. s[u] = q /\ \A w \in User : w # u => s[w] = rq[w]
  BY <1>1, <1>2
<1>4. s \in [User -> {s[w] : w \in User}]
  BY <1>1, <1>2
<1>5. ASSUME NEW w \in User
      PROVE  /\ s[w].phase \in Phases
             /\ s[w].phase # "idle" =>
                  /\ ReqTx(s[w], i, pl, sp, m)
                  /\ s[w].tx.kind = "DEPLOY" => Maker[s[w].tx.token] = w
                  /\ \A v \in User : v # w /\ s[v].phase # "idle" => s[v].tx.id # s[w].tx.id
  <2>1. CASE w = u
    BY <1>3, <2>1
  <2>2. CASE w # u
    <3>1. PICK x : x = rq[w]
      OBVIOUS
    <3>2. s[w] = x
      BY <1>3, <2>2, <3>1
    <3>3. /\ x.phase \in Phases
          /\ x.phase # "idle" =>
               /\ ReqTx(x, i, pl, sp, m)
               /\ x.tx.kind = "DEPLOY" => Maker[x.tx.token] = w
               /\ \A v \in User : v # w /\ rq[v].phase # "idle" => rq[v].tx.id # x.tx.id
      BY <3>1 DEF ReqInv
    <3>4. x.phase # "idle" =>
            \A v \in User : v # w /\ s[v].phase # "idle" => s[v].tx.id # x.tx.id
      BY <1>3, <2>2, <3>1, <3>3
    <3> QED BY <3>2, <3>3, <3>4
  <2> QED BY <2>1, <2>2
<1>6. ReqInv(s, i, pl, sp, m)
  BY <1>4, <1>5 DEF ReqInv
<1> QED BY <1>1, <1>6

(* A step that changes one request and nothing else.                       *)
LEMMA ReqStep ==
  ASSUME PathInv, NEW u \in User, NEW q,
         req' = [req EXCEPT ![u] = q], UNCHANGED <<idx, own, pool, spent, mined>>,
         q.phase \in Phases,
         q.phase # "idle" =>
           /\ ReqTx(q, idx, pool, spent, mined)
           /\ q.tx.kind = "DEPLOY" => Maker[q.tx.token] = u
           /\ \A w \in User : w # u /\ req[w].phase # "idle" => req[w].tx.id # q.tx.id
  PROVE  PathInv'
<1>1. idx' = idx /\ own' = own /\ pool' = pool /\ spent' = spent /\ mined' = mined
  OBVIOUS
<1>2. PICK s : s = [req EXCEPT ![u] = q]
  OBVIOUS
<1>3. ReqInv(req, idx, pool, spent, mined)
  BY DEF PathInv
<1>4. ReqInv(s, idx, pool, spent, mined)
  BY <1>2, <1>3, ReqPut
<1>5. req' = s
  BY <1>2
<1>6. ReqInv(req', idx', pool', spent', mined')
  BY <1>1, <1>4, <1>5
<1>7. PathIndex(idx', mined') /\ DOMAIN own' = DOMAIN idx'.utxos
  BY <1>1 DEF PathInv
<1>8. PoolInv(idx', pool', spent', mined')
  BY <1>1 DEF PathInv
<1>9. P!SignedIsApplied'
  BY <1>1 DEF PathInv, P!SignedIsApplied
<1> QED BY <1>6, <1>7, <1>8, <1>9 DEF PathInv

(* The parts of a request that is not idle.                                *)
LEMMA ReqIs ==
  ASSUME PathInv, NEW u \in User, NEW q, q = req[u], q.phase # "idle"
  PROVE  /\ ReqTx(q, idx, pool, spent, mined)
         /\ q.tx.kind = "DEPLOY" => Maker[q.tx.token] = u
         /\ \A w \in User : w # u /\ req[w].phase # "idle" => req[w].tx.id # q.tx.id
  BY DEF PathInv, ReqInv

(* A request that only changes its phase, and may be in the new one.       *)
Rephase(q, ph) == [q EXCEPT !.phase = ph]
MayBe(ph, q, i, pl, sp) ==
  ph = "signed" /\ q.tx.kind \in VaultKinds /\ P!InputsOf(q.tx) \cap sp = {} =>
    OnTip(q.tx, i, pl) /\ TokensFit(q.tx, i)
(* It is the same request otherwise.                                       *)
LEMMA Rephased ==
  ASSUME NEW q, NEW i, NEW pl, NEW sp, NEW m, ReqTx(q, i, pl, sp, m), NEW ph,
         NEW r, r = Rephase(q, ph), MayBe(ph, q, i, pl, sp)
  PROVE  ReqTx(r, i, pl, sp, m) /\ r.phase = ph /\ r.tx = q.tx
<1>1. q = [phase |-> q.phase, tx |-> q.tx, honest |-> q.honest, intent |-> q.intent,
           fill |-> q.fill, checked |-> q.checked, stop |-> q.stop]
  BY DEF ReqTx, IsReq
<1>2. r = [phase |-> ph, tx |-> q.tx, honest |-> q.honest, intent |-> q.intent,
           fill |-> q.fill, checked |-> q.checked, stop |-> q.stop]
  BY <1>1 DEF Rephase
<1>3. r.phase = ph /\ r.tx = q.tx /\ r.honest = q.honest /\ r.fill = q.fill /\ IsReq(r)
  BY <1>2 DEF IsReq
<1> QED BY <1>3 DEF ReqTx, MayBe

(* A step that changes the phase of a request alone.                       *)
LEMMA PhaseStep ==
  ASSUME PathInv, NEW u \in User, req[u].phase # "idle", NEW ph \in Phases,
         req' = [req EXCEPT ![u] = Rephase(req[u], ph)],
         UNCHANGED <<idx, own, pool, spent, mined>>, MayBe(ph, req[u], idx, pool, spent)
  PROVE  PathInv'
<1>1. PICK q : q = req[u]
  OBVIOUS
<1>2. PICK r : r = Rephase(q, ph)
  OBVIOUS
<1>3. /\ ReqTx(q, idx, pool, spent, mined)
      /\ q.tx.kind = "DEPLOY" => Maker[q.tx.token] = u
      /\ \A w \in User : w # u /\ req[w].phase # "idle" => req[w].tx.id # q.tx.id
  BY <1>1, ReqIs
<1>4. MayBe(ph, q, idx, pool, spent)
  BY <1>1
<1>5. ReqTx(r, idx, pool, spent, mined) /\ r.phase = ph /\ r.tx = q.tx
  BY <1>2, <1>3, <1>4, Rephased
<1>6. req' = [req EXCEPT ![u] = r]
  BY <1>1, <1>2
<1>7. r.phase \in Phases
  BY <1>5
<1>8. /\ ReqTx(r, idx, pool, spent, mined)
      /\ r.tx.kind = "DEPLOY" => Maker[r.tx.token] = u
      /\ \A w \in User : w # u /\ req[w].phase # "idle" => req[w].tx.id # r.tx.id
  BY <1>3, <1>5
<1> QED BY <1>6, <1>7, <1>8, ReqStep

-----------------------------------------------------------------------------
(* A broadcast adds a transaction and the outputs it spends.               *)
LEMMA TipsGrow ==
  ASSUME NEW i, NEW pl, NEW e, NEW tx, OnTip(tx, i, pl)
  PROVE  OnTip(tx, i, pl \cup {e})
<1>1. Tips(i, pl, tx.token) \subseteq Tips(i, pl \cup {e}, tx.token)
  BY DEF Tips, Pending
<1> QED BY <1>1 DEF OnTip

(* The mempool takes it if nothing collides.                               *)
LEMMA PoolGrows ==
  ASSUME NEW i, NEW pl, NEW sp, NEW m, PoolInv(i, pl, sp, m), NEW e, NEW tx, tx = e.tx,
         NEW s, s = sp \cup P!InputsOf(tx),
         PoolTx(tx, i, pl, s, m), P!InputsOf(tx) \cap sp = {},
         \A p \in pl : p.tx.id # tx.id /\
           (p.tx.kind = "DEPLOY" /\ tx.kind = "DEPLOY" => p.tx.token # tx.token)
  PROVE  PoolInv(i, pl \cup {e}, s, m)
<1>1. ASSUME NEW p \in pl \cup {e} PROVE PoolTx(p.tx, i, pl \cup {e}, s, m)
  <2>1. PoolTx(p.tx, i, pl, s, m)
    BY DEF PoolInv, PoolTx
  <2>2. OnTip(p.tx, i, pl \cup {e})
    BY <2>1, TipsGrow DEF PoolTx
  <2> QED BY <2>1, <2>2 DEF PoolTx
<1>2. \A p \in pl : P!InputsOf(p.tx) \subseteq sp
  BY DEF PoolInv, PoolTx
<1>3. \A p \in pl : P!InputsOf(p.tx) \cap P!InputsOf(e.tx) = {}
  BY <1>2
<1>4. ASSUME NEW p \in pl \cup {e}, NEW q \in pl \cup {e}, p # q
      PROVE  /\ p.tx.id # q.tx.id /\ P!InputsOf(p.tx) \cap P!InputsOf(q.tx) = {}
             /\ p.tx.kind = "DEPLOY" /\ q.tx.kind = "DEPLOY" => p.tx.token # q.tx.token
  <2>1. CASE p \in pl /\ q \in pl
    BY <1>4, <2>1 DEF PoolInv
  <2>2. CASE p \in pl /\ q = e
    BY <1>3, <2>2
  <2>3. CASE p = e /\ q \in pl
    BY <1>3, <2>3
  <2> QED BY <1>4, <2>1, <2>2, <2>3
<1> QED BY <1>1, <1>4 DEF PoolInv

(* The other requests are not disturbed.                                   *)
LEMMA ReqGrows ==
  ASSUME NEW i, NEW pl, NEW sp, NEW m, NEW r, ReqTx(r, i, pl, sp, m), NEW e, NEW tx, tx = e.tx,
         NEW s, s = sp \cup P!InputsOf(tx), r.tx.id # tx.id,
         r.tx.kind = "DEPLOY" /\ tx.kind = "DEPLOY" => r.tx.token # tx.token
  PROVE  ReqTx(r, i, pl \cup {e}, s, m)
<1>1. /\ IsReq(r) /\ IsPsbt(r.tx) /\ r.tx.id \notin MinedIds(m)
      /\ \A p \in pl : p.tx.id # r.tx.id
      /\ Loose(r.tx, i, sp)
      /\ r.tx.kind # "TRANSFER" => r.fill = P!NoFill
      /\ r.tx.kind \notin VaultKinds => r.honest = TRUE
      /\ r.tx.kind = "DEPLOY" => \A p \in pl : p.tx.kind = "DEPLOY" => p.tx.token # r.tx.token
  BY DEF ReqTx
<1>2. Loose(r.tx, i, s)
  BY <1>1 DEF Loose
<1>3. \A p \in pl \cup {e} : p.tx.id # r.tx.id
  BY <1>1
<1>4. r.tx.kind = "DEPLOY" => \A p \in pl \cup {e} : p.tx.kind = "DEPLOY" => p.tx.token # r.tx.token
  BY <1>1
<1>5. ASSUME r.phase = "signed", r.tx.kind \in VaultKinds, P!InputsOf(r.tx) \cap s = {}
      PROVE  OnTip(r.tx, i, pl \cup {e}) /\ TokensFit(r.tx, i)
  <2>1. OnTip(r.tx, i, pl) /\ TokensFit(r.tx, i)
    BY <1>5 DEF ReqTx
  <2> QED BY <2>1, TipsGrow
<1> QED BY <1>1, <1>2, <1>3, <1>4, <1>5 DEF ReqTx

(* What the app broadcasts, and what another client does.                  *)
LEMMA SentFits ==
  ASSUME PathInv, NEW q, NEW u \in User, q = req[u], q.phase = "signed",
         P!InputsOf(q.tx) \cap spent = {}, NEW v, v = P!View(q.tx.token, q.stop),
         (IF q.fill = P!NoFill THEN P!Finalized(q.tx, v)
          ELSE P!validateFinalizedP2PFill(q.tx, v, q.fill)) \/ ~q.honest,
         NEW s, s = spent \cup P!InputsOf(q.tx)
  PROVE  PoolTx(q.tx, idx, pool, s, mined)
<1> DEFINE tx == q.tx
<1>0. q.phase # "idle"
  OBVIOUS
<1>1. ReqTx(q, idx, pool, spent, mined)
  BY <1>0, ReqIs
<1>2. /\ IsPsbt(tx) /\ tx.id \notin MinedIds(mined) /\ Loose(tx, idx, spent)
      /\ tx.kind # "TRANSFER" => q.fill = P!NoFill
      /\ tx.kind \notin VaultKinds => q.honest = TRUE
  BY <1>1 DEF ReqTx
<1>3. PathIndex(idx, mined)
  BY DEF PathInv
<1>4. tx.kind \in VaultKinds \cup {"DEPLOY", "TRANSFER"}
  BY <1>2 DEF IsPsbt
<1>5. CASE tx.kind \in VaultKinds
  <2>1. OnTip(tx, idx, pool) /\ TokensFit(tx, idx)
    BY <1>1, <1>5 DEF ReqTx
  <2>2. tx.kind # "TRANSFER" /\ tx.kind # "DEPLOY"
    BY <1>5 DEF VaultKinds
  <2> QED BY <1>2, <2>1, <2>2 DEF PoolTx
<1>6. CASE tx.kind = "TRANSFER"
  <2>1. tx.kind \notin VaultKinds
    BY <1>6 DEF VaultKinds
  <2>2. IF q.fill = P!NoFill THEN P!Finalized(tx, v) ELSE P!validateFinalizedP2PFill(tx, v, q.fill)
    BY <1>2, <2>1
  <2>3. P!Finalized(tx, v) => P!validateFinalizedTransferTransaction(tx, v)
    BY <1>6 DEF P!Finalized
  <2>4. P!validateFinalizedP2PFill(tx, v, q.fill) => P!validateFinalizedTransferTransaction(tx, v)
    BY Zenon DEF P!validateFinalizedP2PFill
  <2>5. P!validateFinalizedTransferTransaction(tx, v)
    BY <2>2, <2>3, <2>4
  <2>6. TokensFit(tx, idx)
    BY <1>2, <1>3, <1>6, <2>5, TransferFinal
  <2>7. OnTip(tx, idx, pool)
    BY <2>1 DEF OnTip
  <2>8. tx.token \in DOMAIN idx.backing
    BY <1>2, <1>6 DEF Loose
  <2> QED BY <1>2, <1>6, <2>6, <2>7, <2>8 DEF PoolTx
<1>7. CASE tx.kind = "DEPLOY"
  <2>1. tx.kind \notin VaultKinds
    BY <1>7 DEF VaultKinds
  <2>2. P!Finalized(tx, v)
    BY <1>2, <1>7, <2>1
  <2>3. P!validateFinalizedDeployTransaction(tx)
    BY <1>7, <2>2 DEF P!Finalized
  <2>4. TokensFit(tx, idx) /\ tx.token \notin DOMAIN idx.backing
    BY <1>2, <1>7 DEF TokensFit, Loose
  <2>5. OnTip(tx, idx, pool)
    BY <2>1 DEF OnTip
  <2> QED BY <1>2, <1>7, <2>3, <2>4, <2>5 DEF PoolTx
<1> QED BY <1>4, <1>5, <1>6, <1>7

(* A broadcast that Bitcoin accepts.                                       *)
LEMMA SendPath ==
  ASSUME PathInv, NEW q, NEW u \in User, q = req[u], q.phase = "signed",
         P!InputsOf(q.tx) \cap spent = {}, NEW s, s = spent \cup P!InputsOf(q.tx),
         PoolTx(q.tx, idx, pool, s, mined), NEW e, e.tx = q.tx,
         pool' = pool \cup {e}, spent' = s, req' = [req EXCEPT ![u] = P!Idle],
         idx' = idx, own' = own, mined' = mined
  PROVE  PathInv'
<1> DEFINE tx == q.tx
<1>0. q.phase # "idle"
  OBVIOUS
<1>1. /\ ReqTx(q, idx, pool, spent, mined)
      /\ tx.kind = "DEPLOY" => Maker[tx.token] = u
      /\ \A w \in User : w # u /\ req[w].phase # "idle" => req[w].tx.id # tx.id
  BY <1>0, ReqIs
<1>2. /\ \A p \in pool : p.tx.id # tx.id
      /\ tx.kind = "DEPLOY" => \A p \in pool : p.tx.kind = "DEPLOY" => p.tx.token # tx.token
  BY <1>1 DEF ReqTx
<1>3. PICK y : y = tx
  OBVIOUS
<1>4. PoolInv(idx, pool \cup {e}, s, mined)
  <2>1. PoolInv(idx, pool, spent, mined)
    BY DEF PathInv
  <2>2. \A p \in pool : p.tx.id # y.id /\
          (p.tx.kind = "DEPLOY" /\ y.kind = "DEPLOY" => p.tx.token # y.token)
    BY <1>2, <1>3
  <2>3. y = e.tx /\ s = spent \cup P!InputsOf(y) /\ PoolTx(y, idx, pool, s, mined)
        /\ P!InputsOf(y) \cap spent = {}
    BY <1>3
  <2> QED BY <2>1, <2>2, <2>3, PoolGrows
<1>5. PICK I : I = P!Idle
  OBVIOUS
<1>6. I.phase = "idle"
  BY <1>5 DEF P!Idle
<1>7. PICK rq : rq = [req EXCEPT ![u] = I]
  OBVIOUS
<1>8. ReqInv(req, idx, pool, spent, mined)
  BY DEF PathInv
<1>9. ReqInv(rq, idx, pool, spent, mined)
  <2>1. I.phase \in Phases
    BY <1>6 DEF Phases
  <2> QED BY <1>6, <1>7, <1>8, <2>1, ReqPut
<1>10. rq[u] = I /\ \A w \in User : w # u => rq[w] = req[w]
  BY <1>7, <1>8 DEF ReqInv
<1>11. ASSUME NEW w \in User, rq[w].phase # "idle"
       PROVE  ReqTx(rq[w], idx, pool \cup {e}, s, mined)
  <2>1. PICK r : r = rq[w]
    OBVIOUS
  <2>2. w # u /\ r = req[w]
    BY <1>6, <1>10, <1>11, <2>1
  <2>3. ReqTx(r, idx, pool, spent, mined) /\ (r.tx.kind = "DEPLOY" => Maker[r.tx.token] = w)
    BY <1>9, <1>11, <2>1 DEF ReqInv
  <2>4. r.tx.id # y.id
    BY <1>1, <1>3, <1>11, <2>1, <2>2
  <2>5. r.tx.kind = "DEPLOY" /\ y.kind = "DEPLOY" => r.tx.token # y.token
    BY <1>1, <1>3, <2>2, <2>3
  <2>6. y = e.tx /\ s = spent \cup P!InputsOf(y)
    BY <1>3
  <2>7. ReqTx(r, idx, pool \cup {e}, s, mined)
    BY <2>3, <2>4, <2>5, <2>6, ReqGrows
  <2> QED BY <2>1, <2>7
<1>12. ReqInv(rq, idx, pool \cup {e}, s, mined)
  BY <1>9, <1>11 DEF ReqInv
<1>13. req' = rq
  BY <1>5, <1>7
<1>14. ReqInv(req', idx', pool', spent', mined')
  BY <1>12, <1>13
<1>15. PoolInv(idx', pool', spent', mined')
  BY <1>4
<1>16. PathIndex(idx', mined') /\ DOMAIN own' = DOMAIN idx'.utxos
  BY DEF PathInv
<1>17. P!SignedIsApplied'
  BY DEF PathInv, P!SignedIsApplied
<1> QED BY <1>14, <1>15, <1>16, <1>17 DEF PathInv

(* A broadcast, accepted or not.                                           *)
LEMMA BroadcastPath ==
  ASSUME PathInv, NEW u \in User, P!Broadcast(u)
  PROVE  PathInv'
<1>1. PICK q : q = req[u]
  OBVIOUS
<1>2. PICK v : v = P!View(q.tx.token, q.stop)
  OBVIOUS
<1> DEFINE Final == IF q.fill = P!NoFill THEN P!Finalized(q.tx, v)
                    ELSE P!validateFinalizedP2PFill(q.tx, v, q.fill)
           Sent == P!Accepted(q.tx) /\ (Final \/ ~q.honest)
<1>3. /\ q.phase = "signed"
      /\ pool' = IF Sent THEN pool \cup {P!Entrusted(q)} ELSE pool
      /\ spent' = IF Sent THEN spent \cup P!InputsOf(q.tx) ELSE spent
      /\ req' = [req EXCEPT ![u] = IF Sent THEN P!Idle
                   ELSE [req[u] EXCEPT !.phase = IF P!Accepted(q.tx) THEN "unfinal" ELSE "refused"]]
      /\ idx' = idx /\ own' = own /\ mined' = mined
  BY <1>1, <1>2 DEF P!Broadcast
<1>4. CASE Sent
  <2>1. PICK e : e = P!Entrusted(q)
    OBVIOUS
  <2>2. PICK s : s = spent \cup P!InputsOf(q.tx)
    OBVIOUS
  <2>3. e.tx = q.tx
    BY <2>1 DEF P!Entrusted
  <2>4. P!InputsOf(q.tx) \cap spent = {}
    BY <1>4 DEF P!Accepted
  <2>5. Final \/ ~q.honest
    BY <1>4
  <2>6. PoolTx(q.tx, idx, pool, s, mined)
    BY <1>1, <1>2, <1>3, <2>2, <2>4, <2>5, SentFits
  <2>7. pool' = pool \cup {e} /\ spent' = s /\ req' = [req EXCEPT ![u] = P!Idle]
    BY <1>3, <1>4, <2>1, <2>2
  <2>8. q.phase = "signed" /\ idx' = idx /\ own' = own /\ mined' = mined
    BY <1>3
  <2> HIDE DEF Sent, Final
  <2> QED BY <1>1, <2>2, <2>3, <2>4, <2>6, <2>7, <2>8, SendPath
<1>5. CASE ~Sent
  <2>1. PICK ph : ph = IF P!Accepted(q.tx) THEN "unfinal" ELSE "refused"
    OBVIOUS
  <2>2. ph \in Phases /\ ph # "signed"
    BY <2>1 DEF Phases
  <2>3. req' = [req EXCEPT ![u] = Rephase(req[u], ph)] /\ UNCHANGED <<idx, own, pool, spent, mined>>
    BY <1>3, <1>5, <2>1 DEF Rephase
  <2>4. MayBe(ph, req[u], idx, pool, spent) /\ req[u].phase # "idle"
    BY <1>1, <1>3, <2>2 DEF MayBe
  <2> HIDE DEF Sent, Final
  <2> QED BY <2>2, <2>3, <2>4, PhaseStep
<1> QED BY <1>4, <1>5

-----------------------------------------------------------------------------
(* The Guardian signs a transition of a tip, or refuses.                   *)
LEMMA SignPath ==
  ASSUME P!Sound, PathInv, NEW u \in User, P!Sign(u)
  PROVE  PathInv'
<1>1. PICK q : q = req[u]
  OBVIOUS
<1> DEFINE ok == \/ q.tx.kind \in {"DEPLOY", "TRANSFER"}
                 \/ P!Validate(q.tx, P!View(q.tx.token, q.stop))
<1>2. PICK ph : ph = IF ok THEN "signed" ELSE "refused"
  OBVIOUS
<1>3. /\ q.phase = "built" /\ UNCHANGED <<idx, own, pool, spent, mined>>
      /\ req' = [req EXCEPT ![u].phase = ph]
  BY <1>1, <1>2 DEF P!Sign
<1>4. req' = [req EXCEPT ![u] = Rephase(req[u], ph)]
  BY <1>3 DEF Rephase
<1>5. q.phase # "idle" /\ ph \in Phases
  BY <1>2, <1>3 DEF Phases
<1>6. MayBe(ph, q, idx, pool, spent)
  <2>1. SUFFICES ASSUME ph = "signed", q.tx.kind \in VaultKinds
                 PROVE  OnTip(q.tx, idx, pool) /\ TokensFit(q.tx, idx)
    BY DEF MayBe
  <2>2. P!Validate(q.tx, P!View(q.tx.token, q.stop))
    BY <1>2, <2>1 DEF VaultKinds
  <2>3. ReqTx(q, idx, pool, spent, mined)
    BY <1>1, <1>5, ReqIs
  <2>4. /\ IsPsbt(q.tx) /\ q.tx.id \notin MinedIds(mined)
        /\ \A p \in pool : p.tx.id # q.tx.id
        /\ Loose(q.tx, idx, spent)
    BY <2>3 DEF ReqTx
  <2>5. PathIndex(idx, mined) /\ PoolInv(idx, pool, spent, mined)
    BY DEF PathInv
  <2> QED BY <2>1, <2>2, <2>4, <2>5, SignedFits
<1>7. MayBe(ph, req[u], idx, pool, spent) /\ req[u].phase # "idle"
  BY <1>1, <1>5, <1>6
<1> HIDE DEF ok
<1> QED BY <1>3, <1>4, <1>5, <1>7, PhaseStep

(* The seller signs or declines.                                           *)
LEMMA SellerSignPath ==
  ASSUME PathInv, NEW u \in User, P!SellerSign(u)
  PROVE  PathInv'
<1>1. PICK q : q = req[u]
  OBVIOUS
<1>2. PICK ph : ph = IF P!verifyClientIntent(q.tx, P!SellerIntent(q.tx, q.fill))
                     THEN "signed" ELSE "declined"
  OBVIOUS
<1>3. /\ q.phase = "built" /\ q.fill # P!NoFill /\ UNCHANGED <<idx, own, pool, spent, mined>>
      /\ req' = [req EXCEPT ![u].phase = ph]
  BY <1>1, <1>2 DEF P!SellerSign
<1>4. req' = [req EXCEPT ![u] = Rephase(req[u], ph)]
  BY <1>3 DEF Rephase
<1>5. q.phase # "idle" /\ ph \in Phases
  BY <1>2, <1>3 DEF Phases
<1>6. q.tx.kind \notin VaultKinds
  <2>1. ReqTx(q, idx, pool, spent, mined)
    BY <1>1, <1>5, ReqIs
  <2> QED BY <1>3, <2>1 DEF ReqTx, VaultKinds
<1>7. MayBe(ph, req[u], idx, pool, spent) /\ req[u].phase # "idle"
  BY <1>1, <1>5, <1>6 DEF MayBe
<1> QED BY <1>3, <1>4, <1>5, <1>7, PhaseStep

(* A request is given up.                                                  *)
LEMMA GiveUpPath ==
  ASSUME PathInv, NEW u \in User, P!GiveUp(u)
  PROVE  PathInv'
<1>1. PICK q : q = P!Idle
  OBVIOUS
<1>2. q.phase = "idle" /\ q.phase \in Phases
  BY <1>1 DEF P!Idle, Phases
<1>3. req' = [req EXCEPT ![u] = q] /\ UNCHANGED <<idx, own, pool, spent, mined>>
  BY <1>1 DEF P!GiveUp
<1> QED BY <1>2, <1>3, ReqStep

(* The wallet checks and declines or goes on.                              *)
LEMMA CheckPath ==
  ASSUME PathInv, NEW u \in User, P!Check(u)
  PROVE  PathInv'
<1>1. PICK q : q = req[u]
  OBVIOUS
<1>2. /\ q.phase = "built" /\ UNCHANGED <<idx, own, pool, spent, mined>>
      /\ req' = [req EXCEPT ![u] = IF P!verifyClientIntent(q.tx, q.intent)
                                   THEN [req[u] EXCEPT !.checked = TRUE]
                                   ELSE [req[u] EXCEPT !.phase = "declined"]]
  BY <1>1 DEF P!Check
<1>3. q.phase # "idle"
  BY <1>2
<1>4. /\ ReqTx(q, idx, pool, spent, mined)
      /\ q.tx.kind = "DEPLOY" => Maker[q.tx.token] = u
      /\ \A w \in User : w # u /\ req[w].phase # "idle" => req[w].tx.id # q.tx.id
  BY <1>1, <1>3, ReqIs
<1>5. CASE P!verifyClientIntent(q.tx, q.intent)
  <2>1. PICK r : r = [q EXCEPT !.checked = TRUE]
    OBVIOUS
  <2>2. req' = [req EXCEPT ![u] = r]
    BY <1>1, <1>2, <1>5, <2>1
  <2>3. q = [phase |-> q.phase, tx |-> q.tx, honest |-> q.honest, intent |-> q.intent,
             fill |-> q.fill, checked |-> q.checked, stop |-> q.stop]
    BY <1>4 DEF ReqTx, IsReq
  <2>4. r = [phase |-> q.phase, tx |-> q.tx, honest |-> q.honest, intent |-> q.intent,
             fill |-> q.fill, checked |-> TRUE, stop |-> q.stop]
    BY <2>1, <2>3
  <2>5. r.phase = q.phase /\ r.tx = q.tx /\ r.honest = q.honest /\ r.fill = q.fill /\ IsReq(r)
    BY <2>4 DEF IsReq
  <2>6. ReqTx(r, idx, pool, spent, mined)
    BY <1>4, <2>5 DEF ReqTx
  <2>7. /\ r.phase \in Phases
        /\ r.tx.kind = "DEPLOY" => Maker[r.tx.token] = u
        /\ \A w \in User : w # u /\ req[w].phase # "idle" => req[w].tx.id # r.tx.id
    BY <1>2, <1>4, <2>5 DEF Phases
  <2>8. UNCHANGED <<idx, own, pool, spent, mined>>
    BY <1>2
  <2> QED BY <2>2, <2>6, <2>7, <2>8, ReqStep
<1>6. CASE ~P!verifyClientIntent(q.tx, q.intent)
  <2>1. PICK ph : ph = "declined"
    OBVIOUS
  <2>2. req' = [req EXCEPT ![u] = Rephase(req[u], ph)] /\ UNCHANGED <<idx, own, pool, spent, mined>>
    BY <1>2, <1>6, <2>1 DEF Rephase
  <2>3. ph \in Phases /\ MayBe(ph, req[u], idx, pool, spent) /\ req[u].phase # "idle"
    BY <1>1, <1>3, <2>1 DEF Phases, MayBe
  <2> QED BY <2>2, <2>3, PhaseStep
<1> QED BY <1>5, <1>6

-----------------------------------------------------------------------------
(* A PSBT that differs from one is one, with the same id.                  *)
LEMMA TxIs ==
  ASSUME NEW id, NEW k, NEW t, NEW n, NEW to, NEW al, NEW leaf, NEW ins, NEW outs,
         NEW tx, tx = P!Tx(id, k, t, n, to, al, leaf, ins, outs)
  PROVE  /\ tx.id = id /\ tx.kind = k /\ tx.token = t /\ tx.amount = n /\ tx.to = to
         /\ tx.allocs = al /\ tx.leaf = leaf /\ tx.ins = ins /\ tx.outs = outs
         /\ tx = P!Tx(tx.id, tx.kind, tx.token, tx.amount, tx.to, tx.allocs, tx.leaf, tx.ins, tx.outs)
  BY DEF P!Tx

(* What a variant may differ in.                                           *)
Varies(y, tx, ins) ==
  \E k \in VaultKinds, n \in Amount : \E to, al, leaf, outs :
    IsMap(al, Vout, Amount) /\ tx = P!Tx(y.id, k, y.token, n, to, al, leaf, ins, outs)

(* A variant keeps the shape and the id.                                   *)
LEMMA VariesPsbt ==
  ASSUME NEW y, NEW tx, NEW ins, IsPsbt(y), Varies(y, tx, ins),
         ins # <<>>, \E S : ins \in Seq(S)
  PROVE  IsPsbt(tx) /\ tx.kind \in VaultKinds /\ tx.id = y.id /\ tx.ins = ins
<1>1. PICK k \in VaultKinds, n \in Amount : \E to, al, leaf, outs :
        IsMap(al, Vout, Amount) /\ tx = P!Tx(y.id, k, y.token, n, to, al, leaf, ins, outs)
  BY DEF Varies
<1>2. PICK to, al, leaf, outs :
        IsMap(al, Vout, Amount) /\ tx = P!Tx(y.id, k, y.token, n, to, al, leaf, ins, outs)
  BY <1>1
<1>3. /\ tx.id = y.id /\ tx.kind = k /\ tx.token = y.token /\ tx.amount = n
      /\ tx.allocs = al /\ tx.ins = ins
      /\ tx = P!Tx(tx.id, tx.kind, tx.token, tx.amount, tx.to, tx.allocs, tx.leaf, tx.ins, tx.outs)
  BY <1>2, TxIs
<1>4. y.id \in Fresh /\ y.token \in Token
  BY DEF IsPsbt
<1> QED BY <1>1, <1>2, <1>3, <1>4 DEF IsPsbt

(* One more input is the carrier of someone.                               *)
LEMMA VariantIs ==
  ASSUME P!Sound, NEW y, IsPsbt(y), y.kind \in VaultKinds, NEW tx \in P!Variants(y)
  PROVE  \/ Varies(y, tx, y.ins)
         \/ \E o \in DOMAIN idx.utxos : \E x : x.out = o /\ Varies(y, tx, Append(y.ins, x))
<1>1. /\ y = P!Tx(y.id, y.kind, y.token, y.amount, y.to, y.allocs, y.leaf, y.ins, y.outs)
      /\ y.amount \in Amount /\ IsMap(y.allocs, Vout, Amount)
  BY DEF IsPsbt, VaultKinds
<1>2. Amounts \subseteq Amount
  BY PathTypes DEF P!Sound
<1>3. \A outs : [y EXCEPT !.outs = outs] =
        P!Tx(y.id, y.kind, y.token, y.amount, y.to, y.allocs, y.leaf, y.ins, outs)
  BY <1>1 DEF P!Tx
<1>4. ASSUME NEW outs, tx = [y EXCEPT !.outs = outs] PROVE Varies(y, tx, y.ins)
  <2>1. tx = P!Tx(y.id, y.kind, y.token, y.amount, y.to, y.allocs, y.leaf, y.ins, outs)
    BY <1>3, <1>4
  <2> QED BY <1>1, <2>1 DEF Varies
<1>5. CASE \E k \in DOMAIN y.outs, d \in {-1, 1} : tx = [y EXCEPT !.outs[k].value = @ + d]
  <2>1. PICK k \in DOMAIN y.outs, d \in {-1, 1} : tx = [y EXCEPT !.outs[k].value = @ + d]
    BY <1>5
  <2>2. tx = [y EXCEPT !.outs = [y.outs EXCEPT ![k].value = y.outs[k].value + d]]
    BY <2>1
  <2> QED BY <1>4, <2>2
<1>6. CASE \E k \in DOMAIN y.outs, s \in {P!Script("p2sh", "other"), P!Script("p2wpkh", "other")} :
             tx = [y EXCEPT !.outs[k].script = s]
  <2>1. PICK k \in DOMAIN y.outs, s \in {P!Script("p2sh", "other"), P!Script("p2wpkh", "other")} :
          tx = [y EXCEPT !.outs[k].script = s]
    BY <1>6
  <2>2. tx = [y EXCEPT !.outs = [y.outs EXCEPT ![k].script = s]]
    BY <2>1
  <2> QED BY <1>4, <2>2
<1>7. CASE \E k \in {"discovery", "p2wpkh"} :
             tx = [y EXCEPT !.outs = Append(@, P!Out(P!Script(k, "other"), 0))]
  BY <1>4, <1>7
<1>8. CASE tx = [y EXCEPT !.outs = P!Front(@)]
  BY <1>4, <1>8
<1>9. CASE tx = [y EXCEPT !.leaf = "other"]
  <2>1. \E leaf : tx = P!Tx(y.id, y.kind, y.token, y.amount, y.to, y.allocs, leaf, y.ins, y.outs)
    BY <1>1, <1>9 DEF P!Tx
  <2> QED BY <1>1, <2>1 DEF Varies
<1>10. CASE \E n \in Amounts : tx = [y EXCEPT !.amount = n]
  <2>1. PICK n \in Amounts : tx = [y EXCEPT !.amount = n]
    BY <1>10
  <2>2. tx = P!Tx(y.id, y.kind, y.token, n, y.to, y.allocs, y.leaf, y.ins, y.outs)
    BY <1>1, <2>1 DEF P!Tx
  <2> QED BY <1>1, <1>2, <2>2 DEF Varies
<1>11. CASE tx = [y EXCEPT !.to = 4]
  <2>1. \E to : tx = P!Tx(y.id, y.kind, y.token, y.amount, to, y.allocs, y.leaf, y.ins, y.outs)
    BY <1>1, <1>11 DEF P!Tx
  <2> QED BY <1>1, <2>1 DEF Varies
<1>12. ASSUME NEW al, IsMap(al, Vout, Amount), tx = [y EXCEPT !.allocs = al]
       PROVE  Varies(y, tx, y.ins)
  <2>1. tx = P!Tx(y.id, y.kind, y.token, y.amount, y.to, al, y.leaf, y.ins, y.outs)
    BY <1>1, <1>12 DEF P!Tx
  <2> QED BY <1>1, <1>12, <2>1 DEF Varies
<1>13. CASE tx = [y EXCEPT !.allocs = P!Nothing]
  <2>1. P!Nothing = Nothing
    BY DEF P!Nothing, Nothing
  <2>2. IsMap(P!Nothing, Vout, Amount)
    BY <2>1, NothingIsMap
  <2> QED BY <1>12, <1>13, <2>2
<1>14. CASE \E n \in Amounts : tx = [y EXCEPT !.allocs = [w \in {4} |-> n]]
  <2>1. PICK n \in Amounts : tx = [y EXCEPT !.allocs = [w \in {4} |-> n]]
    BY <1>14
  <2>2. PICK al : al = [w \in {4} |-> n]
    OBVIOUS
  <2>3. IsMap(al, Vout, Amount)
    <3>1. DOMAIN al = {4} /\ al \in [{4} -> Amount] /\ 4 \in Vout
      BY <1>2, <2>2, RulesAssumption
    <3>2. IsFiniteSet({4})
      BY FS_Singleton
    <3> QED BY <3>1, <3>2 DEF IsMap
  <2>4. tx = [y EXCEPT !.allocs = al]
    BY <2>1, <2>2
  <2> QED BY <1>12, <2>3, <2>4
<1>15. CASE \E k \in {"MINT", "REDEEM"} : tx = [y EXCEPT !.kind = k]
  <2>1. PICK k \in VaultKinds : tx = [y EXCEPT !.kind = k]
    BY <1>15 DEF VaultKinds
  <2>2. tx = P!Tx(y.id, k, y.token, y.amount, y.to, y.allocs, y.leaf, y.ins, y.outs)
    BY <1>1, <2>1 DEF P!Tx
  <2> QED BY <1>1, <2>2 DEF Varies
<1>16. CASE \E o \in DOMAIN idx.utxos \ P!InputsOf(y) :
              tx = [y EXCEPT !.ins = Append(@, [out |-> o, value |-> Carrier, who |-> own[o]]),
                             !.outs[Len(y.outs)].value = @ + Carrier]
  <2>1. PICK o \in DOMAIN idx.utxos :
              tx = [y EXCEPT !.ins = Append(@, [out |-> o, value |-> Carrier, who |-> own[o]]),
                             !.outs[Len(y.outs)].value = @ + Carrier]
    BY <1>16
  <2>2. PICK x : x = [out |-> o, value |-> Carrier, who |-> own[o]]
    OBVIOUS
  <2>3. x.out = o
    BY <2>2
  <2>4. PICK ins : ins = Append(y.ins, x)
    OBVIOUS
  <2>5. \E outs : tx = [[y EXCEPT !.ins = ins] EXCEPT !.outs = outs]
    BY <1>1, <2>1, <2>2, <2>4 DEF P!Tx
  <2>6. \E outs : tx = P!Tx(y.id, y.kind, y.token, y.amount, y.to, y.allocs, y.leaf, ins, outs)
    BY <1>1, <2>5 DEF P!Tx
  <2>7. Varies(y, tx, ins)
    BY <1>1, <2>6 DEF Varies
  <2> QED BY <2>3, <2>4, <2>7
<1>17. CASE tx \in P!OutputVariants(y)
  BY <1>5, <1>6, <1>7, <1>8, <1>17 DEF P!OutputVariants
<1>18. CASE tx \in P!EnvelopeVariants(y)
  BY <1>9, <1>10, <1>11, <1>13, <1>14, <1>15, <1>18 DEF P!EnvelopeVariants
<1>19. CASE tx \in P!InputVariants(y)
  BY <1>16, <1>19 DEF P!InputVariants
<1> QED BY <1>17, <1>18, <1>19 DEF P!Variants

(* A variant spends what the build spent, or one carrier more.             *)
LEMMA VariantLoose ==
  ASSUME P!Sound, NEW y, IsPsbt(y), y.kind \in VaultKinds, Loose(y, idx, spent),
         NEW tx \in P!Variants(y)
  PROVE  IsPsbt(tx) /\ tx.kind \in VaultKinds /\ tx.id = y.id /\ Loose(tx, idx, spent)
<1>1. y.ins # <<>> /\ \E S : y.ins \in Seq(S)
  BY DEF IsPsbt
<1>2. PICK S : y.ins \in Seq(S)
  BY <1>1
<1>3. PICK s \in Seq(S) : s = y.ins
  BY <1>2
<1>4. Others(y) \subseteq P!CoinOuts \cup DOMAIN idx.utxos \cup spent
  BY DEF Loose
<1>5. \A k \in 2 .. Len(s) : s[k].out \in P!CoinOuts \cup DOMAIN idx.utxos \cup spent
  BY <1>3, <1>4 DEF Others
<1>6. CASE Varies(y, tx, y.ins)
  <2>1. IsPsbt(tx) /\ tx.kind \in VaultKinds /\ tx.id = y.id /\ tx.ins = y.ins
    BY <1>1, <1>6, VariesPsbt
  <2>2. Others(tx) = Others(y)
    BY <2>1 DEF Others
  <2> QED BY <1>4, <2>1, <2>2 DEF Loose, VaultKinds
<1>7. CASE \E o \in DOMAIN idx.utxos : \E x : x.out = o /\ Varies(y, tx, Append(y.ins, x))
  <2>1. PICK o \in DOMAIN idx.utxos : \E x : x.out = o /\ Varies(y, tx, Append(y.ins, x))
    BY <1>7
  <2>2. PICK x : x.out = o /\ Varies(y, tx, Append(y.ins, x))
    BY <2>1
  <2>3. PICK z : z = Append(s, x)
    OBVIOUS
  <2>4. z \in Seq(S \cup {x}) /\ z # <<>> /\ Len(z) = Len(s) + 1 /\ z[Len(s) + 1] = x
        /\ \A k \in 1 .. Len(s) : z[k] = s[k]
    BY <2>3
  <2>5. Varies(y, tx, z)
    BY <1>3, <2>2, <2>3
  <2>6. IsPsbt(tx) /\ tx.kind \in VaultKinds /\ tx.id = y.id /\ tx.ins = z
    BY <2>4, <2>5, VariesPsbt
  <2>7. ASSUME NEW k \in 2 .. Len(z)
        PROVE  z[k].out \in P!CoinOuts \cup DOMAIN idx.utxos \cup spent
    <3>1. CASE k = Len(s) + 1
      BY <2>2, <2>4, <3>1
    <3>2. CASE k # Len(s) + 1
      <4>1. k \in 2 .. Len(s) /\ k \in 1 .. Len(s)
        BY <2>4, <3>2
      <4> QED BY <1>5, <2>4, <4>1
    <3> QED BY <3>1, <3>2
  <2>8. Others(tx) \subseteq P!CoinOuts \cup DOMAIN idx.utxos \cup spent
    BY <2>6, <2>7 DEF Others
  <2> QED BY <2>6, <2>8 DEF Loose, VaultKinds
<1> QED BY <1>6, <1>7, VariantIs

(* The request is altered on its way.                                      *)
LEMMA AlterPath ==
  ASSUME P!Sound, PathInv, NEW u \in User, P!Alter(u)
  PROVE  PathInv'
<1>1. PICK q : q = req[u]
  OBVIOUS
<1>2. PICK tx \in P!Variants(q.tx) : req' = [req EXCEPT ![u].tx = tx, ![u].honest = FALSE]
  BY <1>1 DEF P!Alter
<1>3. /\ q.phase = "built" /\ q.tx.kind \in VaultKinds /\ UNCHANGED <<idx, own, pool, spent, mined>>
  BY <1>1 DEF P!Alter, VaultKinds
<1>4. q.phase # "idle"
  BY <1>3
<1>5. /\ ReqTx(q, idx, pool, spent, mined)
      /\ \A w \in User : w # u /\ req[w].phase # "idle" => req[w].tx.id # q.tx.id
  BY <1>1, <1>4, ReqIs
<1>6. PICK f : f = FALSE
  OBVIOUS
<1>7. PICK r : r = [phase |-> q.phase, tx |-> tx, honest |-> f, intent |-> q.intent,
                    fill |-> q.fill, checked |-> q.checked, stop |-> q.stop]
  OBVIOUS
<1>8. req' = [req EXCEPT ![u] = r]
  <2>1. q = [phase |-> q.phase, tx |-> q.tx, honest |-> q.honest, intent |-> q.intent,
             fill |-> q.fill, checked |-> q.checked, stop |-> q.stop]
    BY <1>5 DEF ReqTx, IsReq
  <2>2. req' = [req EXCEPT ![u].tx = tx, ![u].honest = f]
    BY <1>2, <1>6
  <2>3. PICK v : v = [q EXCEPT !.tx = tx]
    OBVIOUS
  <2>4. v = [phase |-> q.phase, tx |-> tx, honest |-> q.honest, intent |-> q.intent,
             fill |-> q.fill, checked |-> q.checked, stop |-> q.stop]
    BY <2>1, <2>3
  <2>5. r = [v EXCEPT !.honest = f]
    BY <1>7, <2>4
  <2>6. PICK rq : rq = req
    OBVIOUS
  <2>7. rq \in [User -> {req[w] : w \in User}]
    BY <2>6 DEF PathInv, ReqInv
  <2>8. PICK a : a = [rq EXCEPT ![u].tx = tx]
    OBVIOUS
  <2>9. req' = [a EXCEPT ![u].honest = f]
    BY <2>2, <2>6, <2>8
  <2>10. a[u] = v /\ a = [rq EXCEPT ![u] = v]
    BY <1>1, <2>3, <2>6, <2>7, <2>8
  <2>11. req' = [a EXCEPT ![u] = r]
    BY <2>5, <2>9, <2>10
  <2>12. req' = [rq EXCEPT ![u] = r]
    BY <2>7, <2>10, <2>11
  <2> QED BY <2>6, <2>12
<1>9. r.phase = q.phase /\ r.tx = tx /\ r.fill = q.fill /\ IsReq(r)
  BY <1>7 DEF IsReq
<1>10. /\ IsPsbt(q.tx) /\ q.tx.id \notin MinedIds(mined)
       /\ \A p \in pool : p.tx.id # q.tx.id
       /\ Loose(q.tx, idx, spent) /\ q.fill = P!NoFill
  BY <1>3, <1>5 DEF ReqTx, VaultKinds
<1>11. IsPsbt(tx) /\ tx.kind \in VaultKinds /\ tx.id = q.tx.id /\ Loose(tx, idx, spent)
  BY <1>2, <1>3, <1>10, VariantLoose
<1>12. ReqTx(r, idx, pool, spent, mined)
  BY <1>3, <1>9, <1>10, <1>11 DEF ReqTx, VaultKinds
<1>13. /\ r.phase \in Phases
       /\ r.tx.kind = "DEPLOY" => Maker[r.tx.token] = u
       /\ \A w \in User : w # u /\ req[w].phase # "idle" => req[w].tx.id # r.tx.id
  BY <1>3, <1>5, <1>9, <1>11 DEF Phases, VaultKinds
<1> QED BY <1>3, <1>8, <1>12, <1>13, ReqStep

-----------------------------------------------------------------------------
(* Sequences of inputs, and the outputs they spend.                        *)
Pays(s, O) == (\E S : s \in Seq(S)) /\ \A k \in 1 .. Len(s) : s[k].out \in O

(* Two such sequences in a row.                                            *)
LEMMA PaysBoth ==
  ASSUME NEW s, NEW z, NEW O, Pays(s, O), Pays(z, O)
  PROVE  Pays(s \o z, O)
<1>1. PICK S : s \in Seq(S)
  BY DEF Pays
<1>2. PICK Z : z \in Seq(Z)
  BY DEF Pays
<1>3. s \in Seq(S \cup Z) /\ z \in Seq(S \cup Z)
  BY <1>1, <1>2
<1>4. PICK y : y = s \o z
  OBVIOUS
<1>5. /\ y \in Seq(S \cup Z) /\ Len(y) = Len(s) + Len(z)
      /\ \A k \in 1 .. Len(y) : y[k] = IF k <= Len(s) THEN s[k] ELSE z[k - Len(s)]
  BY <1>3, <1>4
<1>6. \A k \in 1 .. Len(y) : k <= Len(s) => k \in 1 .. Len(s)
  OBVIOUS
<1>7. \A k \in 1 .. Len(y) : ~(k <= Len(s)) => k - Len(s) \in 1 .. Len(z)
  BY <1>1, <1>2, <1>5
<1>8. \A k \in 1 .. Len(y) : y[k].out \in O
  BY <1>5, <1>6, <1>7 DEF Pays
<1> QED BY <1>4, <1>5, <1>8 DEF Pays

(* The set of outputs may be larger.                                       *)
LEMMA PaysMore ==
  ASSUME NEW s, NEW O, NEW Q, Pays(s, O), O \subseteq Q
  PROVE  Pays(s, Q)
  BY DEF Pays

(* A transaction with such inputs, or with a vault before them.            *)
LEMMA PaysInputs ==
  ASSUME NEW tx, NEW O, Pays(tx.ins, O)
  PROVE  P!InputsOf(tx) \subseteq O /\ \E S : tx.ins \in Seq(S)
<1>1. PICK S : tx.ins \in Seq(S)
  BY DEF Pays
<1>2. DOMAIN tx.ins = 1 .. Len(tx.ins)
  BY <1>1
<1> QED BY <1>1, <1>2 DEF Pays, P!InputsOf

(* With a vault first, the others are those.                               *)
LEMMA PaysOthers ==
  ASSUME NEW tx, NEW O, NEW b, NEW z, Pays(z, O), tx.ins = P!VaultIn(b) \o z
  PROVE  Others(tx) \subseteq O /\ tx.ins # <<>> /\ \E S : tx.ins \in Seq(S)
<1>1. PICK Z : z \in Seq(Z)
  BY DEF Pays
<1>2. PICK x : x = [out |-> b.out, value |-> b.value, who |-> "vault"]
  OBVIOUS
<1>3. tx.ins = <<x>> \o z
  BY <1>2 DEF P!VaultIn
<1>4. PICK y : y = <<x>> \o z
  OBVIOUS
<1>5. z \in Seq(Z \cup {x}) /\ <<x>> \in Seq(Z \cup {x})
  BY <1>1
<1>6. /\ y \in Seq(Z \cup {x}) /\ Len(y) = 1 + Len(z) /\ y # <<>>
      /\ \A k \in 2 .. Len(y) : y[k] = z[k - 1] /\ k - 1 \in 1 .. Len(z)
  BY <1>4, <1>5
<1>7. \A k \in 2 .. Len(y) : y[k].out \in O
  BY <1>6 DEF Pays
<1>8. tx.ins = y
  BY <1>3, <1>4
<1> QED BY <1>6, <1>7, <1>8 DEF Others

(* Coins and carriers as inputs.                                           *)
LEMMA FundsPay ==
  ASSUME P!Sound, NEW u \in User, NEW C, C \subseteq Coins[u]
  PROVE  Pays(P!Funds(u, C), P!CoinOuts)
<1>1. IsFiniteSet(C)
  <2>1. IsFiniteSet(Coins[u])
    BY PathCounts DEF P!Sound
  <2> QED BY <2>1, FS_Subset
<1>2. PICK s \in Seq(C) : s = P!SetToSeq(C)
  BY <1>1, SetInOrder
<1>3. PICK z : z = P!Funds(u, C)
  OBVIOUS
<1>4. z = [k \in DOMAIN s |-> [out |-> s[k].out, value |-> s[k].value, who |-> u]]
  BY <1>2, <1>3 DEF P!Funds
<1> DEFINE T == {[out |-> s[k].out, value |-> s[k].value, who |-> u] : k \in DOMAIN s}
<1>5. DOMAIN s = 1 .. Len(s) /\ Len(s) \in Nat
  OBVIOUS
<1>6. z \in [1 .. Len(s) -> T]
  BY <1>4, <1>5
<1>7. z \in Seq(T) /\ Len(z) = Len(s)
  BY <1>5, <1>6
<1>8. \A k \in 1 .. Len(s) : z[k].out = s[k].out /\ s[k] \in C
  BY <1>4
<1>9. \A c \in C : c.out \in P!CoinOuts
  BY DEF P!CoinOuts
<1>10. \A k \in 1 .. Len(z) : z[k].out \in P!CoinOuts
  BY <1>7, <1>8, <1>9
<1> HIDE DEF T
<1> QED BY <1>3, <1>7, <1>10 DEF Pays

(* Carriers as inputs spend those carriers.                                *)
LEMMA CarriersPay ==
  ASSUME PathIndex(idx, mined), NEW S, S \subseteq DOMAIN idx.utxos
  PROVE  Pays(P!AsInputs(S), S)
<1>1. IsFiniteSet(S)
  <2>1. IsFiniteSet(DOMAIN idx.utxos)
    BY DEF PathIndex, IsMap
  <2> QED BY <2>1, FS_Subset
<1>2. PICK s \in Seq(S) : s = P!SetToSeq(S)
  BY <1>1, SetInOrder
<1>3. PICK z : z = P!AsInputs(S)
  OBVIOUS
<1>4. z = [k \in DOMAIN s |-> [out |-> s[k], value |-> Carrier, who |-> own[s[k]]]]
  BY <1>2, <1>3 DEF P!AsInputs
<1> DEFINE T == {[out |-> s[k], value |-> Carrier, who |-> own[s[k]]] : k \in DOMAIN s}
<1>5. DOMAIN s = 1 .. Len(s) /\ Len(s) \in Nat
  OBVIOUS
<1>6. z \in [1 .. Len(s) -> T]
  BY <1>4, <1>5
<1>7. z \in Seq(T) /\ Len(z) = Len(s)
  BY <1>5, <1>6
<1>8. \A k \in 1 .. Len(s) : z[k].out \in S
  BY <1>4
<1> HIDE DEF T
<1> QED BY <1>3, <1>7, <1>8 DEF Pays

(* A build that does not throw is the transaction it was asked for.        *)
LEMMA FinishIs ==
  ASSUME NEW id, NEW k, NEW t, NEW n, NEW to, NEW al, NEW leaf, NEW ins, NEW outs, NEW u, NEW fee,
         NEW built, built = P!Finish(id, k, t, n, to, al, leaf, ins, outs, u, fee), built.ok
  PROVE  \E os : built.tx = P!Tx(id, k, t, n, to, al, leaf, ins, os)
<1>1. P!Thrown.ok = FALSE
  BY DEF P!Thrown
<1>2. built # P!Thrown
  BY <1>1, Zenon
<1>3. PICK c : c = P!SumOf(ins) - P!SumOf(outs) - fee
  OBVIOUS
<1>4. built = IF c < 0 THEN P!Thrown
              ELSE [ok |-> TRUE, tx |-> P!Tx(id, k, t, n, to, al, leaf, ins,
                                             P!addChangeOrAbsorb(outs, P!Payment(u), c))]
  BY <1>3, Zenon DEF P!Finish
<1>5. PICK y : y = P!Tx(id, k, t, n, to, al, leaf, ins, P!addChangeOrAbsorb(outs, P!Payment(u), c))
  OBVIOUS
<1>6. built = [ok |-> TRUE, tx |-> y]
  BY <1>2, <1>4, <1>5, Zenon
<1>7. built.tx = y
  BY <1>6
<1> QED BY <1>5, <1>7

-----------------------------------------------------------------------------
(* A build is offered: nothing but the user's request changes.             *)
Offered(u, tx, fill) ==
  /\ \E ph, h, x, f, so :
       /\ ph \in {"built", "rejected"} /\ h = TRUE
       /\ req' = [req EXCEPT ![u] = [phase |-> ph, tx |-> tx, honest |-> h, intent |-> x,
                                     fill |-> fill, checked |-> f, stop |-> so]]
  /\ UNCHANGED <<idx, own, pool, spent, mined>>

(* An offer of a well-formed build on a fresh id.                          *)
LEMMA OfferPath ==
  ASSUME PathInv, NEW u \in User, NEW tx, NEW fill, Offered(u, tx, fill),
         IsPsbt(tx), Loose(tx, idx, spent), tx.id \notin P!Used, 
         tx.kind # "TRANSFER" => fill = P!NoFill,
         tx.kind = "DEPLOY" =>
           Maker[tx.token] = u /\ \A p \in pool : p.tx.kind = "DEPLOY" => p.tx.token # tx.token
  PROVE  PathInv'
<1>1. PICK ph, h, x, f, so :
       /\ ph \in {"built", "rejected"} /\ h = TRUE
       /\ req' = [req EXCEPT ![u] = [phase |-> ph, tx |-> tx, honest |-> h, intent |-> x,
                                     fill |-> fill, checked |-> f, stop |-> so]]
  BY Zenon DEF Offered
<1>3. PICK r : r = [phase |-> ph, tx |-> tx, honest |-> h, intent |-> x,
                    fill |-> fill, checked |-> f, stop |-> so]
  OBVIOUS
<1>4. req' = [req EXCEPT ![u] = r]
  BY <1>1, <1>3
<1>5. r.phase = ph /\ r.tx = tx /\ r.fill = fill /\ r.honest = h /\ IsReq(r)
  BY <1>3 DEF IsReq
<1>6. /\ tx.id \notin MinedIds(mined) /\ \A p \in pool : p.tx.id # tx.id
      /\ \A w \in User : w # u /\ req[w].phase # "idle" => req[w].tx.id # tx.id
  BY DEF P!Used, MinedIds
<1>7. r.phase # "signed" /\ r.phase \in Phases
  BY <1>1, <1>5 DEF Phases
<1>8. r.tx.kind \notin VaultKinds => r.honest = TRUE
  BY <1>1, <1>5, Zenon
<1>9. ReqTx(r, idx, pool, spent, mined)
  BY <1>5, <1>6, <1>7, <1>8 DEF ReqTx
<1>10. /\ r.tx.kind = "DEPLOY" => Maker[r.tx.token] = u
       /\ \A w \in User : w # u /\ req[w].phase # "idle" => req[w].tx.id # r.tx.id
  BY <1>5, <1>6
<1>11. UNCHANGED <<idx, own, pool, spent, mined>>
  BY DEF Offered
<1> QED BY <1>4, <1>7, <1>9, <1>10, <1>11, ReqStep


(* The parts of a build.                                                   *)
LEMMA BuiltIs ==
  ASSUME NEW id \in P!FreshIds, NEW k \in VaultKinds \cup {"DEPLOY", "TRANSFER"}, NEW t \in Token, NEW n,
         k # "DEPLOY" => n \in Amount, NEW to, NEW al, IsMap(al, Vout, Amount), NEW leaf,
         NEW ins, \E S : ins \in Seq(S), k \in VaultKinds => ins # <<>>, NEW outs,
         NEW tx, tx = P!Tx(id, k, t, n, to, al, leaf, ins, outs)
  PROVE  IsPsbt(tx) /\ tx.id \notin P!Used /\ tx.kind = k /\ tx.token = t /\ tx.ins = ins
<1>1. /\ tx.id = id /\ tx.kind = k /\ tx.token = t /\ tx.amount = n /\ tx.allocs = al /\ tx.ins = ins
      /\ tx = P!Tx(tx.id, tx.kind, tx.token, tx.amount, tx.to, tx.allocs, tx.leaf, tx.ins, tx.outs)
  BY TxIs
<1>2. id \in Fresh /\ id \notin P!Used
  BY DEF P!FreshIds
<1> QED BY <1>1, <1>2 DEF IsPsbt

(* A build that threw has no transaction.                                  *)
LEMMA NotThrown ==
  ASSUME NEW built, built.ok
  PROVE  built # P!Thrown
<1>1. P!Thrown.ok = FALSE
  BY DEF P!Thrown
<1> QED BY <1>1, Zenon

(* A build on a vault: the vault, then coins and carriers.                 *)
LEMMA VaultBuilt ==
  ASSUME PathInv, NEW u \in User, NEW id \in P!FreshIds, NEW k \in VaultKinds, NEW t \in Token,
         NEW n \in Amount, NEW to, NEW al, IsMap(al, Vout, Amount), NEW leaf, NEW b, NEW z,
         Pays(z, P!CoinOuts \cup DOMAIN idx.utxos), NEW outs,
         NEW tx, tx = P!Tx(id, k, t, n, to, al, leaf, P!VaultIn(b) \o z, outs),
         NEW fill, fill = P!NoFill, Offered(u, tx, fill)
  PROVE  PathInv'
<1>0. PICK is : is = P!VaultIn(b) \o z
  OBVIOUS
<1>1. tx.ins = P!VaultIn(b) \o z
  <2>1. tx = P!Tx(id, k, t, n, to, al, leaf, is, outs)
    BY <1>0
  <2>2. tx.ins = is
    BY <2>1, TxIs
  <2> QED BY <1>0, <2>2
<1>2. /\ Others(tx) \subseteq P!CoinOuts \cup DOMAIN idx.utxos
      /\ tx.ins # <<>> /\ \E S : tx.ins \in Seq(S)
  BY <1>1, PaysOthers
<1>3. PICK ins : ins = tx.ins
  OBVIOUS
<1>4. ins # <<>> /\ \E S : ins \in Seq(S)
  BY <1>2, <1>3
<1>5. tx = P!Tx(id, k, t, n, to, al, leaf, ins, outs)
  BY <1>1, <1>3
<1>6. k \in VaultKinds \cup {"DEPLOY", "TRANSFER"} /\ k # "DEPLOY" /\ k # "TRANSFER"
  BY DEF VaultKinds
<1>7. IsPsbt(tx) /\ tx.id \notin P!Used /\ tx.kind = k
  BY <1>4, <1>5, <1>6, BuiltIs
<1>8. Loose(tx, idx, spent)
  BY <1>2, <1>6, <1>7 DEF Loose
<1> QED BY <1>6, <1>7, <1>8, OfferPath

(* A launch spends coins.                                                  *)
LEMMA LaunchPath ==
  ASSUME P!Sound, PathInv, NEW u \in User, NEW t \in Token, NEW C, C \subseteq Coins[u], NEW fee,
         NEW id \in P!FreshIds, P!BuildLaunch(u, t, C, fee, id)
  PROVE  PathInv'
<1>1. PICK fill : fill = P!NoFill
  OBVIOUS
<1>2. PICK built : built = P!buildDeployPsbtV3(id, t, u, P!Funds(u, C), fee)
  OBVIOUS
<1>3. P!Offer(u, built, idx, FALSE, LAMBDA tx : P!Intent("DEPLOY", tx, u, P!Unstated, P!Unstated,
                                                         P!Unstated, P!Unstated), fill)
  BY <1>1, <1>2 DEF P!BuildLaunch
<1>4. built.ok /\ Offered(u, built.tx, fill)
  BY <1>3, Zenon DEF P!Offer, Offered
<1>5. /\ Maker[t] = u /\ t \notin DOMAIN idx.backing
      /\ \A p \in pool : p.tx.kind = "DEPLOY" => p.tx.token # t
  BY DEF P!BuildLaunch
<1>6. PICK ins, al, n, k, leaf, outs :
        /\ ins = P!Funds(u, C) /\ al = P!Nothing /\ n = 1 /\ k = "DEPLOY" /\ leaf = "none"
        /\ built = P!Finish(id, k, t, n, n, al, leaf, ins, outs, u, fee)
  BY <1>2, Zenon DEF P!buildDeployPsbtV3
<1>7. PICK os : built.tx = P!Tx(id, k, t, n, n, al, leaf, ins, os)
  BY <1>4, <1>6, FinishIs
<1>8. Pays(ins, P!CoinOuts)
  BY <1>6, FundsPay
<1>9. PICK tx : tx = built.tx
  OBVIOUS
<1>10. /\ k \in VaultKinds \cup {"DEPLOY", "TRANSFER"} /\ k \notin VaultKinds
       /\ (k # "DEPLOY" => n \in Amount) /\ IsMap(al, Vout, Amount)
  <2>1. P!Nothing = Nothing
    BY DEF P!Nothing, Nothing
  <2> QED BY <1>6, <2>1, NothingIsMap DEF VaultKinds
<1>11. \E S : ins \in Seq(S)
  BY <1>8 DEF Pays
<1>12. tx = P!Tx(id, k, t, n, n, al, leaf, ins, os)
  BY <1>7, <1>9
<1>13. IsPsbt(tx) /\ tx.id \notin P!Used /\ tx.kind = k /\ tx.token = t /\ tx.ins = ins
  <2>1. k \in VaultKinds \cup {"DEPLOY", "TRANSFER"}
    BY <1>10
  <2>2. k # "DEPLOY" => n \in Amount
    BY <1>10
  <2>3. k \in VaultKinds => ins # <<>>
    BY <1>10
  <2>4. IsMap(al, Vout, Amount)
    BY <1>10
  <2>5. /\ tx.id = id /\ tx.kind = k /\ tx.token = t /\ tx.amount = n /\ tx.allocs = al /\ tx.ins = ins
        /\ tx = P!Tx(tx.id, tx.kind, tx.token, tx.amount, tx.to, tx.allocs, tx.leaf, tx.ins, tx.outs)
    BY <1>12, TxIs
  <2>6. id \in Fresh /\ id \notin P!Used
    BY DEF P!FreshIds
  <2> QED BY <1>11, <2>1, <2>2, <2>3, <2>4, <2>5, <2>6 DEF IsPsbt
<1>14. P!InputsOf(tx) \subseteq P!CoinOuts
  BY <1>8, <1>13, PaysInputs
<1>15. Loose(tx, idx, spent)
  BY <1>5, <1>6, <1>13, <1>14 DEF Loose, VaultKinds
<1>16. tx.kind = "DEPLOY" =>
         Maker[tx.token] = u /\ \A p \in pool : p.tx.kind = "DEPLOY" => p.tx.token # tx.token
  BY <1>5, <1>13
<1>17. Offered(u, tx, fill)
  BY <1>4, <1>9
<1> QED BY <1>1, <1>13, <1>15, <1>16, <1>17, OfferPath

(* A purchase spends the tip of the vault and coins.                       *)
LEMMA BuyPath ==
  ASSUME P!Sound, PathInv, NEW u \in User, NEW t \in Token, NEW n \in Amounts,
         NEW C, C \subseteq Coins[u], NEW fee, NEW id \in P!FreshIds, P!BuildBuy(u, t, n, C, fee, id)
  PROVE  PathInv'
<1>1. PICK fill : fill = P!NoFill
  OBVIOUS
<1>2. PICK z : z = P!Funds(u, C)
  OBVIOUS
<1> DEFINE v == P!View(t, P!NoStop)
           vb == v.backing[t]
           gross == P!Gross(vb.supply, vb.supply + n)
<1>3. P!Offer(u, P!buildMintPsbtV3(id, t, vb, n, u, z, fee), v, TRUE,
              LAMBDA tx : P!Intent("BACKING_BUY", tx, u, gross, MintFee(gross, n),
                                   CreatorFee(gross), P!Unstated), fill)
  BY <1>1, <1>2, Zenon DEF P!BuildBuy
<1>4. PICK b : b = vb
  OBVIOUS
<1>5. PICK built : built = P!buildMintPsbtV3(id, t, vb, n, u, z, fee)
  OBVIOUS
<1>6. built = P!buildMintPsbtV3(id, t, b, n, u, z, fee)
  BY <1>4, <1>5
<1>8. built.ok /\ Offered(u, built.tx, fill)
  BY <1>3, <1>5, Zenon DEF P!Offer, Offered
<1>9. built # P!Thrown
  BY <1>8, NotThrown
<1>10. PICK k, to, al, leaf, ins, outs :
         /\ k = "MINT" /\ al = P!Nothing /\ ins = P!VaultIn(b) \o z
         /\ built = P!Finish(id, k, t, n, to, al, leaf, ins, outs, u, fee)
  BY <1>6, <1>9, Zenon DEF P!buildMintPsbtV3
<1>11. PICK os : built.tx = P!Tx(id, k, t, n, to, al, leaf, ins, os)
  BY <1>8, <1>10, FinishIs
<1>12. k \in VaultKinds /\ IsMap(al, Vout, Amount) /\ n \in Amount
  <2>1. P!Nothing = Nothing
    BY DEF P!Nothing, Nothing
  <2>2. Amounts \subseteq Amount
    BY PathTypes DEF P!Sound
  <2> QED BY <1>10, <2>1, <2>2, NothingIsMap DEF VaultKinds
<1>13. Pays(z, P!CoinOuts)
  BY <1>2, FundsPay
<1>14. Pays(z, P!CoinOuts \cup DOMAIN idx.utxos)
  BY <1>13, PaysMore
<1>15. PICK tx : tx = built.tx
  OBVIOUS
<1>16. tx = P!Tx(id, k, t, n, to, al, leaf, P!VaultIn(b) \o z, os) /\ Offered(u, tx, fill)
  BY <1>8, <1>10, <1>11, <1>15
<1> QED BY <1>1, <1>12, <1>14, <1>16, VaultBuilt

(* Carriers selected are live carriers of the token.                       *)
LEMMA SelectedAre ==
  ASSUME NEW u, NEW t, NEW n, NEW S \in P!SelectCarriers(u, t, n)
  PROVE  S \subseteq DOMAIN idx.utxos /\ \A o \in S : idx.utxos[o].token = t
  BY DEF P!SelectCarriers, P!Mine

(* A change fits the envelope.                                             *)
LEMMA ChangeFits ==
  ASSUME NEW c \in 0 .. MaxAmount, c > 0
  PROVE  c \in Amount
  BY RulesAssumption DEF Amount

(* The inputs of a redemption, in order.                                   *)
LEMMA Joined ==
  ASSUME NEW b, NEW y, NEW z, NEW O, NEW Q, Pays(y, O), Pays(z, Q)
  PROVE  P!VaultIn(b) \o y \o z = P!VaultIn(b) \o (y \o z)
<1>1. PICK Y : y \in Seq(Y)
  BY DEF Pays
<1>2. PICK Z : z \in Seq(Z)
  BY DEF Pays
<1>3. PICK x : P!VaultIn(b) = <<x>>
  BY DEF P!VaultIn
<1>4. PICK w : w = <<x>>
  OBVIOUS
<1> DEFINE T == Y \cup Z \cup {x}
<1>5. y \in Seq(T) /\ z \in Seq(T) /\ w \in Seq(T)
  BY <1>1, <1>2, <1>4
<1> HIDE DEF T
<1>6. (w \o y) \o z = w \o (y \o z)
  BY <1>5
<1> QED BY <1>3, <1>4, <1>6

(* A redemption spends the tip, carriers of its token and coins.           *)
LEMMA RedeemPath ==
  ASSUME P!Sound, PathInv, NEW u \in User, NEW t \in Token, NEW n \in Amounts,
         NEW C, C \subseteq Coins[u], NEW fee, NEW id \in P!FreshIds, P!BuildRedeem(u, t, n, C, fee, id)
  PROVE  PathInv'
<1>1. PICK fill : fill = P!NoFill
  OBVIOUS
<1>2. PICK z : z = P!Funds(u, C)
  OBVIOUS
<1> DEFINE v == P!View(t, P!NoStop)
           vb == v.backing[t]
           gross == P!Gross(vb.supply, vb.supply - n)
<1>3. PICK S \in P!SelectCarriers(u, t, n) :
        P!Offer(u, P!buildRedeemPsbtV3(id, t, vb, n, u, P!AsInputs(S), P!Atoms(idx.utxos, S), z, fee),
          v, TRUE, LAMBDA tx : P!Intent("REDEEM", tx, u, gross, RedeemFee(gross), P!Unstated,
                                        gross - RedeemFee(gross)), fill)
  BY <1>1, <1>2, Zenon DEF P!BuildRedeem
<1>4. PICK b : b = vb
  OBVIOUS
<1>5. PICK y : y = P!AsInputs(S)
  OBVIOUS
<1>6. PICK held : held = P!Atoms(idx.utxos, S)
  OBVIOUS
<1>7. PICK built : built = P!buildRedeemPsbtV3(id, t, vb, n, u, P!AsInputs(S), P!Atoms(idx.utxos, S), z, fee)
  OBVIOUS
<1>9. built = P!buildRedeemPsbtV3(id, t, b, n, u, y, held, z, fee)
  BY <1>4, <1>5, <1>6, <1>7
<1>11. built.ok /\ Offered(u, built.tx, fill)
  BY <1>3, <1>7, Zenon DEF P!Offer, Offered
<1>12. built # P!Thrown
  BY <1>11, NotThrown
<1>13. PICK c : c = held - n
  OBVIOUS
<1>14. /\ c \in 0 .. MaxAmount
       /\ \E k, to, al, leaf, ins, outs :
         /\ k = "REDEEM" /\ ins = P!VaultIn(b) \o y \o z
         /\ al = IF c > 0 THEN [w \in {4} |-> c] ELSE P!Nothing
         /\ built = P!Finish(id, k, t, n, to, al, leaf, ins, outs, u, fee)
  BY <1>9, <1>12, <1>13, Zenon DEF P!buildRedeemPsbtV3
<1>15. PICK k, to, al, leaf, ins, outs :
         /\ k = "REDEEM" /\ ins = P!VaultIn(b) \o y \o z
         /\ al = IF c > 0 THEN [w \in {4} |-> c] ELSE P!Nothing
         /\ built = P!Finish(id, k, t, n, to, al, leaf, ins, outs, u, fee)
  BY <1>14
<1>16. PICK os : built.tx = P!Tx(id, k, t, n, to, al, leaf, ins, os)
  <2>1. built = P!Finish(id, k, t, n, to, al, leaf, ins, outs, u, fee)
    BY <1>15, Zenon
  <2>2. built.ok
    BY <1>11
  <2> QED BY <2>1, <2>2, FinishIs
<1>17. k \in VaultKinds /\ n \in Amount
  <2>1. Amounts \subseteq Amount
    BY PathTypes DEF P!Sound
  <2> QED BY <1>15, <2>1 DEF VaultKinds
<1>18. IsMap(al, Vout, Amount)
  <2>1. CASE c > 0
    <3>1. c \in Amount
      BY <1>14, <2>1, ChangeFits
    <3>2. al = [w \in {4} |-> c]
      BY <1>15, <2>1
    <3>3. DOMAIN al = {4} /\ al \in [{4} -> Amount] /\ 4 \in Vout
      BY <3>1, <3>2, RulesAssumption
    <3>4. IsFiniteSet({4})
      BY FS_Singleton
    <3> QED BY <3>3, <3>4 DEF IsMap
  <2>2. CASE ~(c > 0)
    <3>1. al = Nothing
      BY <1>15, <2>2 DEF P!Nothing, Nothing
    <3> QED BY <3>1, NothingIsMap
  <2> QED BY <2>1, <2>2
<1>19. Pays(z, P!CoinOuts) /\ Pays(y, S)
  <2>1. Pays(z, P!CoinOuts)
    BY <1>2, FundsPay
  <2>2. PathIndex(idx, mined) /\ S \subseteq DOMAIN idx.utxos
    BY <1>3, SelectedAre DEF PathInv
  <2>3. Pays(y, S)
    BY <1>5, <2>2, CarriersPay
  <2> QED BY <2>1, <2>3
<1>20. Pays(y \o z, P!CoinOuts \cup DOMAIN idx.utxos)
  <2>1. S \subseteq DOMAIN idx.utxos
    BY <1>3, SelectedAre
  <2>2. Pays(z, P!CoinOuts \cup DOMAIN idx.utxos)
    BY <1>19, PaysMore
  <2>3. S \subseteq P!CoinOuts \cup DOMAIN idx.utxos
    BY <2>1
  <2>4. Pays(y, P!CoinOuts \cup DOMAIN idx.utxos)
    BY <1>19, <2>3, PaysMore
  <2> QED BY <2>2, <2>4, PaysBoth
<1>21. ins = P!VaultIn(b) \o (y \o z)
  BY <1>15, <1>19, Joined
<1>22. PICK tx : tx = built.tx
  OBVIOUS
<1>23. PICK yz : yz = y \o z
  OBVIOUS
<1>24. tx = P!Tx(id, k, t, n, to, al, leaf, P!VaultIn(b) \o yz, os) /\ Offered(u, tx, fill)
  BY <1>11, <1>16, <1>21, <1>22, <1>23
<1>25. Pays(yz, P!CoinOuts \cup DOMAIN idx.utxos)
  BY <1>20, <1>23
<1> QED BY <1>1, <1>17, <1>18, <1>24, <1>25, VaultBuilt

(* A transfer spends carriers of its token and coins.                      *)
LEMMA TransferBuilt ==
  ASSUME P!Sound, PathInv, NEW u \in User, NEW id \in P!FreshIds, NEW t \in Token,
         t \in DOMAIN idx.backing, NEW n \in Amount, NEW from, NEW to, NEW S,
         S \subseteq DOMAIN idx.utxos, \A o \in S : idx.utxos[o].token = t, NEW held,
         NEW C, C \subseteq Coins[u], NEW btc, NEW fee, NEW built,
         built = P!buildTransferPsbtV2(id, t, n, from, to, P!AsInputs(S), held, u, P!Funds(u, C), btc, fee),
         built.ok, NEW fill, Offered(u, built.tx, fill)
  PROVE  PathInv'
<1>1. PICK z : z = P!Funds(u, C)
  OBVIOUS
<1>2. PICK y : y = P!AsInputs(S)
  OBVIOUS
<1>3. built # P!Thrown
  BY NotThrown
<1>4. PICK c : c = held - n
  OBVIOUS
<1>5. built = P!buildTransferPsbtV2(id, t, n, from, to, y, held, u, z, btc, fee)
  BY <1>1, <1>2
<1>6. /\ c \in 0 .. MaxAmount
      /\ \E k, a, al, leaf, ins, outs :
           /\ k = "TRANSFER" /\ ins = y \o z
           /\ al = [w \in (IF c > 0 THEN {1, 2} ELSE {1}) |-> IF w = 1 THEN n ELSE c]
           /\ built = P!Finish(id, k, t, n, a, al, leaf, ins, outs, u, fee)
  BY <1>3, <1>4, <1>5, Zenon DEF P!buildTransferPsbtV2
<1>7. PICK k, a, al, leaf, ins, outs :
        /\ k = "TRANSFER" /\ ins = y \o z
        /\ al = [w \in (IF c > 0 THEN {1, 2} ELSE {1}) |-> IF w = 1 THEN n ELSE c]
        /\ built = P!Finish(id, k, t, n, a, al, leaf, ins, outs, u, fee)
  BY <1>6
<1>8. PICK os : built.tx = P!Tx(id, k, t, n, a, al, leaf, ins, os)
  <2>1. built = P!Finish(id, k, t, n, a, al, leaf, ins, outs, u, fee)
    BY <1>7, Zenon
  <2> QED BY <2>1, FinishIs
<1>9. IsMap(al, Vout, Amount)
  <2>1. {1, 2} \subseteq Vout /\ IsFiniteSet({1}) /\ IsFiniteSet({1, 2})
    <3>1. IsFiniteSet({1} \cup {2}) /\ IsFiniteSet({1})
      BY FS_Singleton, FS_AddElement
    <3>2. {1} \cup {2} = {1, 2}
      OBVIOUS
    <3> QED BY <3>1, <3>2, RulesAssumption
  <2>2. CASE c > 0
    <3>1. c \in Amount
      BY <1>6, <2>2, ChangeFits
    <3>2. al = [w \in {1, 2} |-> IF w = 1 THEN n ELSE c]
      BY <1>7, <2>2
    <3>3. DOMAIN al = {1, 2} /\ al \in [{1, 2} -> Amount]
      BY <3>1, <3>2
    <3> QED BY <2>1, <3>3 DEF IsMap
  <2>3. CASE ~(c > 0)
    <3>1. al = [w \in {1} |-> IF w = 1 THEN n ELSE c]
      BY <1>7, <2>3
    <3>2. DOMAIN al = {1} /\ al \in [{1} -> Amount]
      BY <3>1
    <3> QED BY <2>1, <3>2 DEF IsMap
  <2> QED BY <2>2, <2>3
<1>10. Pays(ins, P!CoinOuts \cup S)
  <2>1. Pays(z, P!CoinOuts)
    BY <1>1, FundsPay
  <2>2. PathIndex(idx, mined)
    BY DEF PathInv
  <2>3. Pays(y, S)
    BY <1>2, <2>2, CarriersPay
  <2>4. Pays(z, P!CoinOuts \cup S)
    BY <2>1, PaysMore
  <2>5. S \subseteq P!CoinOuts \cup S
    OBVIOUS
  <2>6. Pays(y, P!CoinOuts \cup S)
    BY <2>3, <2>5, PaysMore
  <2>7. Pays(y \o z, P!CoinOuts \cup S)
    BY <2>4, <2>6, PaysBoth
  <2> QED BY <1>7, <2>7
<1>11. PICK tx : tx = built.tx
  OBVIOUS
<1>12. k \in VaultKinds \cup {"DEPLOY", "TRANSFER"} /\ k # "DEPLOY" /\ k \notin VaultKinds
  BY <1>7 DEF VaultKinds
<1>13. \E T : ins \in Seq(T)
  BY <1>10 DEF Pays
<1>14. tx = P!Tx(id, k, t, n, a, al, leaf, ins, os)
  BY <1>8, <1>11
<1>15. IsPsbt(tx) /\ tx.id \notin P!Used /\ tx.kind = k /\ tx.token = t /\ tx.ins = ins
  <2>1. /\ tx.id = id /\ tx.kind = k /\ tx.token = t /\ tx.amount = n /\ tx.allocs = al /\ tx.ins = ins
        /\ tx = P!Tx(tx.id, tx.kind, tx.token, tx.amount, tx.to, tx.allocs, tx.leaf, tx.ins, tx.outs)
    BY <1>14, TxIs
  <2>2. id \in Fresh /\ id \notin P!Used
    BY DEF P!FreshIds
  <2> QED BY <1>9, <1>12, <1>13, <2>1, <2>2 DEF IsPsbt
<1>16. P!InputsOf(tx) \subseteq P!CoinOuts \cup S
  BY <1>10, <1>15, PaysInputs
<1>17. Loose(tx, idx, spent)
  BY <1>12, <1>15, <1>16 DEF Loose
<1>18. Offered(u, tx, fill)
  BY <1>11
<1>19. tx.kind = "TRANSFER" /\ tx.kind # "DEPLOY"
  BY <1>7, <1>15
<1> QED BY <1>15, <1>17, <1>18, <1>19, OfferPath

(* A transfer asked for by the holder.                                     *)
LEMMA TransferPath ==
  ASSUME P!Sound, PathInv, NEW u \in User, NEW t \in Token, NEW n \in Amounts, NEW to,
         NEW C, C \subseteq Coins[u], NEW fee, NEW id \in P!FreshIds,
         P!BuildTransfer(u, t, n, to, C, fee, id)
  PROVE  PathInv'
<1>1. PICK fill : fill = P!NoFill
  OBVIOUS
<1>2. PICK btc : btc = <<>>
  OBVIOUS
<1>3. PICK S \in P!SelectCarriers(u, t, n) :
        P!Offer(u, P!buildTransferPsbtV2(id, t, n, u, to, P!AsInputs(S), P!Atoms(idx.utxos, S),
                     u, P!Funds(u, C), btc, fee), idx, FALSE,
          LAMBDA tx : P!Intent("TRANSFER", tx, u, P!Unstated, P!Unstated, P!Unstated, P!Unstated), fill)
  BY <1>1, <1>2, Zenon DEF P!BuildTransfer
<1>4. PICK held : held = P!Atoms(idx.utxos, S)
  OBVIOUS
<1>5. PICK built : built = P!buildTransferPsbtV2(id, t, n, u, to, P!AsInputs(S), held,
                             u, P!Funds(u, C), btc, fee)
  OBVIOUS
<1>6. built.ok /\ Offered(u, built.tx, fill)
  BY <1>3, <1>4, <1>5, Zenon DEF P!Offer, Offered
<1>7. S \subseteq DOMAIN idx.utxos /\ \A o \in S : idx.utxos[o].token = t
  BY <1>3, SelectedAre
<1>8. n \in Amount /\ t \in DOMAIN idx.backing
  BY PathTypes DEF P!Sound, P!BuildTransfer
<1> QED BY <1>5, <1>6, <1>7, <1>8, TransferBuilt

(* A fill is a transfer of the seller's carrier.                           *)
LEMMA FillPath ==
  ASSUME P!Sound, PathInv, NEW u \in User, NEW o \in DOMAIN idx.utxos, NEW n \in Amounts, NEW price,
         NEW C, C \subseteq Coins[u], NEW fee, NEW id \in P!FreshIds,
         P!BuildFill(u, o, n, price, C, fee, id)
  PROVE  PathInv'
<1>1. PICK t : t = idx.utxos[o].token
  OBVIOUS
<1>2. PICK S : S = {o}
  OBVIOUS
<1>3. PICK btc : btc = <<P!Out(P!Payment(own[o]), price), P!Out(P!FeeScript, P2PFee(price))>>
  OBVIOUS
<1>4. PICK built : built = P!buildTransferPsbtV2(id, t, n, own[o], u, P!AsInputs(S), idx.utxos[o].amount,
                             u, P!Funds(u, C), btc, fee)
  OBVIOUS
<1>5. PICK fill :
        P!Offer(u, built, idx, FALSE,
           LAMBDA tx : [P!Intent("P2P_BUY", tx, u, price, P2PFee(price), P!Unstated, P!Unstated)
                          EXCEPT !.delta = P!Unstated], fill)
  BY <1>1, <1>2, <1>3, <1>4, Zenon DEF P!BuildFill
<1>6. built.ok /\ Offered(u, built.tx, fill)
  BY <1>5, Zenon DEF P!Offer, Offered
<1>7. t \in DOMAIN idx.backing /\ t \in Token
  BY <1>1 DEF PathInv, PathIndex, IsMap
<1>8. S \subseteq DOMAIN idx.utxos /\ \A x \in S : idx.utxos[x].token = t
  BY <1>1, <1>2
<1>9. n \in Amount
  BY PathTypes DEF P!Sound
<1>10. PICK from, held : from = own[o] /\ held = idx.utxos[o].amount
  OBVIOUS
<1>11. built = P!buildTransferPsbtV2(id, t, n, from, u, P!AsInputs(S), held, u, P!Funds(u, C), btc, fee)
  BY <1>4, <1>10
<1> QED BY <1>6, <1>7, <1>8, <1>9, <1>11, TransferBuilt

-----------------------------------------------------------------------------
(* Before anything is built.                                               *)
LEMMA PathBegins ==
  ASSUME P!Sound, P!Init
  PROVE  PathInv
<1>1. PICK s \in Seed : idx = s.idx /\ own = s.own
  BY DEF P!Init
<1>2. pool = {} /\ spent = {} /\ mined = {} /\ req = [u \in User |-> P!Idle]
  BY DEF P!Init
<1>3. /\ P!IsMap(s.idx.backing, Token, P!Backing) /\ P!IsMap(s.idx.utxos, P!Outpoint, P!Utxo)
      /\ s.idx = [backing |-> s.idx.backing, utxos |-> s.idx.utxos]
      /\ DOMAIN s.own = DOMAIN s.idx.utxos
      /\ \A o \in DOMAIN s.idx.utxos :
           /\ o[1] \notin Fresh /\ o \notin P!CoinOuts
           /\ s.idx.utxos[o].token \in DOMAIN s.idx.backing
      /\ \A t \in DOMAIN s.idx.backing :
           s.idx.backing[t].out[1] \notin Fresh /\ s.idx.backing[t].out \notin DOMAIN s.idx.utxos
  BY DEF P!Sound
<1>4. /\ IsMap(s.idx.backing, Token, Backing) /\ IsMap(s.idx.utxos, Outpoint, Utxo)
  BY <1>3, PathCounts, PathTypes
<1>5. PathIndex(idx, mined) /\ DOMAIN own = DOMAIN idx.utxos
  BY <1>1, <1>3, <1>4 DEF PathIndex
<1>6. PoolInv(idx, pool, spent, mined) /\ P!SignedIsApplied
  BY <1>2 DEF PoolInv, P!SignedIsApplied
<1>7. ReqInv(req, idx, pool, spent, mined)
  <2>1. req \in [User -> {req[u] : u \in User}]
    BY <1>2
  <2>2. \A u \in User : req[u].phase = "idle"
    BY <1>2 DEF P!Idle
  <2> QED BY <2>1, <2>2 DEF ReqInv, Phases
<1> QED BY <1>5, <1>6, <1>7 DEF PathInv

(* Every step keeps it.                                                    *)
LEMMA PathStep ==
  ASSUME P!Sound, PathInv, [P!Next]_(P!vars)
  PROVE  PathInv'
<1>1. ASSUME NEW u \in User, NEW id \in P!FreshIds, NEW fee \in MinerFees,
             NEW C \in {{}, P!Unspent(u)} \cup {{c} : c \in P!Unspent(u)},
             \/ \E t \in Token : P!BuildLaunch(u, t, C, fee, id)
             \/ \E t \in Token, n \in Amounts :
                  \/ P!BuildBuy(u, t, n, C, fee, id)
                  \/ P!BuildRedeem(u, t, n, C, fee, id)
                  \/ \E to \in User : P!BuildTransfer(u, t, n, to, C, fee, id)
             \/ \E o \in DOMAIN idx.utxos, n \in Amounts, price \in Prices :
                  P!BuildFill(u, o, n, price, C, fee, id)
      PROVE  PathInv'
  <2>1. C \subseteq Coins[u]
    BY <1>1 DEF P!Unspent
  <2>2. CASE \E t \in Token : P!BuildLaunch(u, t, C, fee, id)
    BY <2>1, <2>2, LaunchPath
  <2>3. ASSUME NEW t \in Token, NEW n \in Amounts, P!BuildBuy(u, t, n, C, fee, id) PROVE PathInv'
    BY <2>1, <2>3, BuyPath
  <2>4. ASSUME NEW t \in Token, NEW n \in Amounts, P!BuildRedeem(u, t, n, C, fee, id) PROVE PathInv'
    BY <2>1, <2>4, RedeemPath
  <2>5. ASSUME NEW t \in Token, NEW n \in Amounts, NEW to \in User,
               P!BuildTransfer(u, t, n, to, C, fee, id)
        PROVE  PathInv'
    BY <2>1, <2>5, TransferPath
  <2>6. ASSUME NEW o \in DOMAIN idx.utxos, NEW n \in Amounts, NEW price \in Prices,
               P!BuildFill(u, o, n, price, C, fee, id)
        PROVE  PathInv'
    BY <2>1, <2>6, FillPath
  <2> QED BY <1>1, <2>2, <2>3, <2>4, <2>5, <2>6
<1>2. ASSUME NEW u \in User,
             P!Alter(u) \/ P!Check(u) \/ P!SellerSign(u) \/ P!Sign(u) \/ P!Broadcast(u) \/ P!GiveUp(u)
      PROVE  PathInv'
  BY <1>2, AlterPath, CheckPath, SellerSignPath, SignPath, BroadcastPath, GiveUpPath
<1>3. ASSUME NEW p \in pool, P!MineTx(p) PROVE PathInv'
  BY <1>3, MinePath
<1>4. CASE UNCHANGED P!vars
  <2>1. idx' = idx /\ own' = own /\ pool' = pool /\ spent' = spent /\ req' = req /\ mined' = mined
    BY <1>4 DEF P!vars
  <2>2. PathIndex(idx', mined') /\ DOMAIN own' = DOMAIN idx'.utxos
    BY <2>1 DEF PathInv
  <2>3. PoolInv(idx', pool', spent', mined')
    BY <2>1 DEF PathInv
  <2>4. ReqInv(req', idx', pool', spent', mined')
    BY <2>1 DEF PathInv
  <2>5. P!SignedIsApplied'
    BY <2>1 DEF PathInv, P!SignedIsApplied
  <2> QED BY <2>2, <2>3, <2>4, <2>5 DEF PathInv
<1>5. CASE P!Next
  BY <1>1, <1>2, <1>3, <1>5 DEF P!Next
<1> QED BY <1>4, <1>5

(* What is wanted follows.                                                 *)
LEMMA PathAgrees ==
  ASSUME PathInv
  PROVE  Agreement
<1>1. P!IsMap(idx.backing, Token, P!Backing) /\ P!IsMap(idx.utxos, P!Outpoint, P!Utxo)
  BY PathCounts, PathTypes DEF PathInv, PathIndex
<1>2. \A p \in pool : P!InputsOf(p.tx) \subseteq spent
  BY DEF PathInv, PoolInv, PoolTx
<1>3. \A u \in User : req[u].phase \in Phases
  BY DEF PathInv, ReqInv
<1>4. P!TypeOK
  BY <1>1, <1>2, <1>3 DEF P!TypeOK, PathInv, Phases
<1> QED BY <1>4 DEF Agreement, PathInv

(* What the Guardian signs, changed on the way or not, and what the app    *)
(* finalizes, the indexer applies as that very operation and burns nothing *)
(* of, in whatever order it is broadcast and mined: validateMintTransition *)
(* V3 and its siblings, validateFinalized..., and applyTx agree, for every *)
(* number of users, tokens, coins and transactions.                        *)
THEOREM PathIsAgreed == P!Spec => []Agreement
<1>1. P!Init => PathInv
  BY PathBegins, PipelineAssumption
<1>2. PathInv /\ [P!Next]_(P!vars) => PathInv'
  BY PathStep, PipelineAssumption
<1>3. PathInv => Agreement
  BY PathAgrees
<1> QED BY <1>1, <1>2, <1>3, PTL DEF P!Spec
=============================================================================
