----------------------------- MODULE MapTheorems -----------------------------
(***************************************************************************)
(* Facts about the finite maps of module Maps and about the natural        *)
(* numbers that the proofs of several components need.                     *)
(***************************************************************************)
EXTENDS Integers, Maps, FiniteSetTheorems, WellFoundedInduction, TLAPS

(* Map.set. *)
LEMMA PutKey ==
  ASSUME NEW f, NEW k, NEW v
  PROVE  /\ DOMAIN PutAt(f, k, v) = DOMAIN f \cup {k}
         /\ PutAt(f, k, v)[k] = v
         /\ \A x \in DOMAIN f : x # k => PutAt(f, k, v)[x] = f[x]
  BY DEF PutAt

LEMMA PutKeyType ==
  ASSUME NEW K, NEW V, NEW f, IsMap(f, K, V), NEW k \in K, NEW v \in V
  PROVE  IsMap(PutAt(f, k, v), K, V)
<1> DEFINE g == PutAt(f, k, v)
<1>1. DOMAIN g = DOMAIN f \cup {k}
  BY PutKey
<1>2. g \in [DOMAIN f \cup {k} -> V]
  BY DEF PutAt, IsMap
<1>3. IsFiniteSet(DOMAIN f \cup {k})
  BY FS_AddElement DEF IsMap
<1> HIDE DEF g
<1>4. IsMap(g, K, V)
  BY <1>1, <1>2, <1>3 DEF IsMap
<1> QED BY <1>4 DEF g

(* Map.delete of some keys. *)
LEMMA DelKeyType ==
  ASSUME NEW K, NEW V, NEW f, IsMap(f, K, V), NEW D
  PROVE  IsMap(Del(f, D), K, V)
<1> DEFINE g == Del(f, D)
<1>1. DOMAIN g = DOMAIN f \ D /\ g \in [DOMAIN f \ D -> V]
  BY DEF Del, IsMap
<1>2. IsFiniteSet(DOMAIN f \ D)
  BY FS_Subset DEF IsMap
<1> HIDE DEF g
<1>3. IsMap(g, K, V)
  BY <1>1, <1>2 DEF IsMap
<1> QED BY <1>3 DEF g

(* The empty map. *)
LEMMA NothingIsMap ==
  /\ DOMAIN Nothing = {}
  /\ \A K, V : IsMap(Nothing, K, V)
<1>1. DOMAIN Nothing = {} /\ \A V : Nothing \in [{} -> V]
  BY DEF Nothing
<1> QED BY <1>1, FS_EmptySet DEF IsMap

(* Every nonempty set of natural numbers has a least element: the form in  *)
(* which the proofs use induction.                                         *)
LEMMA LeastNat ==
  ASSUME NEW T \in SUBSET Nat, T # {}
  PROVE  \E n \in T : \A m \in T : n <= m
<1> DEFINE R == {ss \in Nat \X Nat : ss[1] < ss[2]}
<1>1. IsWellFoundedOn(R, Nat)
  BY NatLessThanWellFounded DEF OpToRel
<1>2. \A m, n \in Nat : m < n => <<m, n>> \in R
  OBVIOUS
<1> HIDE DEF R
<1>3. PICK n \in T : \A m \in T : <<m, n>> \notin R
  BY <1>1, WFMin
<1>4. \A m \in T : ~(m < n)
  BY <1>2, <1>3
<1> QED BY <1>4

(* And a greatest one, if it is bounded. *)
LEMMA GreatestNat ==
  ASSUME NEW T \in SUBSET Nat, T # {}, NEW b \in Nat, \A t \in T : t <= b
  PROVE  \E n \in T : \A m \in T : n >= m
<1> DEFINE U == {u \in Nat : \A t \in T : t <= u}
<1>1. U \in SUBSET Nat /\ U # {} /\ \A u \in U : \A t \in T : t <= u
  OBVIOUS
<1>2. \A u \in Nat : (\A t \in T : t <= u) => u \in U
  OBVIOUS
<1> HIDE DEF U
<1>3. PICK u \in U : \A v \in U : u <= v
  BY <1>1, LeastNat
<1>4. ASSUME u \notin T PROVE FALSE
  <2>1. u \in Nat /\ \A t \in T : t \in Nat /\ t <= u /\ t # u
    BY <1>1, <1>4
  <2>2. PICK s : s \in T
    BY Zenon
  <2>3. u > 0
    BY <2>1, <2>2
  <2>4. u - 1 \in Nat /\ \A t \in T : t <= u - 1
    BY <2>1, <2>3
  <2> QED BY <1>2, <1>3, <2>1, <2>4
<1> QED BY <1>1, <1>3, <1>4

(* At most one element: at most a singleton. *)
LEMMA AtMostOne ==
  ASSUME NEW S, NEW x, S \subseteq {x}
  PROVE  IsFiniteSet(S) /\ Cardinality(S) <= 1
<1>1. IsFiniteSet({x}) /\ Cardinality({x}) = 1
  BY FS_Singleton
<1> QED BY <1>1, FS_Subset
=============================================================================
