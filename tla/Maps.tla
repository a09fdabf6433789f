-------------------------------- MODULE Maps --------------------------------
(* Finite maps as functions: the JavaScript Maps and the keyed tables of   *)
(* the code.                                                               *)
EXTENDS FiniteSets

(* f is a finite map from keys in K to values in V. *)
IsMap(f, K, V) ==
  /\ f \in [DOMAIN f -> V]
  /\ DOMAIN f \subseteq K
  /\ IsFiniteSet(DOMAIN f)

Nothing == [o \in {} |-> 0]

(* Map.set, and Map.set and Map.delete for all the keys of a map, of a set. *)
PutAt(f, k, v) == [x \in DOMAIN f \cup {k} |-> IF x = k THEN v ELSE f[x]]
Put(f, g) == [k \in DOMAIN f \cup DOMAIN g |->
                IF k \in DOMAIN g THEN g[k] ELSE f[k]]
Del(f, K) == [k \in DOMAIN f \ K |-> f[k]]
=============================================================================
