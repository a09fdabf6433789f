----------------------------- MODULE MCReindex -----------------------------
(* Two branches from height 3 and one from height 2; the payment t is      *)
(* mined at different heights of them, s only on one, and u below the      *)
(* activation height, where the index ignores it.                          *)
EXTENDS Reindex, Sequences

Tips == {<<"a", "a", "a", "a">>, <<"a", "a", "b", "b">>, <<"a", "b", "b">>}
MCBlock == UNION {{SubSeq(t, 1, h) : h \in 1 .. Len(t)} : t \in Tips}
MCHeight == [b \in MCBlock \cup {<<>>} |-> Len(b)]
MCAncestor == [b \in MCBlock |-> [h \in 1 .. Len(b) |-> SubSeq(b, 1, h)]]
MCCoveTxs == [b \in MCBlock |->
  CASE b \in {<<"a", "a", "a">>, <<"a", "a", "b", "b">>, <<"a", "b">>} -> {"t"}
    [] b = <<"a", "a", "a", "a">> -> {"s"}
    [] b = <<"a">> -> {"u"}
    [] OTHER -> {}]
NoBlockSeq == <<>>
=============================================================================
