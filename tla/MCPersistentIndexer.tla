------------------------ MODULE MCPersistentIndexer ------------------------
(* A block is the sequence of the branches its chain takes: two branches   *)
(* from height 1 and a fork of the first one at height 3.                  *)
EXTENDS PersistentIndexer, Sequences

Tips == {<<"a", "a", "a", "a">>, <<"a", "a", "b", "b">>, <<"b", "b", "b", "b">>}
MCBlock == {SubSeq(t, 1, h) : t \in Tips, h \in 1 .. 4}
MCHeight == [b \in MCBlock \cup {<<>>} |-> Len(b)]
MCAncestor == [b \in MCBlock |-> [h \in 1 .. Len(b) |-> SubSeq(b, 1, h)]]

(* The payment t is mined at height 3 on the first branch, at height 4 on  *)
(* its fork and at height 2 on the other branch.                           *)
MCCoveTxs == [b \in MCBlock |->
                IF b \in {<<"a", "a", "a">>, <<"a", "a", "b", "b">>, <<"b", "b">>}
                  THEN {"t"} ELSE {}]
NoBlockSeq == <<>>
=============================================================================
