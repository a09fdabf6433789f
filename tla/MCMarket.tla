------------------------------ MODULE MCMarket ------------------------------
(* One token output for sale, offered by two orders. *)
EXTENDS Market

CONSTANTS l1, l2, src

TwoListings == {l1, l2}
MCSource == [l \in TwoListings |-> src]
=============================================================================
