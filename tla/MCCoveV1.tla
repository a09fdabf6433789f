------------------------------ MODULE MCCoveV1 ------------------------------
(* One ticker, two users and a supply of two tokens, the first of which    *)
(* alone is below the least contribution.  At first the token is deployed, *)
(* or deployed and minted.                                                 *)
EXTENDS CoveV1

MCPrice == <<2, 3>>
MCFee(q) == 1
Deploy == buildCoveDeployPsbt("ann", "FROG")
Mint == buildCoveMintPsbt("ann", "FROG", 2, 0, "ann")
Blocks(ts) == [h \in 1 .. Len(ts) |-> [txs |-> ts[h], salt |-> 0]]
MCPast == {[chain |-> Blocks(<<<<>>, <<1>>>>), txs |-> <<Deploy>>],
           [chain |-> Blocks(<<<<>>, <<1>>, <<2>>>>), txs |-> <<Deploy, Mint>>]}
=============================================================================
