------------------------------ MODULE BlockTree ------------------------------
(* The tree of blocks the Bitcoin network may produce.  A block hash       *)
(* commits to the whole history below it, so the ancestors of a block are  *)
(* a function of the block; a transaction occurs once in a chain.          *)
EXTENDS Integers, Maps

CONSTANTS Block,       \* the blocks any miner may produce
          NoBlock,     \* the empty cursor { height: 0, blockHash: "" }
          Height,      \* Height[b]: the height of a block
          Ancestor,    \* Ancestor[b][h]: its ancestor at height h
          CoveTxs,     \* CoveTxs[b]: the Cove transactions of a block
          Activation   \* config.genesisHeight, the activation height

ASSUME ChainAssumption ==
  /\ NoBlock \notin Block
  /\ Activation \in Nat \ {0}
  /\ \A b \in Block : Height[b] \in Nat \ {0}
  /\ Height[NoBlock] = 0
  /\ \A b \in Block : \A h \in 1 .. Height[b] :
       /\ Ancestor[b][h] \in Block
       /\ Height[Ancestor[b][h]] = h
       /\ \A k \in 1 .. h : Ancestor[Ancestor[b][h]][k] = Ancestor[b][k]
       /\ h = Height[b] => Ancestor[b][h] = b
       /\ h < Height[b] => CoveTxs[Ancestor[b][h]] \cap CoveTxs[b] = {}

Cursor == Block \cup {NoBlock}

(* Where the index stands once block b is taken back: on the block below,  *)
(* or nowhere if b is at the activation height.                            *)
Parent(b) ==
  IF Height[b] = Activation THEN NoBlock ELSE Ancestor[b][Height[b] - 1]

(* The journal of a clean replay up to block b: the blocks applied, by     *)
(* height, none below the activation height.                               *)
Replay(b) == [h \in Activation .. Height[b] |-> Ancestor[b][h]]
=============================================================================
