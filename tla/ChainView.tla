------------------------------ MODULE ChainView ------------------------------
(***************************************************************************)
(* What the V3 index promises its readers: it is always the clean replay   *)
(* of one chain, from the activation height to the block it calls its      *)
(* cursor, and it moves along the tree of blocks one block at a time.  An  *)
(* index that was torn promises nothing any more.                          *)
(***************************************************************************)
EXTENDS BlockTree

VARIABLES view,   \* the block the index stands at
          torn    \* it no longer is the replay of one chain

Init == view = NoBlock /\ torn = FALSE

(* The next block of some chain. *)
Grow ==
  \E b \in Block :
    /\ Height[b] >= Activation
    /\ view = Parent(b)
    /\ view' = b
    /\ UNCHANGED torn

(* The parent of the current block. *)
Shrink ==
  /\ view # NoBlock
  /\ view' = Parent(view)
  /\ UNCHANGED torn

(* A write the history calls tearing; none is undone. *)
Tear ==
  /\ torn' = TRUE
  /\ view' \in Cursor

Next == Grow \/ Shrink \/ Tear

Spec == Init /\ [][Next]_<<view, torn>>
=============================================================================
