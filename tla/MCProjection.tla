---------------------------- MODULE MCProjection ----------------------------
(* One token of two units, two users, and two demo tokens: one graduated,  *)
(* one live and minted in part, whose ticker users may deploy too.  The    *)
(* story begins with mints waiting on the live one and on the new token,   *)
(* with the new token sold out, or with it graduated, a unit on offer and  *)
(* a bid for it waiting.                                                   *)
EXTENDS Projection

MCPrice == <<2, 3>>
MCPlatformFee(q) == 1
MCSeeds == {[id |-> 100, ticker |-> "TREE", minted |-> 2, graduated |-> TRUE],
            [id |-> 101, ticker |-> "FROG", minted |-> 1, graduated |-> FALSE]}

Deploy == Tx("DEPLOY", "ann", [ticker |-> "NEW", outs |-> <<<<Treasury, LaunchFee>>>>])
MintAll == Tx("MINT", "ann", [dep |-> 1, amount |-> 2,
                              outs |-> <<<<Reserve, 5>>, <<Treasury, 1>>>>])
Ask == Tx("DEX_ASK", "ann", [dep |-> 1, amount |-> 1, price |-> 2, expiry |-> 7])
MintOne == Tx("MINT", "bob", [dep |-> 1, amount |-> 1, outs |-> <<<<Reserve, 2>>, <<Treasury, 1>>>>])
MintDemo == Tx("MINT", "bob", [dep |-> 101, amount |-> 1, before |-> 1,
                              outs |-> <<<<Reserve, 3>>, <<Treasury, 1>>>>])
Graduation == Tx("GRADUATION", Treasury, [dep |-> 1])
Bid == Tx("DEX_BID", "bob", [lid |-> 4, dep |-> 1, outs |-> <<<<"ann", 2>>>>])
SoldOut == <<<<Deploy>>, <<MintAll>>>>
Listed == SoldOut \o <<<<>>, <<Graduation>>, <<Ask>>>>
MCPast == {[mined |-> <<<<Deploy>>>>, waiting |-> <<MintDemo, MintOne>>],
           [mined |-> SoldOut, waiting |-> <<>>],
           [mined |-> Listed, waiting |-> <<Bid>>]}
=============================================================================
