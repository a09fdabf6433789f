----------------------------- MODULE MCPipeline -----------------------------
(***************************************************************************)
(* Model checking of one transaction through the checks: what it does      *)
(* (Pipeline) and the bytes that say so (WireFormat).  The two share no    *)
(* state, so a behaviour is one of one of them; part says which.           *)
(***************************************************************************)
EXTENDS TransactionPath, TLC

(* A curve of three lots, fees that differ from one another, and dust at   *)
(* which change is sometimes worth an output and sometimes not.            *)
mcR == [s \in 0 .. 6 |-> IF s <= 2 THEN 100 * s ELSE 200 * s - 200]
mcMintFee(g, n) == 40 + n
mcCreatorFee(g) == 30 + g \div 2
mcRedeemFee(g) == 25
mcP2PFee(p) == 20 + p \div 40
mcDust == [p2tr |-> 20, p2wpkh |-> 20, p2sh |-> 20, vault |-> 20]
mcMaker == [t1 |-> "u", t2 |-> "w"]
mcCoins == [u |-> {[out |-> <<"f1", 1>>, value |-> 1000], [out |-> <<"f2", 1>>, value |-> 76]},
            w |-> {[out |-> <<"f3", 1>>, value |-> 900]}]

(* The index at the start: no token yet, one lot out, or all of them with  *)
(* both users holding some.                                                *)
Bk(n, o) == [supply |-> n, sats |-> mcR[n], out |-> o, value |-> 33 + mcR[n]]
Lots(held) == [o \in held |-> [token |-> "t1", amount |-> 2]]
Empty == [idx |-> [backing |-> Nothing, utxos |-> Nothing], own |-> Nothing]
OneLot ==
  LET held == {<<"m1", 2>>}
  IN  [idx |-> [backing |-> [t \in {"t1"} |-> Bk(2, <<"d1", 1>>)], utxos |-> Lots(held)],
       own |-> [o \in held |-> "u"]]
SoldOut ==
  LET held == {<<"m1", 2>>, <<"m2", 2>>, <<"m3", 2>>}
  IN  [idx |-> [backing |-> [t \in {"t1"} |-> Bk(6, <<"d1", 1>>)], utxos |-> Lots(held)],
       own |-> [o \in held |-> IF o[1] = "m1" THEN "w" ELSE "u"]]
(* The ids still to be made are alike.                                     *)
Interchangeable == Permutations(Fresh)

mcSeed == {Empty, OneLot, SoldOut}

-----------------------------------------------------------------------------
(* Bytes of eleven values and fields of one byte: 4 is a digit, 5 and 7    *)
(* are letters, 6 is the lower case of 5.                                  *)
mcUpper == [b \in {5, 6, 7} |-> IF b = 6 THEN 5 ELSE b]
At(vout, amount) == [vout |-> vout, amount |-> amount]
mcAllocations == {<<>>, <<At(0, 1)>>, <<At(1, 6), At(0, 4)>>, <<At(1, 6), At(2, 5)>>,
                  <<At(1, 1), At(1, 1)>>, <<At(1, 0)>>, <<At(0, 1), At(1, 1), At(2, 1)>>}
mcEnvelopes ==
  {[op |-> 1, ticker |-> t, nonce |-> n] : n \in {4, 5},
    t \in {<<>>, <<6, 4>>, <<4, 5>>, <<7>>, <<5, 5, 5>>}}
    \cup {[op |-> 2, token |-> k, amount |-> 0, allocations |-> a] : k \in {0, 3}, a \in mcAllocations}
    \cup {[op |-> 3, token |-> 3, amount |-> n, to |-> 2] : n \in {0, 10, 11}}
    \cup {[op |-> 4, token |-> 3, amount |-> n, allocations |-> a] : n \in {0, 8}, a \in mcAllocations}

mcCreators == {<<0, 1, b>> : b \in {3, 5, 7}} \cup {<<1, 2, b, c>> : b, c \in {3, 5}}

VARIABLES part, asked, outs, altered
path == <<idx, own, pool, spent, req, mined>>
wire == <<asked, outs, altered>>
W == INSTANCE WireFormat WITH
       Base <- 11, ID_BYTES <- 1, AMOUNT_BYTES <- 1, NONCE_BYTES <- 1, MAX_TICKER_BYTES <- 2,
       MAX_TRANSFER_ALLOCATIONS <- 2, MAX_REDEEM_ALLOCATIONS <- 1, COVE_WIRE_MAGIC <- <<8>>,
       OP_RETURN <- 9, MAX_PUSH <- 9, Upper <- mcUpper, Digit <- {4}, CreatorScripts <- mcCreators,
       DATACARRIER_PAYLOAD_LIMIT <- 52,
       Envelopes <- mcEnvelopes, MaxAlterations <- 2

MCInit ==
  /\ part \in {"pipeline", "wire"}
  /\ P!Init /\ (part = "wire" => idx = Empty.idx)
  /\ W!Init /\ (part = "pipeline" => asked = [op |-> 1, ticker |-> <<7>>, nonce |-> 4])

MCNext ==
  \/ part = "pipeline" /\ P!Next /\ UNCHANGED <<part, wire>>
  \/ part = "wire" /\ W!Next /\ UNCHANGED <<part, path>>

MCSpec == MCInit /\ [][MCNext]_<<part, path, wire>>

(* The bytes of an operation have one meaning, whoever reads them. *)
WireCanonical == part = "wire" => W!WireCanonical
=============================================================================
