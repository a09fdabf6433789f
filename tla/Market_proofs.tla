---------------------------- MODULE Market_proofs ----------------------------
(***************************************************************************)
(* Proofs about Market, for any orders over any token outputs and any      *)
(* number of fills, PSBTs, calls, ticks and events on the chain.           *)
(***************************************************************************)
EXTENDS Market, MapTheorems

(* Fills are numbered as they are created. *)
Numbered == DOMAIN fills = 1 .. Cardinality(DOMAIN fills)

(* A fill belongs to a listing and names a transaction of its own, one     *)
(* that exists if it has been broadcast; what a party signed was built.    *)
RowOK(f) ==
  /\ fills[f].listing \in DOMAIN listings
  /\ fills[f].txid # None => fills[f].txid[1] = f
  /\ fills[f].psbt.by # {} => fills[f].psbt.build \in Build
  /\ fills[f].status = "PSBT_BUILT" => fills[f].digest \in Build
  /\ fills[f].status \in {"BROADCAST", "CONFIRMED"} => fills[f].txid # None

CallType == [op : Ops, id : Listing \cup Fill, build : 0 .. MaxBuilds]
CallOK(c) ==
  /\ c \in CallType
  /\ c.op = "create" => c.id \in Listing
  /\ c.op # "create" => c.id \in DOMAIN fills /\ c.build \in Build

(* What is left to do in a phase are rows of its table. *)
ItemType == [id : Listing \cup Fill, was : ListingStatus \cup Tx \cup {None}, spent : BOOLEAN]
ItemOK(i) ==
  /\ i \in ItemType
  /\ rec.phase \in {"confirm", "unconfirm", "funding", "expire"} => i.id \in DOMAIN fills
  /\ rec.phase \in {"confirm", "unconfirm"} => i.was \in Tx /\ fills[i.id].txid # None
  /\ rec.phase \in {"open", "lapse"} => i.id \in DOMAIN listings

(* The tables, and what spends the sources. *)
TablesOK ==
  /\ IsMap(listings, Listing, ListingStatus)
  /\ IsMap(fills, Fill, FillRow)
  /\ IsMap(trades, Tx, BOOLEAN)
  /\ cancellations \subseteq DOMAIN listings
  /\ Numbered
  /\ \A f \in DOMAIN fills : RowOK(f)

SpendersOK == {idx, chain, mempool} \subseteq [Sources -> Spender]

TypeInv ==
  /\ TablesOK /\ SpendersOK
  /\ stale \subseteq DOMAIN fills /\ broke \subseteq DOMAIN fills
  /\ lapsed \subseteq DOMAIN listings
  /\ \A c \in calls : CallOK(c)
  /\ rec \in [phase : Phases, todo : SUBSET ItemType]
  /\ rec.phase = "idle" => rec.todo = {}
  /\ \A i \in rec.todo : ItemOK(i)

-----------------------------------------------------------------------------
(* Before the seller has signed. *)
Unsigned == {"RESERVED", "PSBT_BUILT", "BUYER_SIGNED"}

(* What every step leaves in the tables. *)
Kept ==
  /\ DOMAIN listings \subseteq DOMAIN listings'
  /\ DOMAIN fills \subseteq DOMAIN fills'
  /\ \A f \in DOMAIN fills : /\ fills'[f].listing = fills[f].listing
                             /\ fills[f].txid # None => fills'[f].txid # None

LEMMA FillFields ==
  ASSUME TablesOK, NEW f \in DOMAIN fills
  PROVE  /\ f \in Fill /\ fills[f] \in FillRow
         /\ fills[f].listing \in Listing /\ fills[f].listing \in DOMAIN listings
         /\ fills[f].status \in FillStatus /\ fills[f].digest \in 0 .. MaxBuilds
         /\ fills[f].txid \in Tx \cup {None}
         /\ Source[fills[f].listing] \in Sources
<1>1. f \in Fill /\ fills[f] \in FillRow /\ RowOK(f)
  BY DEF TablesOK, IsMap
<1> QED BY <1>1 DEF FillRow, RowOK, Sources

(* update listings set status. *)
LEMMA ListingSet ==
  ASSUME TablesOK, NEW l \in Listing, NEW st \in ListingStatus,
         listings' = SetListing(l, st)
  PROVE  /\ IsMap(listings', Listing, ListingStatus)
         /\ DOMAIN listings' = DOMAIN listings \cup {l}
         /\ listings'[l] = st
         /\ \A k \in DOMAIN listings : k # l => listings'[k] = listings[k]
<1>1. IsMap(listings', Listing, ListingStatus)
  BY PutKeyType DEF SetListing, TablesOK
<1> QED BY <1>1 DEF SetListing, PutAt

(* update fills set status where id in F. *)
LEMMA FillsSet ==
  ASSUME TablesOK, NEW F, NEW st \in FillStatus, fills' = SetFills(F, st)
  PROVE  /\ IsMap(fills', Fill, FillRow)
         /\ DOMAIN fills' = DOMAIN fills
         /\ Numbered'
         /\ \A f \in DOMAIN fills :
              /\ fills'[f].listing = fills[f].listing /\ fills'[f].digest = fills[f].digest
              /\ fills'[f].psbt = fills[f].psbt /\ fills'[f].txid = fills[f].txid
              /\ fills'[f].status = IF f \in F THEN st ELSE fills[f].status
<1>1. /\ fills \in [DOMAIN fills -> FillRow] /\ DOMAIN fills \subseteq Fill
      /\ IsFiniteSet(DOMAIN fills) /\ Numbered
  BY DEF TablesOK, IsMap
<1>2. DOMAIN fills' = DOMAIN fills
  BY DEF SetFills
<1>3. ASSUME NEW f \in DOMAIN fills
      PROVE  /\ fills'[f] \in FillRow
             /\ fills'[f].listing = fills[f].listing /\ fills'[f].digest = fills[f].digest
             /\ fills'[f].psbt = fills[f].psbt /\ fills'[f].txid = fills[f].txid
             /\ fills'[f].status = IF f \in F THEN st ELSE fills[f].status
  <2>1. fills[f] \in FillRow
    BY <1>1
  <2>2. fills'[f] = IF f \in F THEN [fills[f] EXCEPT !.status = st] ELSE fills[f]
    BY DEF SetFills
  <2> QED BY <2>1, <2>2 DEF FillRow
<1>4. fills' \in [DOMAIN fills -> FillRow]
  <2>1. fills' = [f \in DOMAIN fills |-> fills'[f]]
    BY DEF SetFills
  <2> QED BY <1>3, <2>1
<1> QED BY <1>1, <1>2, <1>3, <1>4 DEF IsMap, Numbered

(* One row is written. *)
LEMMA FillWritten ==
  ASSUME TablesOK, NEW f \in DOMAIN fills, NEW row \in FillRow,
         fills' = [fills EXCEPT ![f] = row]
  PROVE  /\ IsMap(fills', Fill, FillRow)
         /\ DOMAIN fills' = DOMAIN fills
         /\ Numbered'
         /\ fills'[f] = row
         /\ \A g \in DOMAIN fills : g # f => fills'[g] = fills[g]
<1>1. /\ fills \in [DOMAIN fills -> FillRow] /\ DOMAIN fills \subseteq Fill
      /\ IsFiniteSet(DOMAIN fills) /\ Numbered
  BY DEF TablesOK, IsMap
<1>2. fills' \in [DOMAIN fills -> FillRow] /\ DOMAIN fills' = DOMAIN fills
  BY <1>1
<1>3. fills'[f] = row /\ \A g \in DOMAIN fills : g # f => fills'[g] = fills[g]
  BY <1>1
<1> QED BY <1>1, <1>2, <1>3 DEF IsMap, Numbered

(* A row is added. *)
LEMMA FillAdded ==
  ASSUME TablesOK, NEW n, n = Cardinality(DOMAIN fills), n < MaxFills, NEW row \in FillRow,
         fills' = PutAt(fills, n + 1, row)
  PROVE  /\ IsMap(fills', Fill, FillRow)
         /\ n + 1 \notin DOMAIN fills /\ n + 1 \in Fill
         /\ DOMAIN fills' = DOMAIN fills \cup {n + 1}
         /\ \A g \in DOMAIN fills : g <= n
         /\ Numbered'
         /\ fills'[n + 1] = row
         /\ \A g \in DOMAIN fills : fills'[g] = fills[g]
<1>1. IsMap(fills, Fill, FillRow) /\ n \in Nat /\ DOMAIN fills = 1 .. n /\ MaxFills \in Nat
  BY FS_CardinalityType, MarketAssumption DEF TablesOK, IsMap, Numbered
<1>2. n + 1 \notin 1 .. n /\ n + 1 \in Fill /\ \A g \in 1 .. n : g <= n
  BY <1>1 DEF Fill
<1>3. /\ DOMAIN fills' = DOMAIN fills \cup {n + 1} /\ fills'[n + 1] = row
      /\ \A g \in DOMAIN fills : g # n + 1 => fills'[g] = fills[g]
  BY DEF PutAt
<1>4. IsMap(fills', Fill, FillRow)
  BY <1>1, <1>2, PutKeyType
<1>5. DOMAIN fills' = 1 .. n + 1 /\ n + 1 \in Int
  <2>1. 1 .. n + 1 = (1 .. n) \cup {n + 1} /\ n + 1 \in Int
    BY <1>1
  <2> QED BY <1>1, <1>3, <2>1
<1>6. Cardinality(1 .. n + 1) = n + 1
  BY <1>1, <1>5, FS_Interval
<1> QED BY <1>1, <1>2, <1>3, <1>4, <1>5, <1>6 DEF Numbered

(* Listings are set and fills change their status: the tables stay well    *)
(* formed when no fill becomes broadcast, confirmed or built without its   *)
(* transaction.                                                            *)
LEMMA TablesMarked ==
  ASSUME TablesOK, NEW F, NEW st \in FillStatus, fills' = SetFills(F, st),
         st # "PSBT_BUILT",
         st \in {"BROADCAST", "CONFIRMED"} =>
           \A f \in DOMAIN fills : f \in F => fills[f].txid # None,
         IsMap(listings', Listing, ListingStatus), DOMAIN listings' = DOMAIN listings,
         IsMap(trades', Tx, BOOLEAN), cancellations' \subseteq DOMAIN listings
  PROVE  TablesOK' /\ Kept
<1>1. /\ IsMap(fills', Fill, FillRow) /\ DOMAIN fills' = DOMAIN fills /\ Numbered'
      /\ \A f \in DOMAIN fills :
           /\ fills'[f].listing = fills[f].listing /\ fills'[f].digest = fills[f].digest
           /\ fills'[f].psbt = fills[f].psbt /\ fills'[f].txid = fills[f].txid
           /\ fills'[f].status = IF f \in F THEN st ELSE fills[f].status
  BY FillsSet
<1>2. ASSUME NEW f \in DOMAIN fills PROVE RowOK(f)'
  <2>1. RowOK(f)
    BY DEF TablesOK
  <2> QED BY <1>1, <2>1 DEF RowOK
<1> QED BY <1>1, <1>2 DEF TablesOK, Kept

(* Only listings and cancellations change. *)
LEMMA TablesListed ==
  ASSUME TablesOK, UNCHANGED <<fills, trades>>,
         IsMap(listings', Listing, ListingStatus), DOMAIN listings \subseteq DOMAIN listings',
         cancellations' \subseteq DOMAIN listings'
  PROVE  TablesOK' /\ Kept
<1>1. \A f \in DOMAIN fills : RowOK(f)'
  BY DEF TablesOK, RowOK
<1> QED BY <1>1 DEF TablesOK, Kept, Numbered

(* A call writes one row. *)
LEMMA TablesWritten ==
  ASSUME TablesOK, NEW f \in DOMAIN fills, NEW row \in FillRow,
         fills' = [fills EXCEPT ![f] = row],
         row.listing = fills[f].listing, row.txid # None => row.txid[1] = f,
         fills[f].txid # None => row.txid # None,
         row.psbt.by # {} => row.psbt.build \in Build,
         row.status = "PSBT_BUILT" => row.digest \in Build,
         row.status \in {"BROADCAST", "CONFIRMED"} => row.txid # None,
         IsMap(listings', Listing, ListingStatus), DOMAIN listings' = DOMAIN listings,
         UNCHANGED <<trades, cancellations>>
  PROVE  TablesOK' /\ Kept
<1>1. /\ IsMap(fills', Fill, FillRow) /\ DOMAIN fills' = DOMAIN fills /\ Numbered'
      /\ fills'[f] = row /\ \A g \in DOMAIN fills : g # f => fills'[g] = fills[g]
  BY FillWritten
<1>2. ASSUME NEW g \in DOMAIN fills PROVE RowOK(g)'
  <2>1. RowOK(g)
    BY DEF TablesOK
  <2>2. CASE g # f
    BY <1>1, <2>1, <2>2 DEF RowOK
  <2>3. CASE g = f
    <3>1. fills[f].listing \in DOMAIN listings
      BY <2>1, <2>3 DEF RowOK
    <3> QED BY <1>1, <2>3, <3>1 DEF RowOK
  <2> QED BY <2>2, <2>3
<1> QED BY <1>1, <1>2 DEF TablesOK, Kept

(* What the calls write in the row of their fill. *)
Built(f, b) == [fills[f] EXCEPT !.digest = b, !.psbt = [build |-> b, by |-> {}],
                                !.status = "PSBT_BUILT"]
BuyerSigned(f, b) == [fills[f] EXCEPT !.psbt = [build |-> b, by |-> {"buyer"}],
                                      !.status = "BUYER_SIGNED"]
SellerSigned(f, b) == [fills[f] EXCEPT !.psbt = [build |-> b, by |-> {"buyer", "seller"}],
                                       !.status = "SELLER_SIGNED"]
Named(f, t) == [fills[f] EXCEPT !.txid = t]
Broadcast(f, t) == [fills[f] EXCEPT !.status = "BROADCAST", !.txid = t]

LEMMA RowFields ==
  ASSUME TablesOK, NEW f \in DOMAIN fills, NEW b \in Build, NEW t \in Tx
  PROVE  /\ /\ Built(f, b) \in FillRow /\ Built(f, b).listing = fills[f].listing
            /\ Built(f, b).txid = fills[f].txid /\ Built(f, b).digest = b
            /\ Built(f, b).psbt.build = b /\ Built(f, b).status = "PSBT_BUILT"
         /\ /\ BuyerSigned(f, b) \in FillRow /\ BuyerSigned(f, b).listing = fills[f].listing
            /\ BuyerSigned(f, b).txid = fills[f].txid
            /\ BuyerSigned(f, b).digest = fills[f].digest
            /\ BuyerSigned(f, b).psbt.build = b /\ BuyerSigned(f, b).status = "BUYER_SIGNED"
         /\ /\ SellerSigned(f, b) \in FillRow /\ SellerSigned(f, b).listing = fills[f].listing
            /\ SellerSigned(f, b).txid = fills[f].txid
            /\ SellerSigned(f, b).digest = fills[f].digest
            /\ SellerSigned(f, b).psbt.build = b /\ SellerSigned(f, b).status = "SELLER_SIGNED"
         /\ /\ Named(f, t) \in FillRow /\ Named(f, t).listing = fills[f].listing
            /\ Named(f, t).txid = t /\ Named(f, t).digest = fills[f].digest
            /\ Named(f, t).psbt = fills[f].psbt /\ Named(f, t).status = fills[f].status
         /\ /\ Broadcast(f, t) \in FillRow /\ Broadcast(f, t).listing = fills[f].listing
            /\ Broadcast(f, t).txid = t /\ Broadcast(f, t).digest = fills[f].digest
            /\ Broadcast(f, t).psbt = fills[f].psbt /\ Broadcast(f, t).status = "BROADCAST"
<1>1. fills[f] \in FillRow /\ b \in 0 .. MaxBuilds
  BY MarketAssumption DEF TablesOK, IsMap, Build
<1>2. /\ Built(f, b) \in FillRow /\ Built(f, b).listing = fills[f].listing
      /\ Built(f, b).txid = fills[f].txid /\ Built(f, b).digest = b
      /\ Built(f, b).psbt.build = b /\ Built(f, b).status = "PSBT_BUILT"
  BY <1>1 DEF Built, FillRow, FillStatus, Pending, Unsettled
<1>3. /\ BuyerSigned(f, b) \in FillRow /\ BuyerSigned(f, b).listing = fills[f].listing
      /\ BuyerSigned(f, b).txid = fills[f].txid
      /\ BuyerSigned(f, b).digest = fills[f].digest
      /\ BuyerSigned(f, b).psbt.build = b /\ BuyerSigned(f, b).status = "BUYER_SIGNED"
  BY <1>1 DEF BuyerSigned, FillRow, FillStatus, Pending, Unsettled
<1>4. /\ SellerSigned(f, b) \in FillRow /\ SellerSigned(f, b).listing = fills[f].listing
      /\ SellerSigned(f, b).txid = fills[f].txid
      /\ SellerSigned(f, b).digest = fills[f].digest
      /\ SellerSigned(f, b).psbt.build = b /\ SellerSigned(f, b).status = "SELLER_SIGNED"
  BY <1>1 DEF SellerSigned, FillRow, FillStatus, Pending, Unsettled
<1>5. /\ Named(f, t) \in FillRow /\ Named(f, t).listing = fills[f].listing
      /\ Named(f, t).txid = t /\ Named(f, t).digest = fills[f].digest
      /\ Named(f, t).psbt = fills[f].psbt /\ Named(f, t).status = fills[f].status
  BY <1>1 DEF Named, FillRow
<1>6. /\ Broadcast(f, t) \in FillRow /\ Broadcast(f, t).listing = fills[f].listing
      /\ Broadcast(f, t).txid = t /\ Broadcast(f, t).digest = fills[f].digest
      /\ Broadcast(f, t).psbt = fills[f].psbt /\ Broadcast(f, t).status = "BROADCAST"
  BY <1>1 DEF Broadcast, FillRow, FillStatus, Pending
<1> QED BY <1>2, <1>3, <1>4, <1>5, <1>6

LEMMA CallFacts ==
  ASSUME TablesOK, NEW c, CallOK(c), c.op # "create"
  PROVE  /\ c.id \in DOMAIN fills /\ c.build \in Build
         /\ TxOf(c) \in Tx /\ TxOf(c)[1] = c.id /\ TxOf(c)[2] = c.build
<1>1. c.id \in DOMAIN fills /\ c.build \in Build /\ c.id \in Fill
  BY DEF CallOK, TablesOK, IsMap
<1> QED BY <1>1 DEF TxOf, Tx

LEMMA CallWrites ==
  ASSUME TablesOK, NEW c, CallOK(c), c.op # "create"
  PROVE  /\ StorePsbt(c) => fills' = [fills EXCEPT ![c.id] = Built(c.id, c.build)]
         /\ StoreBuyerSigned(c) =>
              fills' = [fills EXCEPT ![c.id] = BuyerSigned(c.id, c.build)]
         /\ StoreSellerSigned(c) =>
              fills' = [fills EXCEPT ![c.id] = SellerSigned(c.id, c.build)]
         /\ StoreTxid(c) => fills' = [fills EXCEPT ![c.id] = Named(c.id, TxOf(c))]
         /\ MarkBroadcast(c) =>
              \/ UNCHANGED <<listings, fills>>
              \/ /\ fills' = [fills EXCEPT ![c.id] = Broadcast(c.id, TxOf(c))]
                 /\ listings' = SetListing(fills[c.id].listing, "BROADCAST")
<1>1. c.id \in DOMAIN fills /\ fills \in [DOMAIN fills -> FillRow]
  BY DEF CallOK, TablesOK, IsMap
<1>2. StorePsbt(c) => fills' = [fills EXCEPT ![c.id] = Built(c.id, c.build)]
  BY <1>1 DEF StorePsbt, Built, FillRow
<1>3. StoreBuyerSigned(c) => fills' = [fills EXCEPT ![c.id] = BuyerSigned(c.id, c.build)]
  BY <1>1 DEF StoreBuyerSigned, BuyerSigned, FillRow
<1>4. StoreSellerSigned(c) => fills' = [fills EXCEPT ![c.id] = SellerSigned(c.id, c.build)]
  BY <1>1 DEF StoreSellerSigned, SellerSigned, FillRow
<1>5. StoreTxid(c) => fills' = [fills EXCEPT ![c.id] = Named(c.id, TxOf(c))]
  BY <1>1 DEF StoreTxid, Named, FillRow
<1>6. MarkBroadcast(c) =>
        \/ UNCHANGED <<listings, fills>>
        \/ /\ fills' = [fills EXCEPT ![c.id] = Broadcast(c.id, TxOf(c))]
           /\ listings' = SetListing(fills[c.id].listing, "BROADCAST")
  BY <1>1 DEF MarkBroadcast, Broadcast, FillRow
<1> QED BY <1>2, <1>3, <1>4, <1>5, <1>6

(* The tables after the step of a call. *)
LEMMA TablesCall ==
  ASSUME TablesOK, NEW c, CallOK(c), Proceed(c) \/ CallDies(c)
  PROVE  TablesOK' /\ Kept
<1>1. ASSUME UNCHANGED db PROVE TablesOK' /\ Kept
  BY <1>1, TablesListed DEF db, TablesOK
<1>2. CASE InsertListing(c)
  <2>1. c.id \in Listing /\ UNCHANGED <<fills, trades, cancellations>>
    BY <1>2 DEF InsertListing, CallOK
  <2>2. CASE listings' = listings
    BY <1>1, <2>1, <2>2 DEF db
  <2>3. CASE listings' = SetListing(c.id, "ACTIVE")
    <3>1. /\ IsMap(listings', Listing, ListingStatus)
          /\ DOMAIN listings' = DOMAIN listings \cup {c.id}
      BY <2>1, <2>3, ListingSet DEF ListingStatus, Open
    <3> QED BY <2>1, <3>1, TablesListed DEF TablesOK
  <2> QED BY <1>2, <2>2, <2>3 DEF InsertListing
<1>3. ASSUME c.op # "create",
             \/ StorePsbt(c) \/ StoreBuyerSigned(c) \/ StoreSellerSigned(c) \/ StoreTxid(c)
             \/ MarkBroadcast(c)
      PROVE  TablesOK' /\ Kept
  <2>0. c.id \in DOMAIN fills /\ c.build \in Build /\ TxOf(c) \in Tx /\ TxOf(c)[1] = c.id
    BY <1>3, CallFacts
  <2>1. /\ UNCHANGED <<trades, cancellations>> /\ RowOK(c.id)
        /\ IsMap(listings, Listing, ListingStatus)
        /\ None \notin Tx
    BY <1>3, <2>0, MarketAssumption DEF StorePsbt, StoreBuyerSigned, StoreSellerSigned, StoreTxid,
         MarkBroadcast, TablesOK
  <2>2. CASE StorePsbt(c)
    <3>1. /\ fills' = [fills EXCEPT ![c.id] = Built(c.id, c.build)] /\ listings' = listings
      BY <1>3, <2>2, CallWrites DEF StorePsbt
    <3>2. /\ Built(c.id, c.build) \in FillRow
          /\ Built(c.id, c.build).listing = fills[c.id].listing
          /\ Built(c.id, c.build).txid = fills[c.id].txid
          /\ Built(c.id, c.build).digest = c.build
          /\ Built(c.id, c.build).psbt.build = c.build
          /\ Built(c.id, c.build).status = "PSBT_BUILT"
      BY <2>0, RowFields
    <3> QED BY <2>0, <2>1, <3>1, <3>2, TablesWritten DEF RowOK
  <2>3. CASE StoreBuyerSigned(c)
    <3>1. /\ fills' = [fills EXCEPT ![c.id] = BuyerSigned(c.id, c.build)] /\ listings' = listings
      BY <1>3, <2>3, CallWrites DEF StoreBuyerSigned
    <3>2. /\ BuyerSigned(c.id, c.build) \in FillRow
          /\ BuyerSigned(c.id, c.build).listing = fills[c.id].listing
          /\ BuyerSigned(c.id, c.build).txid = fills[c.id].txid
          /\ BuyerSigned(c.id, c.build).psbt.build = c.build
          /\ BuyerSigned(c.id, c.build).status = "BUYER_SIGNED"
      BY <2>0, RowFields
    <3> QED BY <2>0, <2>1, <3>1, <3>2, TablesWritten DEF RowOK
  <2>4. CASE StoreSellerSigned(c)
    <3>1. /\ fills' = [fills EXCEPT ![c.id] = SellerSigned(c.id, c.build)]
          /\ listings' = listings
      BY <1>3, <2>4, CallWrites DEF StoreSellerSigned
    <3>2. /\ SellerSigned(c.id, c.build) \in FillRow
          /\ SellerSigned(c.id, c.build).listing = fills[c.id].listing
          /\ SellerSigned(c.id, c.build).txid = fills[c.id].txid
          /\ SellerSigned(c.id, c.build).psbt.build = c.build
          /\ SellerSigned(c.id, c.build).status = "SELLER_SIGNED"
      BY <2>0, RowFields
    <3> QED BY <2>0, <2>1, <3>1, <3>2, TablesWritten DEF RowOK
  <2>5. CASE StoreTxid(c)
    <3>1. /\ fills' = [fills EXCEPT ![c.id] = Named(c.id, TxOf(c))] /\ listings' = listings
      BY <1>3, <2>5, CallWrites DEF StoreTxid
    <3>2. /\ Named(c.id, TxOf(c)) \in FillRow
          /\ Named(c.id, TxOf(c)).listing = fills[c.id].listing
          /\ Named(c.id, TxOf(c)).txid = TxOf(c)
          /\ Named(c.id, TxOf(c)).digest = fills[c.id].digest
          /\ Named(c.id, TxOf(c)).psbt = fills[c.id].psbt
          /\ Named(c.id, TxOf(c)).status = fills[c.id].status
      BY <2>0, RowFields
    <3> QED BY <2>0, <2>1, <3>1, <3>2, TablesWritten DEF RowOK
  <2>6. CASE MarkBroadcast(c)
    <3>1. CASE UNCHANGED <<listings, fills>>
      BY <1>1, <2>1, <3>1 DEF db
    <3>2. CASE /\ fills' = [fills EXCEPT ![c.id] = Broadcast(c.id, TxOf(c))]
               /\ listings' = SetListing(fills[c.id].listing, "BROADCAST")
      <4>1. fills[c.id].listing \in Listing /\ fills[c.id].listing \in DOMAIN listings
        BY <2>0, FillFields
      <4>2. /\ IsMap(listings', Listing, ListingStatus)
            /\ DOMAIN listings' = DOMAIN listings
        BY <3>2, <4>1, ListingSet DEF ListingStatus, Open
      <4>3. /\ Broadcast(c.id, TxOf(c)) \in FillRow
            /\ Broadcast(c.id, TxOf(c)).listing = fills[c.id].listing
            /\ Broadcast(c.id, TxOf(c)).txid = TxOf(c)
            /\ Broadcast(c.id, TxOf(c)).psbt = fills[c.id].psbt
            /\ Broadcast(c.id, TxOf(c)).status = "BROADCAST"
        BY <2>0, RowFields
      <4> QED BY <2>0, <2>1, <3>2, <4>2, <4>3, TablesWritten DEF RowOK
    <3> QED BY <1>3, <2>6, <3>1, <3>2, CallWrites
  <2> QED BY <1>3, <2>2, <2>3, <2>4, <2>5, <2>6
<1>4. CASE TestMempoolAccept(c) \/ SendRawTransaction(c) \/ CallDies(c)
  BY <1>1, <1>4 DEF TestMempoolAccept, SendRawTransaction, CallDies
<1>5. \/ InsertListing(c) \/ TestMempoolAccept(c) \/ SendRawTransaction(c) \/ CallDies(c)
      \/ c.op # "create" /\ \/ StorePsbt(c) \/ StoreBuyerSigned(c) \/ StoreSellerSigned(c)
                            \/ StoreTxid(c) \/ MarkBroadcast(c)
  BY DEF Proceed, StorePsbt, StoreBuyerSigned, StoreSellerSigned, StoreTxid, MarkBroadcast
<1> QED BY <1>2, <1>3, <1>4, <1>5

(* The tables after a cancellation and after a reservation. *)
LEMMA TablesCancel ==
  ASSUME TablesOK, NEW l \in Listing, CancelListing(l)
  PROVE  TablesOK' /\ Kept
<1>1. /\ IsMap(listings', Listing, ListingStatus)
      /\ DOMAIN listings' = DOMAIN listings \cup {l}
  BY ListingSet DEF CancelListing, ListingStatus
<1>2. /\ DOMAIN listings' = DOMAIN listings /\ cancellations' \subseteq DOMAIN listings
      /\ IsMap(trades', Tx, BOOLEAN)
      /\ fills' = SetFills(FillsOf(l, Unsettled), "CANCELLED")
  BY <1>1 DEF CancelListing, TablesOK
<1> QED BY <1>1, <1>2, TablesMarked DEF FillStatus

LEMMA TablesReserve ==
  ASSUME TablesOK, NEW l \in Listing, ReserveListing(l)
  PROVE  TablesOK' /\ Kept
<1> SUFFICES ASSUME NEW n, n = Cardinality(DOMAIN fills) PROVE TablesOK' /\ Kept
  OBVIOUS
<1>1. /\ fills' = PutAt(fills, n + 1, NewFill(l)) /\ n < MaxFills /\ l \in DOMAIN listings
      /\ listings' = SetListing(l, "RESERVED") /\ UNCHANGED <<trades, cancellations>>
  BY DEF ReserveListing
<1>2. /\ NewFill(l) \in FillRow /\ NewFill(l).listing = l /\ NewFill(l).txid = None
      /\ NewFill(l).psbt.by = {} /\ NewFill(l).status = "RESERVED"
  <2>1. 0 \in 0 .. MaxBuilds
    BY MarketAssumption
  <2> QED BY <2>1 DEF NewFill, FillRow, FillStatus, Pending, Unsettled
<1>3. /\ IsMap(listings', Listing, ListingStatus) /\ DOMAIN listings' = DOMAIN listings
  BY <1>1, ListingSet DEF ListingStatus, Open
<1>4. /\ IsMap(fills', Fill, FillRow) /\ n + 1 \notin DOMAIN fills
      /\ DOMAIN fills' = DOMAIN fills \cup {n + 1} /\ Numbered'
      /\ fills'[n + 1] = NewFill(l) /\ \A g \in DOMAIN fills : fills'[g] = fills[g]
  BY <1>1, <1>2, FillAdded
<1>5. ASSUME NEW f \in DOMAIN fills' PROVE RowOK(f)'
  <2>1. CASE f \in DOMAIN fills
    <3>1. RowOK(f) /\ fills'[f] = fills[f]
      BY <1>4, <2>1 DEF TablesOK
    <3> QED BY <1>3, <3>1 DEF RowOK
  <2>2. CASE f = n + 1
    BY <1>1, <1>2, <1>3, <1>4, <2>2 DEF RowOK
  <2> QED BY <1>4, <2>1, <2>2
<1> QED BY <1>1, <1>3, <1>4, <1>5 DEF TablesOK, Kept

(* The tables after the turn of one row in the worker's tick. *)
LEMMA TablesInvalidate ==
  ASSUME TablesOK, NEW l \in DOMAIN listings, Invalidate(l)
  PROVE  TablesOK' /\ Kept
<1>1. l \in Listing
  BY DEF TablesOK, IsMap
<1>2. /\ IsMap(listings', Listing, ListingStatus) /\ DOMAIN listings' = DOMAIN listings
  BY <1>1, ListingSet DEF Invalidate, ListingStatus
<1> QED BY <1>2, TablesMarked DEF Invalidate, FillStatus, TablesOK

LEMMA TablesRepend ==
  ASSUME TablesOK, NEW l \in DOMAIN listings, Known(l), Repend(l)
  PROVE  TablesOK' /\ Kept
<1>1. l \in Listing /\ LatestTxid(l) # None
  BY DEF TablesOK, IsMap, Known
<1>2. /\ IsMap(listings', Listing, ListingStatus) /\ DOMAIN listings' = DOMAIN listings
  BY <1>1, ListingSet DEF Repend, ListingStatus, Open
<1> DEFINE F == {f \in FillsOf(l, FillStatus) : fills[f].txid = LatestTxid(l)}
<1>3. \A f \in F : fills[f].txid # None
  BY <1>1
<1>4. fills' = SetFills(F, "BROADCAST") /\ UNCHANGED <<trades, cancellations>>
  BY DEF Repend
<1> HIDE DEF F
<1> QED BY <1>2, <1>3, <1>4, TablesMarked DEF FillStatus, Pending, TablesOK

LEMMA TablesRelist ==
  ASSUME TablesOK, NEW l \in DOMAIN listings, Relist(l)
  PROVE  TablesOK' /\ Kept
<1>1. l \in Listing
  BY DEF TablesOK, IsMap
<1>2. /\ IsMap(listings', Listing, ListingStatus)
      /\ DOMAIN listings' = DOMAIN listings \cup {l}
  BY <1>1, ListingSet DEF Relist, ListingStatus, Open
<1> QED BY <1>2, TablesListed DEF Relist, TablesOK

LEMMA TablesExpire ==
  ASSUME TablesOK, NEW f \in DOMAIN fills, Expire(f)
  PROVE  TablesOK' /\ Kept
<1>1. fills[f].listing \in Listing /\ fills[f].listing \in DOMAIN listings
  BY FillFields
<1>2. /\ IsMap(listings', Listing, ListingStatus) /\ DOMAIN listings' = DOMAIN listings
  <2>1. CASE listings' = listings
    BY <2>1 DEF TablesOK
  <2>2. CASE listings' = SetListing(fills[f].listing, "ACTIVE")
    BY <1>1, <2>2, ListingSet DEF ListingStatus, Open
  <2> QED BY <2>1, <2>2 DEF Expire
<1>3. fills' = SetFills({f}, "EXPIRED") /\ UNCHANGED <<trades, cancellations>>
  BY DEF Expire
<1> QED BY <1>2, <1>3, TablesMarked DEF FillStatus, TablesOK

LEMMA TablesConfirm ==
  ASSUME TablesOK, NEW i, i.id \in DOMAIN fills, i.was \in Tx, fills[i.id].txid # None,
         Confirm(i) \/ Unconfirm(i)
  PROVE  TablesOK' /\ Kept
<1>1. fills[i.id].listing \in Listing /\ fills[i.id].listing \in DOMAIN listings
  BY FillFields
<1>2. cancellations' = cancellations
  BY DEF Confirm, Unconfirm
<1>3. CASE UNCHANGED <<listings, fills, trades>>
  BY <1>2, <1>3, TablesListed DEF TablesOK
<1>4. CASE /\ fills' = SetFills({i.id}, "CONFIRMED")
           /\ listings' = SetListing(fills[i.id].listing, "FILLED")
           /\ trades' = EnsureTrade(i.was)
  <2>1. /\ IsMap(listings', Listing, ListingStatus) /\ DOMAIN listings' = DOMAIN listings
    BY <1>1, <1>4, ListingSet DEF ListingStatus
  <2>2. IsMap(trades', Tx, BOOLEAN)
    BY <1>4, PutKeyType DEF EnsureTrade, TablesOK
  <2> QED BY <1>2, <1>4, <2>1, <2>2, TablesMarked DEF FillStatus, TablesOK
<1>5. CASE /\ fills' = SetFills({i.id}, "REORGED")
           /\ listings' = SetListing(fills[i.id].listing, "REORGED")
           /\ trades' = [t \in DOMAIN trades |-> t # i.was /\ trades[t]]
  <2>1. /\ IsMap(listings', Listing, ListingStatus) /\ DOMAIN listings' = DOMAIN listings
    BY <1>1, <1>5, ListingSet DEF ListingStatus
  <2>2. IsMap(trades', Tx, BOOLEAN)
    BY <1>5 DEF IsMap, TablesOK
  <2> QED BY <1>2, <1>5, <2>1, <2>2, TablesMarked DEF FillStatus, TablesOK
<1> QED BY <1>3, <1>4, <1>5 DEF Confirm, Unconfirm

LEMMA TablesWorker ==
  ASSUME TablesOK, NEW i, ItemOK(i), Reconcile(i)
  PROVE  TablesOK' /\ Kept
<1>0. ASSUME UNCHANGED db PROVE TablesOK' /\ Kept
  BY <1>0, TablesListed DEF db, TablesOK
<1>1. CASE Confirm(i) \/ Unconfirm(i)
  BY <1>1, TablesConfirm DEF ItemOK, Confirm, Unconfirm
<1>2. CASE ReconcileListing(i)
  <2>1. i.id \in DOMAIN listings
    BY <1>2 DEF ReconcileListing, ItemOK
  <2>2. UNCHANGED db \/ Invalidate(i.id) \/ Relist(i.id)
    BY <1>2 DEF ReconcileListing, Reopen
  <2> QED BY <1>0, <2>1, <2>2, TablesInvalidate, TablesRelist
<1>3. CASE FindSpender(i)
  <2>1. i.id \in DOMAIN listings
    BY <1>3 DEF FindSpender, ItemOK
  <2>2. UNCHANGED db \/ Invalidate(i.id) \/ (Known(i.id) /\ Repend(i.id))
    BY <1>3 DEF FindSpender, Reopen
  <2> QED BY <1>0, <2>1, <2>2, TablesInvalidate, TablesRepend
<1>4. CASE ExpireUnfunded(i) \/ ExpireFill(i)
  <2>1. i.id \in DOMAIN fills /\ (UNCHANGED db \/ Expire(i.id))
    BY <1>4 DEF ExpireUnfunded, ExpireFill, ItemOK
  <2> QED BY <1>0, <2>1, TablesExpire
<1>5. CASE LapseListing(i)
  <2>1. i.id \in Listing
    BY <1>5 DEF LapseListing, ItemOK, TablesOK, IsMap
  <2>2. /\ IsMap(listings', Listing, ListingStatus)
        /\ DOMAIN listings' = DOMAIN listings \cup {i.id}
    BY <1>5, <2>1, ListingSet DEF LapseListing, ListingStatus
  <2> QED BY <1>5, <2>2, TablesListed DEF LapseListing, TablesOK
<1> QED BY <1>1, <1>2, <1>3, <1>4, <1>5 DEF Reconcile

-----------------------------------------------------------------------------
(* Calls stay about fills that exist ... *)
LEMMA CallKept ==
  ASSUME Kept, NEW c, CallOK(c)
  PROVE  CallOK(c)'
  BY DEF CallOK, Kept

LEMMA CallGoesOn ==
  ASSUME NEW c, CallOK(c), c.op # "create", NEW op \in Ops \ {"create"},
         NEW d, d = [c EXCEPT !.op = op]
  PROVE  CallOK(d) /\ d.op = op /\ d.id = c.id /\ d.build = c.build
  BY DEF CallOK, CallType

(* ... and what the worker has to do, about rows that exist. *)
LEMMA ItemsKept ==
  ASSUME TypeInv, Kept,
         rec' \in [phase : Phases, todo : SUBSET ItemType],
         rec'.todo # {} => rec'.phase = rec.phase,
         \A j \in rec'.todo : \E i \in rec.todo : j.id = i.id /\ j.was = i.was
  PROVE  \A i \in rec'.todo : ItemOK(i)'
<1> SUFFICES ASSUME NEW j \in rec'.todo PROVE ItemOK(j)'
  OBVIOUS
<1>1. PICK i \in rec.todo : j.id = i.id /\ j.was = i.was
  OBVIOUS
<1>2. ItemOK(i) /\ rec'.phase = rec.phase /\ j \in ItemType
  BY DEF TypeInv
<1> QED BY <1>1, <1>2 DEF ItemOK, Kept

(* What a phase selects. *)
LEMMA Selected ==
  ASSUME TablesOK, NEW ph \in Phases
  PROVE  /\ Select(ph) \subseteq ItemType
         /\ \A i \in Select(ph) : ~i.spent
         /\ ph \in {"confirm", "unconfirm", "funding", "expire"} =>
              \A i \in Select(ph) : i.id \in DOMAIN fills /\ i.was = fills[i.id].txid
         /\ ph \in {"open", "lapse"} =>
              \A i \in Select(ph) : i.id \in DOMAIN listings /\ i.was = listings[i.id]
         /\ ph = "confirm" => \A i \in Select(ph) : fills[i.id].status = "BROADCAST"
         /\ ph = "unconfirm" => \A i \in Select(ph) : fills[i.id].status = "CONFIRMED"
         /\ ph = "open" => \A i \in Select(ph) : listings[i.id] \in Open \cup {"REORGED"}
         /\ ph = "lapse" => \A i \in Select(ph) : listings[i.id] = "ACTIVE"
         /\ ph \in {"funding", "expire"} =>
              \A i \in Select(ph) : fills[i.id].status \in Unsettled
         /\ ph = "idle" => Select(ph) = {}
<1>1. ASSUME NEW S, NEW i \in FillItems(S)
      PROVE  /\ i \in ItemType /\ ~i.spent /\ i.id \in DOMAIN fills
             /\ i.was = fills[i.id].txid /\ fills[i.id].status \in S
  <2>1. PICK f \in DOMAIN fills : fills[f].status \in S /\ i = Item(f, fills[f].txid)
    BY <1>1 DEF FillItems
  <2>2. f \in Fill /\ fills[f].txid \in Tx \cup {None}
    BY FillFields
  <2> QED BY <2>1, <2>2 DEF Item, ItemType
<1>2. ASSUME NEW S, NEW i \in ListingItems(S)
      PROVE  /\ i \in ItemType /\ ~i.spent /\ i.id \in DOMAIN listings
             /\ i.was = listings[i.id] /\ listings[i.id] \in S
  <2>1. PICK l \in DOMAIN listings : listings[l] \in S /\ i = Item(l, listings[l])
    BY <1>2 DEF ListingItems
  <2>2. l \in Listing /\ listings[l] \in ListingStatus
    BY DEF TablesOK, IsMap
  <2> QED BY <2>1, <2>2 DEF Item, ItemType
<1>3. ph \in {"confirm", "unconfirm", "open", "funding", "lapse", "expire", "idle"}
  BY DEF Phases, After
<1>4. CASE ph = "confirm"
  BY <1>1, <1>4 DEF Select
<1>5. CASE ph = "unconfirm"
  BY <1>1, <1>5 DEF Select
<1>6. CASE ph = "open"
  BY <1>2, <1>6 DEF Select
<1>7. CASE ph = "funding"
  BY <1>1, <1>7 DEF Select, Unsettled
<1>8. CASE ph = "lapse"
  BY <1>2, <1>8 DEF Select
<1>9. CASE ph = "expire"
  BY <1>1, <1>9 DEF Select
<1>10. CASE ph = "idle"
  BY <1>10 DEF Select
<1> QED BY <1>3, <1>4, <1>5, <1>6, <1>7, <1>8, <1>9, <1>10

(* The calls that begin. *)
LEMMA CallBegins ==
  ASSUME TypeInv, Request,
         ~ \E l \in Listing : CancelListing(l) \/ ReserveListing(l)
  PROVE  \E c : /\ CallOK(c) /\ Begin(c)
                /\ c.op # "create" => fills[c.id].status \in Pending
                /\ c.op = "create" => SourceResolves(c.id)
                /\ c.op \in {"build", "buyer", "seller"} =>
                     fills[c.id].status \in Unsigned
                /\ c.op = "txid" => /\ fills[c.id].status \notin Unsigned
                                    /\ c.build = fills[c.id].digest
                /\ c.op \in {"create", "build", "buyer", "seller", "txid"}
<1>0. TablesOK /\ \A f \in DOMAIN fills : RowOK(f) /\ f \in Fill
  BY DEF TypeInv, TablesOK, IsMap
<1>1. ASSUME NEW op \in Ops, NEW id \in Listing \cup Fill, NEW b \in 0 .. MaxBuilds
      PROVE  /\ Call(op, id, b) \in CallType
             /\ Call(op, id, b).op = op /\ Call(op, id, b).id = id /\ Call(op, id, b).build = b
  BY DEF Call, CallType
<1>2. Build \subseteq 0 .. MaxBuilds /\ 0 \in 0 .. MaxBuilds
  BY MarketAssumption DEF Build
<1>3. ASSUME NEW l \in Listing, CreateListing(l)
      PROVE  \E c : /\ CallOK(c) /\ Begin(c) /\ c.op = "create" /\ SourceResolves(c.id)
  <2>1. /\ Call("create", l, 0) \in CallType
        /\ Call("create", l, 0).op = "create" /\ Call("create", l, 0).id = l
    BY <1>1, <1>2 DEF Ops
  <2> QED BY <1>3, <2>1 DEF CreateListing, CallOK
<1>4. ASSUME NEW f \in Fill, NEW b \in Build, BuildFillPsbt(f, b)
      PROVE  \E c : /\ CallOK(c) /\ Begin(c) /\ c.op = "build"
                    /\ fills[c.id].status \in Unsigned \cap Pending
  <2>1. /\ Call("build", f, b) \in CallType /\ Call("build", f, b).build = b
        /\ Call("build", f, b).op = "build" /\ Call("build", f, b).id = f
    BY <1>1, <1>2 DEF Ops
  <2> QED BY <1>4, <2>1 DEF BuildFillPsbt, CallOK, Unsigned, Pending, Unsettled
<1>5. ASSUME NEW f \in Fill, NEW op \in {"buyer", "seller", "txid"}, f \in DOMAIN fills,
             fills[f].digest \in Build, Begin(Call(op, f, fills[f].digest))
      PROVE  \E c : /\ CallOK(c) /\ Begin(c) /\ c.op = op /\ c.id = f
                    /\ c.build = fills[f].digest
  <2>1. /\ Call(op, f, fills[f].digest) \in CallType /\ Call(op, f, fills[f].digest).op = op
        /\ Call(op, f, fills[f].digest).id = f
        /\ Call(op, f, fills[f].digest).build = fills[f].digest
    <3>1. op \in Ops /\ f \in Listing \cup Fill /\ fills[f].digest \in 0 .. MaxBuilds
      BY <1>2, <1>5 DEF Ops
    <3> QED BY <1>1, <3>1
  <2> QED BY <1>5, <2>1 DEF CallOK
<1>6. ASSUME NEW f \in Fill, SubmitBuyer(f)
      PROVE  \E c : /\ CallOK(c) /\ Begin(c) /\ c.op = "buyer"
                    /\ fills[c.id].status \in Unsigned \cap Pending
  BY <1>0, <1>5, <1>6 DEF SubmitBuyer, RowOK, Unsigned, Pending, Unsettled
<1>7. ASSUME NEW f \in DOMAIN fills, NEW by, by # {},
             fills[f].psbt = [build |-> fills[f].digest, by |-> by]
      PROVE  fills[f].digest \in Build
  <2>1. fills[f].psbt.by = by /\ fills[f].psbt.build = fills[f].digest
    BY <1>7
  <2> QED BY <1>0, <1>7, <2>1 DEF RowOK
<1>8. ASSUME NEW f \in Fill, SubmitSeller(f)
      PROVE  \E c : /\ CallOK(c) /\ Begin(c) /\ c.op = "seller"
                    /\ fills[c.id].status \in Unsigned \cap Pending
  <2>1. f \in DOMAIN fills /\ fills[f].digest \in Build
    BY <1>7, <1>8 DEF SubmitSeller
  <2> QED BY <1>5, <1>8, <2>1 DEF SubmitSeller, Unsigned, Pending, Unsettled
<1>9. ASSUME NEW f \in Fill, FinalizeP2PFill(f)
      PROVE  \E c : /\ CallOK(c) /\ Begin(c) /\ c.op = "txid" /\ c.build = fills[c.id].digest
                    /\ fills[c.id].status \in Pending \ Unsigned
  <2>1. f \in DOMAIN fills /\ fills[f].digest \in Build
    BY <1>7, <1>9 DEF FinalizeP2PFill
  <2>2. fills[f].status \in Pending \ Unsigned
    BY <1>9 DEF FinalizeP2PFill, Unsigned, Pending, Unsettled
  <2> QED BY <1>5, <1>9, <2>1, <2>2 DEF FinalizeP2PFill
<1>10. CASE \E l \in Listing : CreateListing(l)
  BY <1>3, <1>10
<1>11. CASE \E f \in Fill : \E b \in Build : BuildFillPsbt(f, b)
  BY <1>4, <1>11
<1>12. CASE \E f \in Fill : SubmitBuyer(f)
  BY <1>6, <1>12
<1>13. CASE \E f \in Fill : SubmitSeller(f)
  BY <1>8, <1>13
<1>14. CASE \E f \in Fill : FinalizeP2PFill(f)
  BY <1>9, <1>14
<1> QED BY <1>10, <1>11, <1>12, <1>13, <1>14 DEF Request

(* What the step of a call leaves of the calls. *)
LEMMA CallsLeft ==
  ASSUME NEW c \in calls, CallOK(c), Proceed(c) \/ CallDies(c)
  PROVE  \/ calls' = calls \ {c}
         \/ \E d : /\ calls' = (calls \ {c}) \cup {d} /\ CallOK(d)
                   /\ d.id = c.id /\ d.build = c.build
                   /\ \/ c.op = "txid" /\ d.op = "accept" /\ StoreTxid(c)
                      \/ c.op = "accept" /\ d.op = "send" /\ TestMempoolAccept(c)
                      \/ c.op = "send" /\ d.op = "mark" /\ SendRawTransaction(c)
<1>1. ASSUME NEW op \in {"accept", "send", "mark"}, Continue(c, op), c.op # "create"
      PROVE  \E d : /\ calls' = (calls \ {c}) \cup {d} /\ CallOK(d)
                    /\ d.id = c.id /\ d.build = c.build /\ d.op = op
  <2>1. op \in Ops \ {"create"}
    BY DEF Ops
  <2>2. PICK d : d = [c EXCEPT !.op = op]
    OBVIOUS
  <2>3. CallOK(d) /\ d.op = op /\ d.id = c.id /\ d.build = c.build
    BY <1>1, <2>1, <2>2, CallGoesOn
  <2> QED BY <1>1, <2>2, <2>3 DEF Continue
<1>2. CASE StoreTxid(c)
  BY <1>1, <1>2 DEF StoreTxid
<1>3. CASE TestMempoolAccept(c)
  BY <1>1, <1>3 DEF TestMempoolAccept, Return
<1>4. CASE SendRawTransaction(c)
  BY <1>1, <1>4 DEF SendRawTransaction, Return
<1>5. CASE \/ InsertListing(c) \/ StorePsbt(c) \/ StoreBuyerSigned(c) \/ StoreSellerSigned(c)
           \/ MarkBroadcast(c) \/ CallDies(c)
  BY <1>5 DEF InsertListing, StorePsbt, StoreBuyerSigned, StoreSellerSigned, MarkBroadcast,
              CallDies, Return
<1> QED BY <1>2, <1>3, <1>4, <1>5 DEF Proceed

(* What the turn of a row leaves of the phase. *)
LEMMA TodoLeft ==
  ASSUME TypeInv, NEW i \in rec.todo, Reconcile(i)
  PROVE  /\ rec' \in [phase : Phases, todo : SUBSET ItemType]
         /\ rec'.phase = "idle" => rec'.todo = {}
         /\ rec'.todo # {} => rec'.phase = rec.phase
         /\ rec'.phase \in {rec.phase, "idle"}
         /\ \/ rec'.todo \subseteq rec.todo \ {i}
            \/ /\ rec.phase = "open" /\ idx[Source[i.id]] = None /\ UNCHANGED db
               /\ \E j : /\ rec'.todo = (rec.todo \ {i}) \cup {j}
                         /\ j.id = i.id /\ j.was = i.was /\ j.spent
<1>1. /\ rec \in [phase : Phases, todo : SUBSET ItemType] /\ i \in ItemType
      /\ rec.phase = "idle" => rec.todo = {}
  BY DEF TypeInv
<1>2. CASE Done(i)
  <2>1. /\ rec' \in [phase : Phases, todo : SUBSET ItemType]
        /\ rec'.phase = rec.phase /\ rec'.todo = rec.todo \ {i}
    BY <1>1, <1>2 DEF Done
  <2> QED BY <1>1, <2>1
<1>3. CASE EndTick
  BY <1>3 DEF EndTick, Phases
<1>4. CASE /\ rec.phase = "open" /\ idx[Source[i.id]] = None /\ UNCHANGED db
           /\ rec' = [rec EXCEPT !.todo = (@ \ {i}) \cup {[i EXCEPT !.spent = TRUE]}]
  <2>1. PICK j : j = [i EXCEPT !.spent = TRUE]
    OBVIOUS
  <2>2. j \in ItemType /\ j.id = i.id /\ j.was = i.was /\ j.spent
    BY <1>1, <2>1 DEF ItemType
  <2>3. /\ rec' \in [phase : Phases, todo : SUBSET ItemType]
        /\ rec'.phase = rec.phase /\ rec'.todo = (rec.todo \ {i}) \cup {j}
    BY <1>1, <1>4, <2>1, <2>2
  <2> QED BY <1>1, <1>4, <2>2, <2>3
<1>5. Done(i) \/ EndTick \/ /\ rec.phase = "open" /\ idx[Source[i.id]] = None /\ UNCHANGED db
                            /\ rec' = [rec EXCEPT !.todo = (@ \ {i}) \cup
                                                             {[i EXCEPT !.spent = TRUE]}]
  BY DEF Reconcile, Confirm, Unconfirm, ReconcileListing, FindSpender, ExpireUnfunded,
         LapseListing, ExpireFill, Reopen
<1> QED BY <1>2, <1>3, <1>4, <1>5

(* What the users and the chain do to the sources. *)
LEMMA WorldOK ==
  ASSUME SpendersOK, World
  PROVE  /\ SpendersOK' /\ UNCHANGED <<db, calls, rec, idx>>
         /\ \A s \in Sources :
              {chain'[s], mempool'[s]} \subseteq {chain[s], mempool[s], None, External}
         /\ \/ stale' = stale /\ lapsed' = lapsed
               /\ (broke' = broke \/ \E f \in DOMAIN fills : broke' = broke \cup {f})
            \/ UNCHANGED <<stale, broke>>
               /\ \E l \in DOMAIN listings : lapsed' = lapsed \cup {l}
            \/ UNCHANGED <<lapsed, broke>>
               /\ \E f \in DOMAIN fills : stale' = stale \cup {f}
<1>1. /\ chain \in [Sources -> Spender] /\ mempool \in [Sources -> Spender]
      /\ None \in Spender /\ External \in Spender
  BY DEF SpendersOK, Spender
<1>2. ASSUME NEW s \in Sources, Mine(s) \/ SpendElsewhere(s) \/ Evict(s) \/ Reorg(s)
      PROVE  /\ chain' \in [Sources -> Spender] /\ mempool' \in [Sources -> Spender]
             /\ UNCHANGED <<db, calls, rec, idx, stale, lapsed, broke>>
             /\ \A x \in Sources :
                  {chain'[x], mempool'[x]} \subseteq {chain[x], mempool[x], None, External}
  <2>1. CASE Mine(s)
    BY <1>1, <2>1 DEF Mine
  <2>2. CASE SpendElsewhere(s)
    BY <1>1, <2>2 DEF SpendElsewhere, Move
  <2>3. CASE Evict(s)
    BY <1>1, <2>3 DEF Evict, Move
  <2>4. CASE Reorg(s)
    <3>1. PICK t \in {None, chain[s]} :
            Move([mempool EXCEPT ![s] = t], [chain EXCEPT ![s] = None])
      BY <2>4 DEF Reorg
    <3> QED BY <1>1, <3>1 DEF Move
  <2> QED BY <1>2, <2>1, <2>2, <2>3, <2>4
<1>3. CASE \E f \in Fill : FundsSpent(f) \/ ReservationRunsOut(f)
  BY <1>3 DEF FundsSpent, ReservationRunsOut, world, SpendersOK
<1>4. CASE \E l \in Listing : ExpiryHeightReached(l)
  BY <1>4 DEF ExpiryHeightReached, SpendersOK
<1>5. CASE \E s \in Sources : Mine(s) \/ SpendElsewhere(s) \/ Evict(s) \/ Reorg(s)
  BY <1>2, <1>5 DEF SpendersOK
<1> QED BY <1>3, <1>4, <1>5 DEF World

(* The sources after the step of a call. *)
LEMMA SpendersCall ==
  ASSUME TypeInv, NEW c \in calls, Proceed(c) \/ CallDies(c)
  PROVE  /\ SpendersOK' /\ UNCHANGED <<rec, idx, chain, broke, lapsed, moves>>
         /\ stale' \subseteq stale
         /\ \/ mempool' = mempool
            \/ /\ c.op = "send" /\ SendRawTransaction(c)
               /\ \/ InCore(SourceOf(c.id)) /\ c.id \notin broke
                  \/ mempool[SourceOf(c.id)] = TxOf(c)
               /\ mempool' = [mempool EXCEPT ![SourceOf(c.id)] = TxOf(c)]
<1>1. CASE SendRawTransaction(c)
  <2>1. CASE mempool' = mempool
    BY <1>1, <2>1 DEF TypeInv, SendRawTransaction, SpendersOK
  <2>2. CASE /\ \/ InCore(SourceOf(c.id)) /\ c.id \notin broke
                \/ mempool[SourceOf(c.id)] = TxOf(c)
             /\ mempool' = [mempool EXCEPT ![SourceOf(c.id)] = TxOf(c)]
    <3>1. CallOK(c) /\ c.op = "send" /\ TablesOK /\ SpendersOK
      BY <1>1 DEF TypeInv, SendRawTransaction
    <3>2. TxOf(c) \in Spender
      BY <3>1, CallFacts DEF Spender
    <3>3. mempool' \in [Sources -> Spender]
      BY <2>2, <3>1, <3>2 DEF SpendersOK
    <3> QED BY <1>1, <2>2, <3>1, <3>3 DEF SendRawTransaction, SpendersOK
  <2> QED BY <1>1, <2>1, <2>2 DEF SendRawTransaction
<1>2. CASE StoreBuyerSigned(c)
  BY <1>2 DEF TypeInv, StoreBuyerSigned, world, SpendersOK
<1>3. CASE \/ InsertListing(c) \/ StorePsbt(c) \/ StoreSellerSigned(c)
           \/ StoreTxid(c) \/ TestMempoolAccept(c) \/ MarkBroadcast(c) \/ CallDies(c)
  BY <1>3 DEF TypeInv, InsertListing, StorePsbt, StoreSellerSigned, StoreTxid,
       TestMempoolAccept, MarkBroadcast, CallDies, world, SpendersOK
<1> QED BY <1>1, <1>2, <1>3 DEF Proceed

LEMMA TypeStep == TypeInv /\ [Next]_vars => TypeInv' /\ Kept
<1> SUFFICES ASSUME TypeInv, [Next]_vars PROVE TypeInv' /\ Kept
  OBVIOUS
<1>0. /\ TablesOK /\ SpendersOK
      /\ stale \subseteq DOMAIN fills /\ broke \subseteq DOMAIN fills
      /\ lapsed \subseteq DOMAIN listings
      /\ \A c \in calls : CallOK(c)
      /\ rec \in [phase : Phases, todo : SUBSET ItemType]
      /\ rec.phase = "idle" => rec.todo = {}
      /\ \A i \in rec.todo : ItemOK(i)
  BY DEF TypeInv
<1>a. UNCHANGED db => TablesOK' /\ Kept
  BY <1>0, TablesListed DEF db, TablesOK
<1>b. ASSUME TablesOK', Kept, SpendersOK', stale' \subseteq stale, broke' = broke,
             lapsed' = lapsed, \A c \in calls' : CallOK(c)', rec' = rec
      PROVE  TypeInv'
  <2>1. \A i \in rec'.todo : ItemOK(i)'
    BY <1>0, <1>b, ItemsKept
  <2>2. /\ stale' \subseteq DOMAIN fills' /\ broke' \subseteq DOMAIN fills'
        /\ lapsed' \subseteq DOMAIN listings'
    BY <1>0, <1>b DEF Kept
  <2> QED BY <1>0, <1>b, <2>1, <2>2 DEF TypeInv
<1>1. CASE Request
  <2>1. ASSUME NEW l \in Listing, CancelListing(l) \/ ReserveListing(l)
        PROVE  TypeInv' /\ Kept
    <3>1. TablesOK' /\ Kept
      BY <1>0, <2>1, TablesCancel, TablesReserve
    <3>2. UNCHANGED <<calls, rec, world, stale>>
      BY <2>1 DEF CancelListing, ReserveListing
    <3>3. \A c \in calls' : CallOK(c)'
      BY <1>0, <3>1, <3>2, CallKept
    <3>4. SpendersOK'
      BY <1>0, <3>2 DEF SpendersOK, world
    <3> QED BY <1>b, <3>1, <3>2, <3>3, <3>4 DEF world
  <2>2. CASE ~ \E l \in Listing : CancelListing(l) \/ ReserveListing(l)
    <3>1. PICK c : CallOK(c) /\ Begin(c)
      BY <1>1, <2>2, CallBegins
    <3>2. /\ calls' = calls \cup {c} /\ UNCHANGED <<rec, world, stale>>
          /\ TablesOK' /\ Kept
      BY <1>a, <3>1 DEF Begin
    <3>3. \A d \in calls' : CallOK(d)'
      BY <1>0, <3>1, <3>2, CallKept
    <3>4. SpendersOK'
      BY <1>0, <3>2 DEF SpendersOK, world
    <3> QED BY <1>b, <3>2, <3>3, <3>4 DEF world
  <2> QED BY <2>1, <2>2
<1>2. ASSUME NEW c \in calls, Proceed(c) \/ CallDies(c) PROVE TypeInv' /\ Kept
  <2>1. TablesOK' /\ Kept
    BY <1>0, <1>2, TablesCall
  <2>2. \A d \in calls' : CallOK(d)'
    <3>1. \A d \in calls' : CallOK(d)
      BY <1>0, <1>2, CallsLeft
    <3> QED BY <2>1, <3>1, CallKept
  <2>3. /\ SpendersOK' /\ UNCHANGED <<rec, broke, lapsed>> /\ stale' \subseteq stale
    BY <1>2, SpendersCall
  <2> QED BY <1>b, <2>1, <2>2, <2>3
<1>3. CASE BeginTick \/ NextPhase
  <2>1. PICK ph \in Phases : rec' = [phase |-> ph, todo |-> Select(ph)]
    <3>1. CASE BeginTick
      BY <3>1 DEF BeginTick, Phases, After
    <3>2. CASE NextPhase
      <4>1. rec.phase \in DOMAIN After /\ After[rec.phase] \in Phases
        BY <1>0, <3>2 DEF NextPhase, Phases, After
      <4> QED BY <3>2, <4>1 DEF NextPhase
    <3> QED BY <1>3, <3>1, <3>2
  <2>2. UNCHANGED <<db, calls, stale, broke, lapsed, chain, mempool>> /\ idx' \in {idx, chain}
    BY <1>3 DEF BeginTick, NextPhase, world
  <2>3. TablesOK' /\ Kept
    BY <1>a, <2>2
  <2>4. /\ rec'.phase = ph /\ rec'.todo = Select(ph)
    BY <2>1
  <2>5. /\ rec' \in [phase : Phases, todo : SUBSET ItemType]
        /\ rec'.phase = "idle" => rec'.todo = {}
    BY <1>0, <2>1, <2>4, Selected
  <2>6. \A i \in rec'.todo : ItemOK(i)'
    <3> SUFFICES ASSUME NEW i \in Select(ph) PROVE ItemOK(i)'
      BY <2>4
    <3>1. UNCHANGED <<fills, listings>>
      BY <2>2 DEF db
    <3>2. /\ i \in ItemType
          /\ ph \in {"confirm", "unconfirm", "funding", "expire"} =>
               i.id \in DOMAIN fills /\ i.was = fills[i.id].txid
          /\ ph \in {"open", "lapse"} => i.id \in DOMAIN listings
          /\ ph = "confirm" => fills[i.id].status = "BROADCAST"
          /\ ph = "unconfirm" => fills[i.id].status = "CONFIRMED"
      BY <1>0, Selected
    <3>3. \A f \in DOMAIN fills : RowOK(f) /\ fills[f].txid \in Tx \cup {None}
      BY <1>0, FillFields DEF TablesOK
    <3> QED BY <2>4, <3>1, <3>2, <3>3 DEF ItemOK, RowOK
  <2>7. SpendersOK' /\ \A c \in calls' : CallOK(c)'
    BY <1>0, <2>2, <2>3, CallKept DEF SpendersOK
  <2>8. /\ stale' \subseteq DOMAIN fills' /\ broke' \subseteq DOMAIN fills'
        /\ lapsed' \subseteq DOMAIN listings'
    BY <1>0, <2>2, <2>3 DEF Kept
  <2> QED BY <2>3, <2>5, <2>6, <2>7, <2>8 DEF TypeInv
<1>4. ASSUME TablesOK', Kept, UNCHANGED <<calls, world, stale>>,
             rec' \in [phase : Phases, todo : SUBSET ItemType],
             rec'.phase = "idle" => rec'.todo = {},
             rec'.todo # {} => rec'.phase = rec.phase,
             \A j \in rec'.todo : \E i \in rec.todo : j.id = i.id /\ j.was = i.was
      PROVE  TypeInv'
  <2>1. \A i \in rec'.todo : ItemOK(i)'
    BY <1>4, ItemsKept
  <2>2. SpendersOK' /\ \A c \in calls' : CallOK(c)'
    BY <1>0, <1>4, CallKept DEF SpendersOK, world
  <2>3. /\ stale' \subseteq DOMAIN fills' /\ broke' \subseteq DOMAIN fills'
        /\ lapsed' \subseteq DOMAIN listings'
    BY <1>0, <1>4 DEF Kept, world
  <2> QED BY <1>4, <2>1, <2>2, <2>3 DEF TypeInv
<1>5. ASSUME NEW i \in rec.todo, Reconcile(i) PROVE TypeInv' /\ Kept
  <2>1. TablesOK' /\ Kept
    BY <1>0, <1>5, TablesWorker
  <2>2. UNCHANGED <<calls, world, stale>>
    BY <1>5 DEF Reconcile, Confirm, Unconfirm, ReconcileListing, FindSpender, ExpireUnfunded,
                LapseListing, ExpireFill
  <2>3. /\ rec' \in [phase : Phases, todo : SUBSET ItemType]
        /\ rec'.phase = "idle" => rec'.todo = {}
        /\ rec'.todo # {} => rec'.phase = rec.phase
        /\ \A j \in rec'.todo : \E k \in rec.todo : j.id = k.id /\ j.was = k.was
    BY <1>5, TodoLeft
  <2> QED BY <1>4, <2>1, <2>2, <2>3
<1>6. CASE TickFails
  <2>1. UNCHANGED <<db, calls, world, stale>> /\ rec' = [phase |-> "idle", todo |-> {}]
    BY <1>6 DEF TickFails, EndTick
  <2>2. /\ rec' \in [phase : Phases, todo : SUBSET ItemType] /\ rec'.todo = {}
    BY <2>1 DEF Phases
  <2> QED BY <1>a, <1>4, <2>1, <2>2
<1>7. CASE World
  <2>1. /\ SpendersOK' /\ UNCHANGED <<db, calls, rec, idx>>
        /\ \/ stale' = stale /\ lapsed' = lapsed
              /\ (broke' = broke \/ \E f \in DOMAIN fills : broke' = broke \cup {f})
           \/ UNCHANGED <<stale, broke>>
              /\ \E l \in DOMAIN listings : lapsed' = lapsed \cup {l}
           \/ UNCHANGED <<lapsed, broke>>
              /\ \E f \in DOMAIN fills : stale' = stale \cup {f}
    BY <1>0, <1>7, WorldOK
  <2>2. TablesOK' /\ Kept
    BY <1>a, <2>1
  <2>3. /\ stale' \subseteq DOMAIN fills' /\ broke' \subseteq DOMAIN fills'
        /\ lapsed' \subseteq DOMAIN listings'
    BY <1>0, <2>1, <2>2 DEF Kept
  <2>4. (\A i \in rec'.todo : ItemOK(i)') /\ (\A c \in calls' : CallOK(c)')
    <3>1. \A i \in rec'.todo : ItemOK(i)'
      BY <1>0, <2>1, <2>2, ItemsKept
    <3> QED BY <1>0, <2>1, <2>2, <3>1, CallKept
  <2> QED BY <1>0, <2>1, <2>2, <2>3, <2>4 DEF TypeInv
<1>8. CASE UNCHANGED vars
  <2>1. UNCHANGED <<db, calls, rec, idx, chain, mempool, stale, broke, lapsed>>
    BY <1>8 DEF vars, world
  <2>2. SpendersOK' /\ \A c \in calls' : CallOK(c)'
    BY <1>0, <1>a, <2>1, CallKept DEF SpendersOK
  <2> QED BY <1>a, <1>b, <2>1, <2>2
<1> QED BY <1>1, <1>2, <1>3, <1>5, <1>6, <1>7, <1>8 DEF Next, Moves, Worker

LEMMA TypeInit == Init => TypeInv
<1> SUFFICES ASSUME Init PROVE TypeInv
  OBVIOUS
<1>1. DOMAIN fills = {} /\ Cardinality(DOMAIN fills) = 0 /\ DOMAIN listings = {}
  BY NothingIsMap, FS_EmptySet DEF Init
<1>2. TablesOK
  BY <1>1, NothingIsMap DEF Init, TablesOK, Numbered
<1>3. SpendersOK
  BY DEF Init, SpendersOK, Spender
<1>4. /\ rec \in [phase : Phases, todo : SUBSET ItemType] /\ rec.todo = {}
      /\ calls = {} /\ stale = {} /\ broke = {} /\ lapsed = {}
  BY DEF Init, Phases
<1> QED BY <1>1, <1>2, <1>3, <1>4 DEF TypeInv

(* The market's rows, calls and reconciliation are well formed whatever    *)
(* the handlers, the worker, the chain and failures do.                    *)
THEOREM MarketTypes == Spec => []TypeOK
<1> DEFINE Inv == TypeInv /\ raced \subseteq DOMAIN listings
<1>1. Inv => TypeOK
  <2>1. \A c \in calls : CallOK(c) => c.op \in Ops /\ c.id \in Listing \cup Fill
    BY DEF CallOK, CallType
  <2>2. rec \in [phase : Phases, todo : SUBSET ItemType] => rec.phase \in Phases
    OBVIOUS
  <2> QED BY <2>1, <2>2 DEF TypeInv, TypeOK, TablesOK, SpendersOK
<1>2. Init => Inv
  BY TypeInit DEF Init
<1>3. Inv /\ [Next]_vars => Inv'
  <2> SUFFICES ASSUME TypeInv, raced \subseteq DOMAIN listings, [Next]_vars
               PROVE  TypeInv' /\ raced' \subseteq DOMAIN listings'
    OBVIOUS
  <2>1. TypeInv' /\ DOMAIN listings \subseteq DOMAIN listings'
    BY TypeStep DEF Kept
  <2>2. \A f \in DOMAIN fills : fills[f].listing \in DOMAIN listings
    BY FillFields DEF TypeInv
  <2>3. CASE Next
    BY <2>1, <2>2, <2>3 DEF Next, Remember
  <2>4. CASE UNCHANGED vars
    BY <2>1, <2>4 DEF vars
  <2> QED BY <2>1, <2>3, <2>4
<1> HIDE DEF Inv
<1> QED BY <1>1, <1>2, <1>3, PTL DEF Spec

-----------------------------------------------------------------------------
(* A cancellation and the worker only set the status of fills, and never   *)
(* back to one before the seller signed.                                   *)
Marked ==
  /\ DOMAIN fills' = DOMAIN fills
  /\ \A f \in DOMAIN fills :
       /\ fills'[f].listing = fills[f].listing /\ fills'[f].digest = fills[f].digest
       /\ fills'[f].txid = fills[f].txid
       /\ fills'[f].status # fills[f].status => fills'[f].status \notin Unsigned

LEMMA WorkerMarks ==
  ASSUME TypeInv, \/ \E l \in Listing : CancelListing(l)
                  \/ \E i \in rec.todo : Reconcile(i)
                  \/ UNCHANGED fills
  PROVE  Marked
<1>1. CASE UNCHANGED fills
  BY <1>1 DEF Marked
<1>2. ASSUME NEW F, NEW st \in FillStatus \ Unsigned, fills' = SetFills(F, st) PROVE Marked
  <2>1. /\ DOMAIN fills' = DOMAIN fills
        /\ \A f \in DOMAIN fills :
             /\ fills'[f].listing = fills[f].listing /\ fills'[f].digest = fills[f].digest
             /\ fills'[f].psbt = fills[f].psbt /\ fills'[f].txid = fills[f].txid
             /\ fills'[f].status = IF f \in F THEN st ELSE fills[f].status
    BY <1>2, FillsSet DEF TypeInv
  <2> QED BY <2>1 DEF Marked
<1>3. \A st \in {"CANCELLED", "CONFIRMED", "REORGED", "FAILED", "BROADCAST", "EXPIRED"} :
        st \in FillStatus \ Unsigned
  BY DEF FillStatus, Pending, Unsigned
<1>4. CASE \E l \in Listing : CancelListing(l)
  BY <1>2, <1>3, <1>4 DEF CancelListing
<1>5. ASSUME NEW i \in rec.todo, Reconcile(i), fills' # fills PROVE Marked
  <2>1. CASE Confirm(i) \/ Unconfirm(i)
    BY <1>2, <1>3, <1>5, <2>1 DEF Confirm, Unconfirm
  <2>2. CASE ReconcileListing(i)
    BY <1>2, <1>3, <1>5, <2>2 DEF ReconcileListing, Reopen, Invalidate, Relist, db
  <2>3. CASE FindSpender(i)
    <3>1. Invalidate(i.id) \/ Repend(i.id)
      BY <1>5, <2>3 DEF FindSpender, Reopen, db
    <3>2. CASE Invalidate(i.id)
      BY <1>2, <1>3, <3>2 DEF Invalidate
    <3>3. CASE Repend(i.id)
      BY <1>2, <1>3, <3>3 DEF Repend
    <3> QED BY <3>1, <3>2, <3>3
  <2>4. CASE ExpireUnfunded(i) \/ ExpireFill(i)
    BY <1>2, <1>3, <1>5, <2>4 DEF ExpireUnfunded, ExpireFill, Expire, db
  <2>5. CASE LapseListing(i)
    BY <1>5, <2>5 DEF LapseListing
  <2> QED BY <1>5, <2>1, <2>2, <2>3, <2>4, <2>5 DEF Reconcile
<1> QED BY <1>1, <1>4, <1>5

(* What a reservation does to the rows. *)
LEMMA ReserveMarks ==
  ASSUME TypeInv, NEW l \in Listing, ReserveListing(l)
  PROVE  \E f : /\ f \notin DOMAIN fills /\ DOMAIN fills' = DOMAIN fills \cup {f}
                /\ \A g \in DOMAIN fills : fills'[g] = fills[g] /\ g <= f
                /\ fills'[f].listing = l /\ fills'[f].txid = None
                /\ fills'[f].status = "RESERVED" /\ f \in Fill
<1> SUFFICES ASSUME NEW n, n = Cardinality(DOMAIN fills)
             PROVE  /\ n + 1 \notin DOMAIN fills /\ DOMAIN fills' = DOMAIN fills \cup {n + 1}
                    /\ \A g \in DOMAIN fills : fills'[g] = fills[g] /\ g <= n + 1
                    /\ fills'[n + 1].listing = l /\ fills'[n + 1].txid = None
                    /\ fills'[n + 1].status = "RESERVED" /\ n + 1 \in Fill
  OBVIOUS
<1>1. fills' = PutAt(fills, n + 1, NewFill(l)) /\ n < MaxFills
  BY DEF ReserveListing
<1>2. /\ NewFill(l) \in FillRow /\ NewFill(l).listing = l /\ NewFill(l).txid = None
      /\ NewFill(l).status = "RESERVED"
  <2>1. 0 \in 0 .. MaxBuilds
    BY MarketAssumption
  <2> QED BY <2>1 DEF NewFill, FillRow, FillStatus, Pending, Unsettled
<1>3. /\ n + 1 \notin DOMAIN fills /\ DOMAIN fills' = DOMAIN fills \cup {n + 1}
      /\ \A g \in DOMAIN fills : g <= n
      /\ fills'[n + 1] = NewFill(l) /\ \A g \in DOMAIN fills : fills'[g] = fills[g]
      /\ n + 1 \in Fill
  BY <1>1, <1>2, FillAdded DEF TypeInv
<1>4. n \in Nat /\ \A g \in DOMAIN fills : g \in Int
  BY FS_CardinalityType DEF TypeInv, TablesOK, IsMap, Fill
<1>5. \A g \in DOMAIN fills : g <= n + 1
  BY <1>3, <1>4
<1> QED BY <1>2, <1>3, <1>5

(* What the step of a call does to the rows: it writes its own.            *)
LEMMA CallMarks ==
  ASSUME TypeInv, NEW c \in calls, Proceed(c) \/ CallDies(c)
  PROVE  /\ DOMAIN fills' = DOMAIN fills
         /\ \A g \in DOMAIN fills : g # c.id \/ c.op = "create" => fills'[g] = fills[g]
         /\ c.op # "create" =>
              /\ c.id \in DOMAIN fills
              /\ fills'[c.id].listing = fills[c.id].listing
              /\ \/ fills'[c.id] = fills[c.id] /\ c.op # "txid"
                 \/ CallDies(c) /\ fills'[c.id] = fills[c.id]
                 \/ /\ c.op = "build" /\ fills'[c.id].txid = fills[c.id].txid
                    /\ fills'[c.id].digest = c.build /\ fills'[c.id].status = "PSBT_BUILT"
                 \/ /\ c.op \in {"buyer", "seller"}
                    /\ fills'[c.id].txid = fills[c.id].txid
                    /\ fills'[c.id].digest = fills[c.id].digest
                    /\ fills'[c.id].status \in {"BUYER_SIGNED", "SELLER_SIGNED"}
                 \/ /\ c.op = "txid" /\ fills'[c.id].txid = TxOf(c)
                    /\ fills'[c.id].digest = fills[c.id].digest
                    /\ fills'[c.id].status = fills[c.id].status
                 \/ /\ c.op = "mark" /\ fills'[c.id].txid = TxOf(c)
                    /\ fills'[c.id].digest = fills[c.id].digest
                    /\ fills'[c.id].status = "BROADCAST"
<1>0. TablesOK /\ CallOK(c)
  BY DEF TypeInv
<1>1. CASE fills' = fills /\ (c.op # "txid" \/ CallDies(c))
  BY <1>0, <1>1 DEF CallOK
<1>2. CASE c.op # "create" /\ \/ StorePsbt(c) \/ StoreBuyerSigned(c) \/ StoreSellerSigned(c)
                              \/ StoreTxid(c) \/ (MarkBroadcast(c) /\ fills' # fills)
  <2>0. c.id \in DOMAIN fills /\ c.build \in Build /\ TxOf(c) \in Tx
    BY <1>0, <1>2, CallFacts
  <2>1. CASE StorePsbt(c)
    <3>1. fills' = [fills EXCEPT ![c.id] = Built(c.id, c.build)] /\ c.op = "build"
      BY <1>0, <1>2, <2>1, CallWrites DEF StorePsbt
    <3>2. /\ Built(c.id, c.build) \in FillRow /\ Built(c.id, c.build).digest = c.build
          /\ Built(c.id, c.build).listing = fills[c.id].listing
          /\ Built(c.id, c.build).txid = fills[c.id].txid
          /\ Built(c.id, c.build).status = "PSBT_BUILT"
      BY <1>0, <2>0, RowFields
    <3>3. /\ DOMAIN fills' = DOMAIN fills /\ fills'[c.id] = Built(c.id, c.build)
          /\ \A g \in DOMAIN fills : g # c.id => fills'[g] = fills[g]
      BY <1>0, <2>0, <3>1, <3>2, FillWritten
    <3> QED BY <2>0, <3>1, <3>2, <3>3
  <2>2. CASE StoreBuyerSigned(c)
    <3>1. fills' = [fills EXCEPT ![c.id] = BuyerSigned(c.id, c.build)] /\ c.op = "buyer"
      BY <1>0, <1>2, <2>2, CallWrites DEF StoreBuyerSigned
    <3>2. /\ BuyerSigned(c.id, c.build) \in FillRow
          /\ BuyerSigned(c.id, c.build).listing = fills[c.id].listing
          /\ BuyerSigned(c.id, c.build).txid = fills[c.id].txid
          /\ BuyerSigned(c.id, c.build).digest = fills[c.id].digest
          /\ BuyerSigned(c.id, c.build).status = "BUYER_SIGNED"
      BY <1>0, <2>0, RowFields
    <3>3. /\ DOMAIN fills' = DOMAIN fills /\ fills'[c.id] = BuyerSigned(c.id, c.build)
          /\ \A g \in DOMAIN fills : g # c.id => fills'[g] = fills[g]
      BY <1>0, <2>0, <3>1, <3>2, FillWritten
    <3> QED BY <2>0, <3>1, <3>2, <3>3
  <2>3. CASE StoreSellerSigned(c)
    <3>1. fills' = [fills EXCEPT ![c.id] = SellerSigned(c.id, c.build)] /\ c.op = "seller"
      BY <1>0, <1>2, <2>3, CallWrites DEF StoreSellerSigned
    <3>2. /\ SellerSigned(c.id, c.build) \in FillRow
          /\ SellerSigned(c.id, c.build).listing = fills[c.id].listing
          /\ SellerSigned(c.id, c.build).txid = fills[c.id].txid
          /\ SellerSigned(c.id, c.build).digest = fills[c.id].digest
          /\ SellerSigned(c.id, c.build).status = "SELLER_SIGNED"
      BY <1>0, <2>0, RowFields
    <3>3. /\ DOMAIN fills' = DOMAIN fills /\ fills'[c.id] = SellerSigned(c.id, c.build)
          /\ \A g \in DOMAIN fills : g # c.id => fills'[g] = fills[g]
      BY <1>0, <2>0, <3>1, <3>2, FillWritten
    <3> QED BY <2>0, <3>1, <3>2, <3>3
  <2>4. CASE StoreTxid(c)
    <3>1. fills' = [fills EXCEPT ![c.id] = Named(c.id, TxOf(c))] /\ c.op = "txid"
      BY <1>0, <1>2, <2>4, CallWrites DEF StoreTxid
    <3>2. /\ Named(c.id, TxOf(c)) \in FillRow
          /\ Named(c.id, TxOf(c)).listing = fills[c.id].listing
          /\ Named(c.id, TxOf(c)).txid = TxOf(c)
          /\ Named(c.id, TxOf(c)).digest = fills[c.id].digest
          /\ Named(c.id, TxOf(c)).status = fills[c.id].status
      BY <1>0, <2>0, RowFields
    <3>3. /\ DOMAIN fills' = DOMAIN fills /\ fills'[c.id] = Named(c.id, TxOf(c))
          /\ \A g \in DOMAIN fills : g # c.id => fills'[g] = fills[g]
      BY <1>0, <2>0, <3>1, <3>2, FillWritten
    <3> QED BY <2>0, <3>1, <3>2, <3>3
  <2>5. CASE MarkBroadcast(c) /\ fills' # fills
    <3>1. fills' = [fills EXCEPT ![c.id] = Broadcast(c.id, TxOf(c))] /\ c.op = "mark"
      BY <1>0, <1>2, <2>5, CallWrites DEF MarkBroadcast
    <3>2. /\ Broadcast(c.id, TxOf(c)) \in FillRow
          /\ Broadcast(c.id, TxOf(c)).listing = fills[c.id].listing
          /\ Broadcast(c.id, TxOf(c)).txid = TxOf(c)
          /\ Broadcast(c.id, TxOf(c)).digest = fills[c.id].digest
          /\ Broadcast(c.id, TxOf(c)).status = "BROADCAST"
      BY <1>0, <2>0, RowFields
    <3>3. /\ DOMAIN fills' = DOMAIN fills /\ fills'[c.id] = Broadcast(c.id, TxOf(c))
          /\ \A g \in DOMAIN fills : g # c.id => fills'[g] = fills[g]
      BY <1>0, <2>0, <3>1, <3>2, FillWritten
    <3> QED BY <2>0, <3>1, <3>2, <3>3
  <2> QED BY <1>2, <2>1, <2>2, <2>3, <2>4, <2>5
<1>3. \/ fills' = fills /\ (c.op # "txid" \/ CallDies(c))
      \/ c.op # "create" /\ \/ StorePsbt(c) \/ StoreBuyerSigned(c) \/ StoreSellerSigned(c)
                            \/ StoreTxid(c) \/ (MarkBroadcast(c) /\ fills' # fills)
  <2>1. CASE CallDies(c) \/ InsertListing(c) \/ TestMempoolAccept(c) \/ SendRawTransaction(c)
    BY <2>1 DEF CallDies, InsertListing, TestMempoolAccept, SendRawTransaction, db
  <2>2. CASE \/ StorePsbt(c) \/ StoreBuyerSigned(c) \/ StoreSellerSigned(c) \/ StoreTxid(c)
             \/ MarkBroadcast(c)
    <3>1. c.op # "create" /\ (MarkBroadcast(c) => c.op # "txid")
      BY <2>2 DEF StorePsbt, StoreBuyerSigned, StoreSellerSigned, StoreTxid, MarkBroadcast
    <3> QED BY <2>2, <3>1
  <2> QED BY <2>1, <2>2 DEF Proceed
<1> QED BY <1>1, <1>2, <1>3

-----------------------------------------------------------------------------
(* History only grows.  A call that writes a row others have settled, or   *)
(* that names another transaction, is remembered.                          *)
LEMMA RacedGrows == ASSUME [Next]_vars PROVE raced \subseteq raced'
  BY DEF Next, Remember, vars

LEMMA CallRaces ==
  ASSUME TypeInv, NEW c \in calls, Proceed(c) \/ CallDies(c), Remember
  PROVE  \A f \in DOMAIN fills :
           \/ fills'[f] = fills[f]
           \/ fills[f].listing \in raced'
           \/ /\ f = c.id /\ fills[f].status \in Pending
              /\ fills[f].txid # None => fills'[f].txid = fills[f].txid
<1>1. calls' # calls
  BY CallsLeft DEF TypeInv
<1> SUFFICES ASSUME NEW f \in DOMAIN fills, fills'[f] # fills[f], fills[f].listing \notin raced'
             PROVE  /\ f = c.id /\ fills[f].status \in Pending
                    /\ fills[f].txid # None => fills'[f].txid = fills[f].txid
  OBVIOUS
<1>2. ~Overwrites(f)
  BY DEF Remember
<1>3. /\ fills[f].status \in Pending
      /\ fills[f].txid # None => fills'[f] = [fills[f] EXCEPT !.status = "BROADCAST"]
  BY <1>1, <1>2 DEF Overwrites
<1>4. fills[f] \in FillRow
  BY FillFields DEF TypeInv
<1>5. fills[f].txid # None => fills'[f].txid = fills[f].txid
  BY <1>3, <1>4 DEF FillRow
<1>6. f = c.id
  BY CallMarks
<1> QED BY <1>3, <1>5, <1>6

(* A row keeps the transaction it names, or its listing was raced. *)
Stuck == \A f \in DOMAIN fills :
           fills[f].txid # None => \/ fills'[f].txid = fills[f].txid
                                   \/ fills[f].listing \in raced'

(* What was sent is named by its row, or its listing was raced. *)
NamedOrRaced(f, t) == fills[f].txid = t \/ fills[f].listing \in raced
OwnInv ==
  /\ \A s \in Sources : \A t \in {chain[s], mempool[s]} \cap Tx :
       t[1] \in DOMAIN fills /\ SourceOf(t[1]) = s /\ NamedOrRaced(t[1], t)
  /\ \A c \in calls : c.op \in {"accept", "send", "mark"} => NamedOrRaced(c.id, TxOf(c))

LEMMA OwnStep ==
  ASSUME TypeInv, OwnInv, [Next]_vars
  PROVE  OwnInv'
<1>0. TypeInv' /\ Kept /\ TablesOK /\ SpendersOK /\ raced \subseteq raced'
  BY TypeStep, RacedGrows DEF TypeInv
<1>t. None \notin Tx /\ External \notin Tx /\ \A f \in DOMAIN fills : SourceOf(f) \in Sources
  BY <1>0, MarketAssumption, FillFields DEF SourceOf
<1>s. ASSUME Stuck, NEW f \in DOMAIN fills, NEW t \in Tx, NamedOrRaced(f, t)
      PROVE  NamedOrRaced(f, t)'
  <2>1. t # None /\ fills'[f].listing = fills[f].listing
    BY <1>0, <1>t DEF Kept
  <2> QED BY <1>0, <1>s, <2>1 DEF NamedOrRaced, Stuck
<1>1. ASSUME Stuck,
             \A s \in Sources : {chain'[s], mempool'[s]} \cap Tx \subseteq {chain[s], mempool[s]},
             \A c \in calls' : c.op \in {"accept", "send", "mark"} => c \in calls
      PROVE  OwnInv'
  <2>1. ASSUME NEW s \in Sources, NEW t \in {chain'[s], mempool'[s]} \cap Tx
        PROVE  t[1] \in DOMAIN fills' /\ SourceOf(t[1])' = s /\ NamedOrRaced(t[1], t)'
    <3>1. t[1] \in DOMAIN fills /\ SourceOf(t[1]) = s /\ NamedOrRaced(t[1], t) /\ t \in Tx
      BY <1>1, <2>1 DEF OwnInv
    <3>2. NamedOrRaced(t[1], t)'
      BY <1>1, <1>s, <3>1
    <3> QED BY <1>0, <3>1, <3>2 DEF Kept, SourceOf
  <2>2. ASSUME NEW c \in calls', c.op \in {"accept", "send", "mark"}
        PROVE  NamedOrRaced(c.id, TxOf(c))'
    <3>1. c \in calls /\ NamedOrRaced(c.id, TxOf(c))
      BY <1>1, <2>2 DEF OwnInv
    <3>2. CallOK(c) /\ c.op # "create"
      BY <2>2, <3>1 DEF TypeInv
    <3>3. c.id \in DOMAIN fills /\ TxOf(c) \in Tx
      BY <1>0, <3>2, CallFacts
    <3> QED BY <1>1, <1>s, <3>1, <3>3
  <2> QED BY <2>1, <2>2 DEF OwnInv, TxOf
<1>2. ASSUME Marked, UNCHANGED <<chain, mempool>>, calls' \subseteq calls PROVE OwnInv'
  BY <1>1, <1>2 DEF Marked, Stuck
<1>3. CASE Request
  <2>1. UNCHANGED <<chain, mempool>>
    BY <1>3 DEF Request, CreateListing, CancelListing, ReserveListing, BuildFillPsbt,
                SubmitBuyer, SubmitSeller, FinalizeP2PFill, Begin, world
  <2>2. CASE \E l \in Listing : CancelListing(l)
    <3>1. Marked /\ calls' = calls
      BY <2>2, WorkerMarks DEF CancelListing
    <3> QED BY <1>2, <2>1, <3>1
  <2>3. CASE \E l \in Listing : ReserveListing(l)
    <3>1. \A g \in DOMAIN fills : fills'[g] = fills[g]
      BY <2>3, ReserveMarks
    <3>2. calls' = calls
      BY <2>3 DEF ReserveListing
    <3> QED BY <1>1, <2>1, <3>1, <3>2 DEF Stuck
  <2>4. CASE ~ \E l \in Listing : CancelListing(l) \/ ReserveListing(l)
    <3>1. PICK c : Begin(c) /\ c.op \in {"create", "build", "buyer", "seller", "txid"}
      BY <1>3, <2>4, CallBegins
    <3>2. calls' = calls \cup {c} /\ UNCHANGED fills
      BY <3>1 DEF Begin, db
    <3> QED BY <1>1, <2>1, <3>1, <3>2 DEF Stuck
  <2> QED BY <2>2, <2>3, <2>4
<1>4. ASSUME NEW c \in calls, Proceed(c) \/ CallDies(c), Remember PROVE OwnInv'
  <2>0. CallOK(c)
    BY DEF TypeInv
  <2>1. Stuck
    BY <1>4, CallRaces DEF Stuck
  <2>2. \/ calls' = calls \ {c}
        \/ \E d : /\ calls' = (calls \ {c}) \cup {d} /\ CallOK(d)
                  /\ d.id = c.id /\ d.build = c.build
                  /\ \/ c.op = "txid" /\ d.op = "accept" /\ StoreTxid(c)
                     \/ c.op = "accept" /\ d.op = "send" /\ TestMempoolAccept(c)
                     \/ c.op = "send" /\ d.op = "mark" /\ SendRawTransaction(c)
    BY <1>4, <2>0, CallsLeft
  <2>3. /\ chain' = chain
        /\ \/ mempool' = mempool
           \/ /\ c.op = "send"
              /\ mempool' = [mempool EXCEPT ![SourceOf(c.id)] = TxOf(c)]
    BY <1>4, SpendersCall
  <2>4. ASSUME NEW s \in Sources, NEW t \in {chain'[s], mempool'[s]} \cap Tx
        PROVE  t[1] \in DOMAIN fills' /\ SourceOf(t[1])' = s /\ NamedOrRaced(t[1], t)'
    <3>1. t[1] \in DOMAIN fills /\ SourceOf(t[1]) = s /\ NamedOrRaced(t[1], t) /\ t \in Tx
      <4>1. CASE t \in {chain[s], mempool[s]}
        BY <2>4, <4>1 DEF OwnInv
      <4>2. CASE t \notin {chain[s], mempool[s]}
        <5>1. c.op = "send" /\ s = SourceOf(c.id) /\ t = TxOf(c)
          BY <1>0, <2>3, <2>4, <4>2 DEF SpendersOK
        <5>2. c.id \in DOMAIN fills /\ t[1] = c.id
          BY <1>0, <2>0, <5>1, CallFacts
        <5> QED BY <2>4, <5>1, <5>2 DEF OwnInv
      <4> QED BY <4>1, <4>2
    <3>2. NamedOrRaced(t[1], t)'
      BY <1>s, <2>1, <3>1
    <3> QED BY <1>0, <3>1, <3>2 DEF Kept, SourceOf
  <2>5. ASSUME NEW d \in calls', d.op \in {"accept", "send", "mark"}
        PROVE  NamedOrRaced(d.id, TxOf(d))'
    <3>1. ASSUME NEW e \in calls, e.op \in {"accept", "send", "mark"}
          PROVE  NamedOrRaced(e.id, TxOf(e))'
      <4>1. NamedOrRaced(e.id, TxOf(e)) /\ CallOK(e) /\ e.op # "create"
        BY <3>1 DEF OwnInv, TypeInv
      <4>2. e.id \in DOMAIN fills /\ TxOf(e) \in Tx
        BY <1>0, <4>1, CallFacts
      <4> QED BY <1>s, <2>1, <4>1, <4>2
    <3>2. CASE d \in calls
      BY <2>5, <3>1, <3>2
    <3>3. CASE d \notin calls
      <4>1. /\ d.id = c.id /\ d.build = c.build
            /\ c.op \in {"txid", "accept", "send"}
            /\ c.op = "txid" => StoreTxid(c)
        BY <2>2, <3>3
      <4>2. TxOf(d) = TxOf(c) /\ TxOf(d)' = TxOf(c)
        BY <4>1 DEF TxOf
      <4>3. CASE c.op \in {"accept", "send"}
        BY <3>1, <4>1, <4>2, <4>3 DEF NamedOrRaced, TxOf
      <4>4. CASE c.op = "txid"
        <5>1. StoreTxid(c) /\ c.op # "create"
          BY <4>1, <4>4
        <5>2. fills' = [fills EXCEPT ![c.id] = Named(c.id, TxOf(c))]
          BY <1>0, <2>0, <5>1, CallWrites
        <5>3. c.id \in DOMAIN fills /\ c.build \in Build /\ TxOf(c) \in Tx
          BY <1>0, <2>0, <5>1, CallFacts
        <5>4. Named(c.id, TxOf(c)) \in FillRow /\ Named(c.id, TxOf(c)).txid = TxOf(c)
          BY <1>0, <5>3, RowFields
        <5>5. fills'[c.id] = Named(c.id, TxOf(c))
          BY <1>0, <5>2, <5>3, <5>4, FillWritten
        <5> QED BY <4>1, <4>2, <5>4, <5>5 DEF NamedOrRaced
      <4> QED BY <4>1, <4>3, <4>4
    <3> QED BY <3>2, <3>3
  <2> QED BY <2>4, <2>5 DEF OwnInv, TxOf
<1>5. CASE \/ BeginTick \/ NextPhase \/ TickFails \/ UNCHANGED vars
           \/ \E i \in rec.todo : Reconcile(i)
  <2>1. UNCHANGED <<chain, mempool, calls>>
    BY <1>5 DEF BeginTick, NextPhase, TickFails, vars, world, Reconcile, Confirm, Unconfirm,
                ReconcileListing, FindSpender, ExpireUnfunded, LapseListing, ExpireFill
  <2>2. Marked
    <3>1. UNCHANGED fills \/ \E i \in rec.todo : Reconcile(i)
      BY <1>5 DEF BeginTick, NextPhase, TickFails, vars, db
    <3> QED BY <3>1, WorkerMarks
  <2> QED BY <1>2, <2>1, <2>2
<1>6. CASE World
  <2>1. /\ UNCHANGED <<db, calls, rec, idx>>
        /\ \A s \in Sources :
             {chain'[s], mempool'[s]} \subseteq {chain[s], mempool[s], None, External}
    BY <1>0, <1>6, WorldOK
  <2>2. Stuck
    BY <2>1 DEF Stuck, db
  <2> QED BY <1>1, <1>t, <2>1, <2>2
<1> QED BY <1>3, <1>4, <1>5, <1>6 DEF Next, Moves, Worker

(* The row of a fill names whatever spends its source in its name,         *)
(* whatever dies between the write and the broadcast, whatever calls       *)
(* overlap and whatever the chain does, unless a later write went over it. *)
THEOREM OwnTransactionsKnown == Spec => []OwnIsKnown
<1> DEFINE Inv == TypeInv /\ OwnInv
<1>1. Init => Inv
  <2> SUFFICES ASSUME Init PROVE OwnInv
    BY TypeInit
  <2>1. calls = {} /\ \A s \in Sources : chain[s] = None /\ mempool[s] = None
    BY DEF Init
  <2> QED BY <2>1, MarketAssumption DEF OwnInv
<1>2. Inv /\ [Next]_vars => Inv'
  BY TypeStep, OwnStep
<1>3. Inv => OwnIsKnown
  BY DEF OwnInv, OwnIsKnown, NamedOrRaced, SourceOf
<1> HIDE DEF Inv
<1> QED BY <1>1, <1>2, <1>3, PTL DEF Spec

-----------------------------------------------------------------------------
(* The last reservation of its listing. *)
Latest(f) == \A g \in DOMAIN fills : fills[g].listing = fills[f].listing => g <= f

Reserved == {"RESERVED", "BROADCAST", "CANCELLED", "EXPIRED", "INVALIDATED"}

(* Unless its listing was raced, a fill that may still settle is the last  *)
(* one of a listing that is neither open to others, nor filled, nor taken  *)
(* back by a reorg; a confirmed one is the last one of a filled listing.   *)
LineInv ==
  \A f \in DOMAIN fills : fills[f].listing \notin raced =>
    /\ fills[f].status \in Pending => Latest(f) /\ listings[fills[f].listing] \in Reserved
    /\ fills[f].status = "CONFIRMED" => Latest(f) /\ listings[fills[f].listing] = "FILLED"

(* Calls may have changed a row since the phase selected it; what still    *)
(* holds when its turn comes, of a fill ...                                *)
FillPhases == {"confirm", "unconfirm", "funding", "expire"}
FillTurn(i) ==
  /\ fills[i.id].listing \notin raced =>
       Latest(i.id) /\ listings[fills[i.id].listing] # "ACTIVE"
  /\ rec.phase \in {"confirm", "unconfirm"} => i.was[1] = i.id /\ NamedOrRaced(i.id, i.was)
  /\ rec.phase \in {"funding", "expire"} => fills[i.id].status # "CONFIRMED"

(* ... and of a listing. *)
Vacant(l) == listings[l] # "ACTIVE" /\ FillsOf(l, Pending) = {}
ListingTurn(i) ==
  /\ listings[i.id] # "FILLED"
  /\ rec.phase = "open" /\ i.spent => idx[Source[i.id]] = None
  /\ rec.phase = "open" /\ i.was = "REORGED" /\ i.id \notin raced => Vacant(i.id)

PhaseInv ==
  \A i \in rec.todo :
    /\ rec.phase \in FillPhases => FillTurn(i)
    /\ rec.phase \in {"open", "lapse"} => ListingTurn(i)
    /\ \A j \in rec.todo : j.id = i.id => j = i

(* The index confirms the confirmed fills, but for those the second phase  *)
(* has yet to look at; trades and filled listings come of them.            *)
SettleInv ==
  /\ \A f \in DOMAIN fills :
       fills[f].status = "CONFIRMED" /\ fills[f].listing \notin raced =>
         /\ Reconciled => idx[SourceOf(f)] = fills[f].txid
         /\ rec.phase = "unconfirm" => \/ idx[SourceOf(f)] = fills[f].txid
                                       \/ \E i \in rec.todo : i.id = f
  /\ \A t \in DOMAIN trades : trades[t] =>
       /\ t[1] \in DOMAIN fills
       /\ fills[t[1]].listing \notin raced =>
            fills[t[1]].status = "CONFIRMED" /\ fills[t[1]].txid = t
  /\ \A l \in DOMAIN listings \ raced :
       listings[l] = "FILLED" => FillsOf(l, {"CONFIRMED"}) # {}

Orders == LineInv /\ PhaseInv /\ SettleInv

LEMMA LatestUnique ==
  ASSUME TablesOK, NEW f \in DOMAIN fills, NEW g \in DOMAIN fills,
         Latest(f), Latest(g), fills[f].listing = fills[g].listing
  PROVE  f = g
<1>1. f <= g /\ g <= f
  BY DEF Latest
<1>2. f \in Int /\ g \in Int
  BY FillFields DEF Fill
<1> QED BY <1>1, <1>2

(* The latest fill stays the latest. *)
LEMMA LatestKept ==
  ASSUME DOMAIN fills' = DOMAIN fills,
         \A f \in DOMAIN fills : fills'[f].listing = fills[f].listing
  PROVE  \A f \in DOMAIN fills : Latest(f) => Latest(f)'
  BY DEF Latest

(* What has settled stays when no step settles or unsettles a fill but one *)
(* whose listing was raced.                                                *)
LEMMA SettleKept ==
  ASSUME SettleInv, raced \subseteq raced', trades' = trades,
         DOMAIN fills \subseteq DOMAIN fills',
         \A f \in DOMAIN fills : fills'[f].listing = fills[f].listing,
         \A f \in DOMAIN fills :
           fills[f].status = "CONFIRMED" /\ fills[f].listing \notin raced' =>
             fills'[f].status = "CONFIRMED" /\ fills'[f].txid = fills[f].txid,
         \A f \in DOMAIN fills' :
           fills'[f].status = "CONFIRMED" /\ fills'[f].listing \notin raced' =>
             f \in DOMAIN fills /\ fills[f].status = "CONFIRMED",
         \A k \in DOMAIN listings' :
           listings'[k] = "FILLED" => k \in DOMAIN listings /\ listings[k] = "FILLED",
         Reconciled' => Reconciled /\ idx' = idx,
         rec'.phase = "unconfirm" =>
           rec.phase = "unconfirm" /\ idx' = idx /\ rec.todo \subseteq rec'.todo
  PROVE  SettleInv'
<1>1. ASSUME NEW f \in DOMAIN fills', fills'[f].status = "CONFIRMED",
             fills'[f].listing \notin raced'
      PROVE  /\ Reconciled' => idx'[SourceOf(f)'] = fills'[f].txid
             /\ rec'.phase = "unconfirm" => \/ idx'[SourceOf(f)'] = fills'[f].txid
                                            \/ \E i \in rec'.todo : i.id = f
  <2>1. /\ f \in DOMAIN fills /\ fills[f].status = "CONFIRMED"
        /\ fills'[f].listing = fills[f].listing
    BY <1>1
  <2>2. fills[f].listing \notin raced /\ fills'[f].txid = fills[f].txid
    BY <1>1, <2>1
  <2>3. SourceOf(f)' = SourceOf(f)
    BY <2>1 DEF SourceOf
  <2>4. /\ Reconciled => idx[SourceOf(f)] = fills[f].txid
        /\ rec.phase = "unconfirm" => \/ idx[SourceOf(f)] = fills[f].txid
                                      \/ \E i \in rec.todo : i.id = f
    BY <2>1, <2>2 DEF SettleInv
  <2> QED BY <2>2, <2>3, <2>4
<1>2. ASSUME NEW t \in DOMAIN trades', trades'[t]
      PROVE  /\ t[1] \in DOMAIN fills'
             /\ fills'[t[1]].listing \notin raced' =>
                  fills'[t[1]].status = "CONFIRMED" /\ fills'[t[1]].txid = t
  <2>1. /\ t[1] \in DOMAIN fills
        /\ fills[t[1]].listing \notin raced =>
             fills[t[1]].status = "CONFIRMED" /\ fills[t[1]].txid = t
    BY <1>2 DEF SettleInv
  <2> QED BY <2>1
<1>3. ASSUME NEW k \in DOMAIN listings' \ raced', listings'[k] = "FILLED"
      PROVE  FillsOf(k, {"CONFIRMED"})' # {}
  <2>1. PICK f \in DOMAIN fills : fills[f].listing = k /\ fills[f].status = "CONFIRMED"
    BY <1>3 DEF SettleInv, FillsOf
  <2>2. f \in DOMAIN fills' /\ fills'[f].listing = k /\ fills'[f].status = "CONFIRMED"
    BY <1>3, <2>1
  <2> QED BY <2>2 DEF FillsOf
<1> QED BY <1>1, <1>2, <1>3 DEF SettleInv

(* What a step outside the worker must leave alone so that its turns still *)
(* find what they need.                                                    *)
LEMMA PhaseKept ==
  ASSUME TypeInv, PhaseInv, Kept, raced \subseteq raced', UNCHANGED <<rec, idx>>, Stuck,
         \A f \in DOMAIN fills :
           /\ fills[f].listing \notin raced' /\ Latest(f)
           /\ listings[fills[f].listing] # "ACTIVE"
           => Latest(f)' /\ listings'[fills[f].listing] # "ACTIVE",
         \A f \in DOMAIN fills :
           fills[f].status # "CONFIRMED" => fills'[f].status # "CONFIRMED",
         \A l \in DOMAIN listings : listings[l] # "FILLED" => listings'[l] # "FILLED",
         \A l \in DOMAIN listings : l \notin raced' /\ Vacant(l) => Vacant(l)'
  PROVE  PhaseInv'
<1> SUFFICES ASSUME NEW i \in rec.todo
             PROVE  /\ rec.phase \in FillPhases => FillTurn(i)'
                    /\ rec.phase \in {"open", "lapse"} => ListingTurn(i)'
                    /\ \A j \in rec.todo : j.id = i.id => j = i
  BY DEF PhaseInv
<1>0. ItemOK(i) /\ rec'.phase = rec.phase /\ idx' = idx
  BY DEF TypeInv
<1>1. ASSUME rec.phase \in FillPhases PROVE FillTurn(i)'
  <2>1. FillTurn(i) /\ i.id \in DOMAIN fills
    BY <1>0, <1>1 DEF PhaseInv, ItemOK, FillPhases
  <2>2. fills'[i.id].listing = fills[i.id].listing
    BY <2>1 DEF Kept
  <2>3. fills[i.id].listing \notin raced' =>
          Latest(i.id)' /\ listings'[fills[i.id].listing] # "ACTIVE"
    BY <2>1 DEF FillTurn
  <2>4. rec.phase \in {"confirm", "unconfirm"} => NamedOrRaced(i.id, i.was)'
    <3> SUFFICES ASSUME rec.phase \in {"confirm", "unconfirm"} PROVE NamedOrRaced(i.id, i.was)'
      OBVIOUS
    <3>1. fills[i.id].txid # None /\ NamedOrRaced(i.id, i.was)
      BY <1>0, <2>1 DEF ItemOK, FillTurn
    <3> QED BY <2>1, <2>2, <3>1 DEF NamedOrRaced, Stuck
  <2> QED BY <1>0, <2>1, <2>2, <2>3, <2>4 DEF FillTurn
<1>2. ASSUME rec.phase \in {"open", "lapse"} PROVE ListingTurn(i)'
  <2>1. ListingTurn(i) /\ i.id \in DOMAIN listings
    BY <1>0, <1>2 DEF PhaseInv, ItemOK
  <2> QED BY <1>0, <2>1 DEF ListingTurn
<1> QED BY <1>1, <1>2 DEF PhaseInv

(* Nothing changes in the tables. *)
LEMMA LineSame ==
  ASSUME LineInv, raced \subseteq raced', UNCHANGED <<listings, fills>>
  PROVE  LineInv'
  BY DEF LineInv, Latest

LEMMA OrdersSame ==
  ASSUME TypeInv, Orders, raced \subseteq raced', UNCHANGED <<listings, fills, trades, rec, idx>>
  PROVE  Orders'
<1>0. LineInv /\ PhaseInv /\ SettleInv
  BY DEF Orders
<1>1. Kept /\ Stuck
  BY DEF Kept, Stuck
<1>2. LineInv'
  BY <1>0, LineSame
<1>3. PhaseInv'
  <2>1. \A f \in DOMAIN fills : Latest(f) => Latest(f)'
    BY LatestKept
  <2>2. \A l : Vacant(l) => Vacant(l)'
    BY DEF Vacant, FillsOf
  <2> QED BY <1>0, <1>1, <2>1, <2>2, PhaseKept
<1>4. SettleInv'
  BY <1>0, SettleKept DEF Reconciled
<1> QED BY <1>2, <1>3, <1>4 DEF Orders

-----------------------------------------------------------------------------
(* A step that only sets statuses: of one listing, and of fills of it. *)
Sets(l, ls, F, fs) ==
  /\ l \in DOMAIN listings
  /\ DOMAIN listings' = DOMAIN listings
  /\ listings'[l] = ls
  /\ \A k \in DOMAIN listings : k # l => listings'[k] = listings[k]
  /\ DOMAIN fills' = DOMAIN fills
  /\ \A f \in DOMAIN fills :
       /\ fills'[f].listing = fills[f].listing /\ fills'[f].txid = fills[f].txid
       /\ f \in F => fills[f].listing = l
       /\ fills'[f].status = IF f \in F THEN fs ELSE fills[f].status

LEMMA SetsBoth ==
  ASSUME TablesOK, NEW l \in DOMAIN listings, NEW ls \in ListingStatus,
         NEW F, NEW fs \in FillStatus,
         \A f \in F \cap DOMAIN fills : fills[f].listing = l,
         listings' = SetListing(l, ls), fills' = SetFills(F, fs)
  PROVE  Sets(l, ls, F, fs)
<1>1. l \in Listing
  BY DEF TablesOK, IsMap
<1>2. /\ DOMAIN listings' = DOMAIN listings /\ listings'[l] = ls
      /\ \A k \in DOMAIN listings : k # l => listings'[k] = listings[k]
  BY <1>1, ListingSet
<1>3. /\ DOMAIN fills' = DOMAIN fills
      /\ \A f \in DOMAIN fills :
           /\ fills'[f].listing = fills[f].listing /\ fills'[f].txid = fills[f].txid
           /\ fills'[f].status = IF f \in F THEN fs ELSE fills[f].status
  BY FillsSet
<1> QED BY <1>2, <1>3 DEF Sets

LEMMA SetsListing ==
  ASSUME TablesOK, NEW l \in DOMAIN listings, NEW ls \in ListingStatus,
         listings' = SetListing(l, ls), UNCHANGED fills
  PROVE  Sets(l, ls, {}, "FAILED")
<1>1. l \in Listing
  BY DEF TablesOK, IsMap
<1>2. /\ DOMAIN listings' = DOMAIN listings /\ listings'[l] = ls
      /\ \A k \in DOMAIN listings : k # l => listings'[k] = listings[k]
  BY <1>1, ListingSet
<1> QED BY <1>2 DEF Sets

LEMMA SetsFills ==
  ASSUME TablesOK, NEW l \in DOMAIN listings,
         NEW F, NEW fs \in FillStatus,
         \A f \in F \cap DOMAIN fills : fills[f].listing = l,
         UNCHANGED listings, fills' = SetFills(F, fs)
  PROVE  Sets(l, listings[l], F, fs)
<1>3. /\ DOMAIN fills' = DOMAIN fills
      /\ \A f \in DOMAIN fills :
           /\ fills'[f].listing = fills[f].listing /\ fills'[f].txid = fills[f].txid
           /\ fills'[f].status = IF f \in F THEN fs ELSE fills[f].status
  BY FillsSet
<1> QED BY <1>3 DEF Sets

(* The statuses keep the line of a listing's fills in order. *)
Orderly(l, ls, F, fs) ==
  /\ Sets(l, ls, F, fs)
  /\ l \notin raced =>
       /\ fs \in Pending => ls \in Reserved /\ \A f \in F \cap DOMAIN fills : Latest(f)
       /\ fs = "CONFIRMED" => ls = "FILLED" /\ \A f \in F \cap DOMAIN fills : Latest(f)
       /\ \A f \in DOMAIN fills \ F : fills[f].listing = l =>
            /\ fills[f].status \in Pending => ls \in Reserved
            /\ fills[f].status = "CONFIRMED" => ls = "FILLED"

LEMMA LineSets ==
  ASSUME TypeInv, LineInv, raced \subseteq raced', NEW l, NEW ls, NEW F, NEW fs,
         Orderly(l, ls, F, fs)
  PROVE  LineInv'
<1>0. Sets(l, ls, F, fs) /\ \A f \in DOMAIN fills : Latest(f) => Latest(f)'
  BY LatestKept DEF Sets, Orderly
<1> SUFFICES ASSUME NEW f \in DOMAIN fills', fills'[f].listing \notin raced'
             PROVE  /\ fills'[f].status \in Pending =>
                         Latest(f)' /\ listings'[fills'[f].listing] \in Reserved
                    /\ fills'[f].status = "CONFIRMED" =>
                         Latest(f)' /\ listings'[fills'[f].listing] = "FILLED"
  BY DEF LineInv
<1>1. /\ f \in DOMAIN fills /\ fills'[f].listing = fills[f].listing
      /\ fills[f].listing \notin raced
  BY <1>0 DEF Sets
<1>2. fills[f].listing \in DOMAIN listings
  BY <1>1, FillFields DEF TypeInv
<1>3. listings'[fills[f].listing] = IF fills[f].listing = l THEN ls
                                    ELSE listings[fills[f].listing]
  BY <1>0, <1>2 DEF Sets
<1>4. CASE f \in F
  <2>1. fills[f].listing = l /\ fills'[f].status = fs
    BY <1>0, <1>1, <1>4 DEF Sets
  <2> QED BY <1>0, <1>1, <1>3, <1>4, <2>1 DEF Orderly
<1>5. CASE f \notin F
  <2>1. fills'[f].status = fills[f].status
    BY <1>0, <1>1, <1>5 DEF Sets
  <2>2. /\ fills[f].status \in Pending =>
             Latest(f) /\ listings[fills[f].listing] \in Reserved
        /\ fills[f].status = "CONFIRMED" =>
             Latest(f) /\ listings[fills[f].listing] = "FILLED"
    BY <1>1 DEF LineInv
  <2> QED BY <1>0, <1>1, <1>3, <1>5, <2>1, <2>2 DEF Orderly
<1> QED BY <1>4, <1>5

(* A listing that is not filled has no confirmed fill; one that is active  *)
(* or reorged has no pending one either.                                   *)
LEMMA NoneSettled ==
  ASSUME LineInv, NEW l, l \notin raced, listings[l] # "FILLED"
  PROVE  /\ \A f \in DOMAIN fills : fills[f].listing = l => fills[f].status # "CONFIRMED"
         /\ listings[l] \in {"ACTIVE", "REORGED"} =>
              \A f \in DOMAIN fills : fills[f].listing = l => fills[f].status \notin Pending
  BY DEF LineInv, Reserved

(* A cancellation. *)
LEMMA OrdersCancel ==
  ASSUME TypeInv, Orders, Kept, raced \subseteq raced', NEW l \in Listing, CancelListing(l)
  PROVE  Orders'
<1> DEFINE F == FillsOf(l, Unsettled)
<1>0. LineInv /\ PhaseInv /\ SettleInv /\ TablesOK
  BY DEF Orders, TypeInv
<1>1. /\ l \in DOMAIN listings /\ listings[l] # "FILLED"
      /\ listings' = SetListing(l, "CANCELLED") /\ fills' = SetFills(F, "CANCELLED")
      /\ UNCHANGED <<trades, rec, idx>>
  BY DEF CancelListing, world
<1>2. \A f \in F : fills[f].listing = l /\ fills[f].status \in Unsettled
  BY DEF FillsOf
<1> HIDE DEF F
<1>3. /\ "CANCELLED" \in FillStatus /\ "CANCELLED" \in ListingStatus
      /\ "CANCELLED" \notin Pending /\ "CANCELLED" \in Reserved /\ "CONFIRMED" \notin Unsettled
  BY DEF FillStatus, ListingStatus, Pending, Unsettled, Reserved
<1>4. Sets(l, "CANCELLED", F, "CANCELLED")
  BY <1>0, <1>1, <1>2, <1>3, SetsBoth
<1>5. Orderly(l, "CANCELLED", F, "CANCELLED")
  BY <1>0, <1>1, <1>3, <1>4, NoneSettled DEF Orderly
<1>6. LineInv'
  BY <1>0, <1>5, LineSets
<1>7. PhaseInv'
  <2>1. Stuck
    BY <1>4 DEF Stuck, Sets
  <2>2. \A f \in DOMAIN fills : Latest(f) => Latest(f)'
    BY <1>4, LatestKept DEF Sets
  <2>3. \A f \in DOMAIN fills : fills[f].listing \in DOMAIN listings
    BY <1>0, FillFields
  <2>4. \A k \in DOMAIN listings : listings'[k] \in {listings[k], "CANCELLED"}
    BY <1>4 DEF Sets
  <2>5. ASSUME NEW k \in DOMAIN listings, Vacant(k) PROVE Vacant(k)'
    <3>1. \A f \in DOMAIN fills : fills[f].listing = k => fills[f].status \notin Pending
      BY <2>5 DEF Vacant, FillsOf
    <3>2. \A f \in DOMAIN fills' : fills'[f].listing = k => fills'[f].status \notin Pending
      BY <1>3, <1>4, <3>1 DEF Sets
    <3> QED BY <2>4, <2>5, <3>2 DEF Vacant, FillsOf
  <2>6. \A f \in DOMAIN fills :
          fills[f].status # "CONFIRMED" => fills'[f].status # "CONFIRMED"
    BY <1>4 DEF Sets
  <2> QED BY <1>0, <1>1, <2>1, <2>2, <2>3, <2>4, <2>5, <2>6, PhaseKept
<1>8. SettleInv'
  <2>1. \A f \in DOMAIN fills : fills[f].status = "CONFIRMED" => f \notin F
    BY <1>2, <1>3
  <2>2. /\ DOMAIN fills' = DOMAIN fills
        /\ \A f \in DOMAIN fills : /\ fills'[f].listing = fills[f].listing
                                   /\ fills'[f].txid = fills[f].txid
                                   /\ fills'[f].status = "CONFIRMED" <=>
                                        fills[f].status = "CONFIRMED"
    BY <1>4, <2>1 DEF Sets
  <2>3. \A k \in DOMAIN listings' :
          listings'[k] = "FILLED" => k \in DOMAIN listings /\ listings[k] = "FILLED"
    BY <1>4 DEF Sets
  <2> QED BY <1>0, <1>1, <2>2, <2>3, SettleKept DEF Reconciled
<1> QED BY <1>6, <1>7, <1>8 DEF Orders

(* A reservation. *)
LEMMA OrdersReserve ==
  ASSUME TypeInv, Orders, Kept, raced \subseteq raced', NEW l \in Listing, ReserveListing(l)
  PROVE  Orders'
<1>0. LineInv /\ PhaseInv /\ SettleInv /\ TablesOK
  BY DEF Orders, TypeInv
<1>1. /\ l \in DOMAIN listings /\ listings[l] = "ACTIVE"
      /\ listings' = SetListing(l, "RESERVED") /\ UNCHANGED <<trades, rec, idx>>
  BY DEF ReserveListing, world
<1>2. PICK n : /\ n \notin DOMAIN fills /\ DOMAIN fills' = DOMAIN fills \cup {n}
               /\ \A g \in DOMAIN fills : fills'[g] = fills[g] /\ g <= n
               /\ fills'[n].listing = l /\ fills'[n].txid = None
               /\ fills'[n].status = "RESERVED" /\ n \in Fill
  BY ReserveMarks
<1>3. /\ DOMAIN listings' = DOMAIN listings /\ listings'[l] = "RESERVED"
      /\ \A k \in DOMAIN listings : k # l => listings'[k] = listings[k]
  BY <1>0, <1>1, ListingSet DEF ListingStatus, Open
<1>4. \A f \in DOMAIN fills : fills[f].listing # l /\ Latest(f) => Latest(f)'
  BY <1>2 DEF Latest
<1>5. \A f \in DOMAIN fills : fills[f].listing \in DOMAIN listings
  BY <1>0, FillFields
<1>6. LineInv'
  <2> SUFFICES ASSUME NEW f \in DOMAIN fills', fills'[f].listing \notin raced'
               PROVE  /\ fills'[f].status \in Pending =>
                           Latest(f)' /\ listings'[fills'[f].listing] \in Reserved
                      /\ fills'[f].status = "CONFIRMED" =>
                           Latest(f)' /\ listings'[fills'[f].listing] = "FILLED"
    BY DEF LineInv
  <2>1. CASE f = n
    <3>1. n <= n
      BY <1>2 DEF Fill
    <3>2. Latest(n)'
      BY <1>2, <3>1 DEF Latest
    <3> QED BY <1>2, <1>3, <2>1, <3>2 DEF Reserved
  <2>2. CASE f \in DOMAIN fills /\ fills[f].listing = l
    <3>1. l \notin raced /\ fills'[f] = fills[f]
      BY <1>2, <2>2
    <3> QED BY <1>0, <1>1, <2>2, <3>1, NoneSettled
  <2>3. CASE f \in DOMAIN fills /\ fills[f].listing # l
    <3>1. fills'[f] = fills[f] /\ fills[f].listing \notin raced
      BY <1>2, <2>3
    <3> QED BY <1>0, <1>3, <1>4, <1>5, <2>3, <3>1 DEF LineInv
  <2> QED BY <1>2, <2>1, <2>2, <2>3
<1>7. PhaseInv'
  <2>1. Stuck
    BY <1>2 DEF Stuck
  <2>2. ASSUME NEW k \in DOMAIN listings, Vacant(k) PROVE Vacant(k)'
    <3>1. k # l /\ listings'[k] = listings[k]
      BY <1>1, <1>3, <2>2 DEF Vacant
    <3>2. \A f \in DOMAIN fills' : fills'[f].listing = k => fills'[f].status \notin Pending
      BY <1>2, <2>2, <3>1 DEF Vacant, FillsOf
    <3> QED BY <2>2, <3>1, <3>2 DEF Vacant, FillsOf
  <2>3. \A f \in DOMAIN fills :
          /\ Latest(f) /\ listings[fills[f].listing] # "ACTIVE"
          => Latest(f)' /\ listings'[fills[f].listing] # "ACTIVE"
    BY <1>1, <1>3, <1>4, <1>5
  <2>4. \A f \in DOMAIN fills :
          fills[f].status # "CONFIRMED" => fills'[f].status # "CONFIRMED"
    BY <1>2
  <2>5. \A k \in DOMAIN listings : listings[k] # "FILLED" => listings'[k] # "FILLED"
    BY <1>3
  <2> QED BY <1>0, <1>1, <2>1, <2>2, <2>3, <2>4, <2>5, PhaseKept
<1>8. SettleInv'
  <2>1. \A f \in DOMAIN fills' :
          fills'[f].status = "CONFIRMED" => f \in DOMAIN fills /\ fills[f].status = "CONFIRMED"
    BY <1>2
  <2>2. \A k \in DOMAIN listings' :
          listings'[k] = "FILLED" => k \in DOMAIN listings /\ listings[k] = "FILLED"
    BY <1>3
  <2> QED BY <1>0, <1>1, <1>2, <2>1, <2>2, SettleKept DEF Reconciled
<1> QED BY <1>6, <1>7, <1>8 DEF Orders

(* What the step of a call does to the listings. *)
LEMMA CallLists ==
  ASSUME TypeInv, NEW c \in calls, Proceed(c) \/ CallDies(c), Remember
  PROVE  /\ \A k \in DOMAIN listings :
              \/ listings'[k] = listings[k]
              \/ /\ listings'[k] = "BROADCAST" /\ c.op # "create" /\ fills[c.id].listing = k
                 /\ fills[c.id].status \in Pending \/ k \in raced'
         /\ \A k \in DOMAIN listings' : k \in DOMAIN listings \/ listings'[k] = "ACTIVE"
         /\ UNCHANGED <<trades, rec, idx>>
<1>0. TablesOK /\ CallOK(c) /\ UNCHANGED <<rec, idx>>
  BY SpendersCall DEF TypeInv
<1>1. CASE UNCHANGED <<listings, trades>>
  BY <1>0, <1>1
<1>2. CASE InsertListing(c)
  <2>1. c.id \in Listing /\ trades' = trades
    BY <1>0, <1>2 DEF InsertListing, CallOK
  <2>2. CASE listings' # listings
    <3>1. c.id \notin DOMAIN listings /\ listings' = SetListing(c.id, "ACTIVE")
      BY <1>2, <2>2 DEF InsertListing
    <3>2. /\ DOMAIN listings' = DOMAIN listings \cup {c.id} /\ listings'[c.id] = "ACTIVE"
          /\ \A k \in DOMAIN listings : k # c.id => listings'[k] = listings[k]
      BY <1>0, <2>1, <3>1, ListingSet DEF ListingStatus, Open
    <3> QED BY <1>0, <2>1, <3>1, <3>2
  <2> QED BY <1>1, <2>1, <2>2
<1>3. CASE MarkBroadcast(c) /\ listings' # listings
  <2>1. c.op # "create" /\ trades' = trades
    BY <1>3 DEF MarkBroadcast
  <2>2. /\ c.id \in DOMAIN fills /\ fills[c.id].listing \in Listing
        /\ fills[c.id].listing \in DOMAIN listings /\ TxOf(c) \in Tx /\ c.build \in Build
    BY <1>0, <2>1, CallFacts, FillFields
  <2>3. /\ listings' = SetListing(fills[c.id].listing, "BROADCAST")
        /\ fills' = [fills EXCEPT ![c.id] = Broadcast(c.id, TxOf(c))]
    BY <1>0, <1>3, <2>1, CallWrites
  <2>4. /\ DOMAIN listings' = DOMAIN listings /\ listings'[fills[c.id].listing] = "BROADCAST"
        /\ \A k \in DOMAIN listings : k # fills[c.id].listing => listings'[k] = listings[k]
    BY <1>0, <2>2, <2>3, ListingSet DEF ListingStatus, Open
  <2>5. fills[c.id].status \in Pending \/ fills[c.id].listing \in raced'
    <3>1. /\ Broadcast(c.id, TxOf(c)) \in FillRow
          /\ Broadcast(c.id, TxOf(c)).status = "BROADCAST"
      BY <1>0, <2>2, RowFields
    <3>2. fills'[c.id].status = "BROADCAST"
      BY <1>0, <2>2, <2>3, <3>1, FillWritten
    <3>3. fills[c.id].status \notin Pending => fills'[c.id] # fills[c.id]
      BY <3>2 DEF Pending
    <3> QED BY <2>2, <3>3, CallRaces
  <2> QED BY <1>0, <2>1, <2>4, <2>5
<1> QED BY <1>1, <1>2, <1>3 DEF Proceed, CallDies, StorePsbt, StoreBuyerSigned,
       StoreSellerSigned, StoreTxid, TestMempoolAccept, SendRawTransaction, MarkBroadcast, db

(* The step of a call. *)
LEMMA OrdersCall ==
  ASSUME TypeInv, Orders, Kept, raced \subseteq raced', Remember,
         NEW c \in calls, Proceed(c) \/ CallDies(c)
  PROVE  Orders'
<1>0. LineInv /\ PhaseInv /\ SettleInv /\ TablesOK
  BY DEF Orders, TypeInv
<1>1. /\ \A k \in DOMAIN listings :
           \/ listings'[k] = listings[k]
           \/ /\ listings'[k] = "BROADCAST" /\ c.op # "create" /\ fills[c.id].listing = k
              /\ fills[c.id].status \in Pending \/ k \in raced'
      /\ \A k \in DOMAIN listings' : k \in DOMAIN listings \/ listings'[k] = "ACTIVE"
      /\ UNCHANGED <<trades, rec, idx>>
  BY CallLists
<1>2. \A f \in DOMAIN fills :
        \/ fills'[f] = fills[f]
        \/ fills[f].listing \in raced'
        \/ /\ f = c.id /\ fills[f].status \in Pending
           /\ fills[f].txid # None => fills'[f].txid = fills[f].txid
  BY CallRaces
<1>3. /\ DOMAIN fills' = DOMAIN fills
      /\ \A f \in DOMAIN fills :
           /\ fills'[f].listing = fills[f].listing
           /\ fills'[f].status = fills[f].status \/ fills'[f].status \in Pending
  BY CallMarks DEF Pending, Unsettled
<1>4. \A f \in DOMAIN fills : fills[f].listing \in DOMAIN listings
  BY <1>0, FillFields
<1>5. \A f \in DOMAIN fills : Latest(f) => Latest(f)'
  BY <1>3, LatestKept
<1>6. "CONFIRMED" \notin Pending /\ "FILLED" \notin Reserved /\ "BROADCAST" \in Reserved
  BY DEF Pending, Unsettled, Reserved
<1>7. \A f \in DOMAIN fills : c.op # "create" => c.id \in DOMAIN fills
  BY CallMarks
<1>8. LineInv'
  <2> SUFFICES ASSUME NEW f \in DOMAIN fills', fills'[f].listing \notin raced'
               PROVE  /\ fills'[f].status \in Pending =>
                           Latest(f)' /\ listings'[fills'[f].listing] \in Reserved
                      /\ fills'[f].status = "CONFIRMED" =>
                           Latest(f)' /\ listings'[fills'[f].listing] = "FILLED"
    BY DEF LineInv
  <2>1. /\ f \in DOMAIN fills /\ fills'[f].listing = fills[f].listing
        /\ fills[f].listing \notin raced
    BY <1>3
  <2>2. /\ fills'[f].status \in Pending => fills[f].status \in Pending
        /\ fills'[f].status = "CONFIRMED" => fills[f].status = "CONFIRMED"
    BY <1>2, <1>3, <1>6, <2>1
  <2>3. /\ fills[f].status \in Pending =>
             Latest(f) /\ listings[fills[f].listing] \in Reserved
        /\ fills[f].status = "CONFIRMED" =>
             Latest(f) /\ listings[fills[f].listing] = "FILLED"
    BY <1>0, <2>1 DEF LineInv
  <2>4. ASSUME listings'[fills[f].listing] # listings[fills[f].listing]
        PROVE  /\ listings'[fills[f].listing] = "BROADCAST"
               /\ listings[fills[f].listing] \in Reserved
    <3>1. /\ listings'[fills[f].listing] = "BROADCAST" /\ c.op # "create"
          /\ fills[c.id].listing = fills[f].listing /\ fills[c.id].status \in Pending
      BY <1>1, <1>4, <2>1, <2>4
    <3>2. listings[fills[c.id].listing] \in Reserved
      BY <1>0, <1>7, <2>1, <3>1 DEF LineInv
    <3> QED BY <3>1, <3>2
  <2> QED BY <1>5, <1>6, <2>1, <2>2, <2>3, <2>4
<1>9. PhaseInv'
  <2>1. Stuck
    BY <1>2 DEF Stuck
  <2>2. \A k \in DOMAIN listings : listings'[k] \in {listings[k], "BROADCAST"}
    BY <1>1
  <2>3. ASSUME NEW k \in DOMAIN listings, k \notin raced', Vacant(k) PROVE Vacant(k)'
    <3>1. \A f \in DOMAIN fills : fills[f].listing = k => fills[f].status \notin Pending
      BY <2>3 DEF Vacant, FillsOf
    <3>2. \A f \in DOMAIN fills : fills[f].listing = k => fills'[f] = fills[f]
      BY <1>2, <2>3, <3>1
    <3>3. \A f \in DOMAIN fills' : fills'[f].listing = k => fills'[f].status \notin Pending
      BY <1>3, <3>1, <3>2
    <3> QED BY <2>2, <2>3, <3>3 DEF Vacant, FillsOf
  <2>4. \A f \in DOMAIN fills :
          /\ Latest(f) /\ listings[fills[f].listing] # "ACTIVE"
          => Latest(f)' /\ listings'[fills[f].listing] # "ACTIVE"
    BY <1>4, <1>5, <2>2
  <2>5. \A f \in DOMAIN fills :
          fills[f].status # "CONFIRMED" => fills'[f].status # "CONFIRMED"
    BY <1>3, <1>6
  <2>6. \A k \in DOMAIN listings : listings[k] # "FILLED" => listings'[k] # "FILLED"
    BY <2>2
  <2> QED BY <1>0, <1>1, <2>1, <2>3, <2>4, <2>5, <2>6, PhaseKept
<1>10. SettleInv'
  <2>1. \A f \in DOMAIN fills :
          fills[f].status = "CONFIRMED" /\ fills[f].listing \notin raced' =>
            fills'[f].status = "CONFIRMED" /\ fills'[f].txid = fills[f].txid
    BY <1>2, <1>6
  <2>2. \A f \in DOMAIN fills' :
          fills'[f].status = "CONFIRMED" => f \in DOMAIN fills /\ fills[f].status = "CONFIRMED"
    BY <1>3, <1>6
  <2>3. \A k \in DOMAIN listings' :
          listings'[k] = "FILLED" => k \in DOMAIN listings /\ listings[k] = "FILLED"
    BY <1>1
  <2> QED BY <1>0, <1>1, <1>3, <2>1, <2>2, <2>3, SettleKept DEF Reconciled
<1> QED BY <1>8, <1>9, <1>10 DEF Orders

(* latestFillTxid reads the row of the latest fill. *)
LEMMA LatestRow ==
  ASSUME TablesOK, NEW l
  PROVE  /\ LatestTxid(l) # None =>
              \E m \in DOMAIN fills : /\ Latest(m) /\ fills[m].listing = l
                                      /\ LatestTxid(l) = fills[m].txid
         /\ \A f \in DOMAIN fills :
              Latest(f) /\ fills[f].listing = l => LatestTxid(l) = fills[f].txid
<1> DEFINE F == FillsOf(l, FillStatus)
<1>1. /\ F \in SUBSET Nat /\ MaxFills \in Nat /\ \A f \in F : f <= MaxFills
      /\ \A f : f \in F <=> f \in DOMAIN fills /\ fills[f].listing = l
  BY FillFields, MarketAssumption DEF FillsOf, Fill
<1>2. LatestTxid(l) = IF F = {} THEN None ELSE fills[Max(F)].txid
  BY DEF LatestTxid
<1> HIDE DEF F
<1>3. ASSUME F # {} PROVE Max(F) \in F /\ \A g \in F : g <= Max(F)
  <2>1. \E n \in F : \A m \in F : n >= m
    BY <1>1, <1>3, GreatestNat
  <2>2. Max(F) \in F /\ \A g \in F : Max(F) >= g
    BY <2>1 DEF Max
  <2> QED BY <1>1, <2>2
<1>4. ASSUME LatestTxid(l) # None
      PROVE  \E m \in DOMAIN fills : /\ Latest(m) /\ fills[m].listing = l
                                     /\ LatestTxid(l) = fills[m].txid
  <2>1. F # {} /\ LatestTxid(l) = fills[Max(F)].txid
    BY <1>2, <1>4
  <2>2. /\ Max(F) \in DOMAIN fills /\ fills[Max(F)].listing = l
        /\ \A g \in DOMAIN fills : fills[g].listing = l => g <= Max(F)
    BY <1>1, <1>3, <2>1
  <2>3. Latest(Max(F))
    BY <2>2 DEF Latest
  <2> QED BY <2>1, <2>2, <2>3
<1>5. ASSUME NEW f \in DOMAIN fills, Latest(f), fills[f].listing = l
      PROVE  LatestTxid(l) = fills[f].txid
  <2>1. f \in F /\ F # {}
    BY <1>1, <1>5
  <2>2. Max(F) \in F /\ f <= Max(F) /\ Max(F) <= f /\ Max(F) \in Nat /\ f \in Nat
    <3>1. Max(F) <= f
      BY <1>1, <1>3, <1>5, <2>1 DEF Latest
    <3> QED BY <1>1, <1>3, <2>1, <3>1
  <2> QED BY <1>2, <2>1, <2>2
<1> QED BY <1>4, <1>5

-----------------------------------------------------------------------------
(* The turns of the worker: a turn that settles nothing. *)
Unsettling(l, ls, F, fs) ==
  /\ trades' = trades
  /\ fs # "CONFIRMED"
  /\ ls = "FILLED" => ls = listings[l]
  /\ l \notin raced => \A f \in F \cap DOMAIN fills : fills[f].status # "CONFIRMED"

(* The latest fill is the only one of its listing that may count. *)
LEMMA OnlyLatest ==
  ASSUME TablesOK, LineInv, NEW f \in DOMAIN fills, Latest(f), fills[f].listing \notin raced
  PROVE  \A g \in DOMAIN fills :
           /\ fills[g].listing = fills[f].listing
           /\ fills[g].status \in Pending \/ fills[g].status = "CONFIRMED"
           => g = f
<1> SUFFICES ASSUME NEW g \in DOMAIN fills, fills[g].listing = fills[f].listing,
                    fills[g].status \in Pending \/ fills[g].status = "CONFIRMED"
             PROVE  g = f
  OBVIOUS
<1>1. Latest(g)
  BY DEF LineInv
<1> QED BY <1>1, LatestUnique

LEMMA ConfirmSets ==
  ASSUME TypeInv, LineInv, PhaseInv, NEW i \in rec.todo, Confirm(i)
  PROVE  \/ UNCHANGED <<listings, fills, trades>>
         \/ /\ Orderly(fills[i.id].listing, "FILLED", {i.id}, "CONFIRMED")
            /\ trades' = EnsureTrade(i.was)
<1>1. /\ TablesOK /\ ItemOK(i) /\ i.id \in DOMAIN fills /\ FillTurn(i)
  BY DEF TypeInv, ItemOK, PhaseInv, Confirm, FillPhases
<1>2. PICK l \in DOMAIN listings : l = fills[i.id].listing
  BY <1>1, FillFields
<1>3. CASE /\ fills' = SetFills({i.id}, "CONFIRMED") /\ listings' = SetListing(l, "FILLED")
           /\ trades' = EnsureTrade(i.was)
  <2>1. Sets(l, "FILLED", {i.id}, "CONFIRMED")
    <3>1. "FILLED" \in ListingStatus /\ "CONFIRMED" \in FillStatus
      BY DEF ListingStatus, FillStatus
    <3>2. \A f \in {i.id} \cap DOMAIN fills : fills[f].listing = l
      BY <1>2
    <3> QED BY <1>1, <1>3, <3>1, <3>2, SetsBoth
  <2>2. l \notin raced => Latest(i.id)
    BY <1>1, <1>2 DEF FillTurn
  <2>3. l \notin raced =>
          \A f \in DOMAIN fills : fills[f].listing = l /\ fills[f].status \in Pending => f = i.id
    BY <1>1, <1>2, <2>2, OnlyLatest
  <2>4. "CONFIRMED" \notin Pending
    BY DEF Pending, Unsettled
  <2> QED BY <1>2, <1>3, <2>1, <2>2, <2>3, <2>4 DEF Orderly
<1> QED BY <1>2, <1>3 DEF Confirm

LEMMA UnconfirmSets ==
  ASSUME TypeInv, LineInv, PhaseInv, NEW i \in rec.todo, Unconfirm(i)
  PROVE  \/ /\ UNCHANGED <<listings, fills, trades>>
            /\ idx[SourceOf(i.id)] = i.was
         \/ /\ Orderly(fills[i.id].listing, "REORGED", {i.id}, "REORGED")
            /\ trades' = [t \in DOMAIN trades |-> t # i.was /\ trades[t]]
<1>1. /\ TablesOK /\ ItemOK(i) /\ i.id \in DOMAIN fills /\ FillTurn(i)
  BY DEF TypeInv, ItemOK, PhaseInv, Unconfirm, FillPhases
<1>2. PICK l \in DOMAIN listings : l = fills[i.id].listing
  BY <1>1, FillFields
<1>3. CASE /\ fills' = SetFills({i.id}, "REORGED") /\ listings' = SetListing(l, "REORGED")
           /\ trades' = [t \in DOMAIN trades |-> t # i.was /\ trades[t]]
  <2>1. Sets(l, "REORGED", {i.id}, "REORGED")
    <3>1. "REORGED" \in ListingStatus /\ "REORGED" \in FillStatus
      BY DEF ListingStatus, FillStatus
    <3>2. \A f \in {i.id} \cap DOMAIN fills : fills[f].listing = l
      BY <1>2
    <3> QED BY <1>1, <1>3, <3>1, <3>2, SetsBoth
  <2>2. l \notin raced => Latest(i.id)
    BY <1>1, <1>2 DEF FillTurn
  <2>3. l \notin raced =>
          \A f \in DOMAIN fills : /\ fills[f].listing = l
                                  /\ fills[f].status \in Pending \/ fills[f].status = "CONFIRMED"
                                  => f = i.id
    BY <1>1, <1>2, <2>2, OnlyLatest
  <2>4. "REORGED" \notin Pending
    BY DEF Pending, Unsettled
  <2> QED BY <1>2, <1>3, <2>1, <2>3, <2>4 DEF Orderly
<1> QED BY <1>2, <1>3 DEF Unconfirm

LEMMA InvalidateSets ==
  ASSUME TypeInv, LineInv, NEW l \in DOMAIN listings, listings[l] # "FILLED", Invalidate(l)
  PROVE  \E F : /\ Orderly(l, "INVALIDATED", F, "FAILED")
                /\ Unsettling(l, "INVALIDATED", F, "FAILED")
<1> DEFINE F == FillsOf(l, Pending)
<1>1. /\ TablesOK /\ listings' = SetListing(l, "INVALIDATED") /\ trades' = trades
      /\ fills' = SetFills(F, "FAILED")
  BY DEF TypeInv, Invalidate
<1>2. \A f \in F : fills[f].listing = l /\ fills[f].status \in Pending
  BY DEF FillsOf
<1>3. \A f \in DOMAIN fills \ F : fills[f].listing = l => fills[f].status \notin Pending
  BY DEF FillsOf
<1> HIDE DEF F
<1>4. Sets(l, "INVALIDATED", F, "FAILED")
  <2>1. "INVALIDATED" \in ListingStatus /\ "FAILED" \in FillStatus
    BY DEF ListingStatus, FillStatus
  <2> QED BY <1>1, <1>2, <2>1, SetsBoth
<1>5. l \notin raced =>
        \A f \in DOMAIN fills : fills[f].listing = l => fills[f].status # "CONFIRMED"
  BY NoneSettled
<1>6. "FAILED" \notin Pending
  BY DEF Pending, Unsettled
<1>7. Orderly(l, "INVALIDATED", F, "FAILED")
  BY <1>3, <1>4, <1>5, <1>6 DEF Orderly
<1>8. Unsettling(l, "INVALIDATED", F, "FAILED")
  BY <1>1, <1>2, <1>5 DEF Unsettling
<1> QED BY <1>7, <1>8

LEMMA RelistSets ==
  ASSUME TypeInv, LineInv, NEW l \in DOMAIN listings, listings[l] # "FILLED",
         l \notin raced => Vacant(l), Relist(l)
  PROVE  Orderly(l, "ACTIVE", {}, "FAILED") /\ Unsettling(l, "ACTIVE", {}, "FAILED")
<1>1. /\ TablesOK /\ listings' = SetListing(l, "ACTIVE") /\ UNCHANGED <<fills, trades>>
  BY DEF TypeInv, Relist
<1>2. Sets(l, "ACTIVE", {}, "FAILED")
  <2>1. "ACTIVE" \in ListingStatus
    BY DEF ListingStatus, Open
  <2> QED BY <1>1, <2>1, SetsListing
<1>3. "FAILED" \notin Pending
  BY DEF Pending, Unsettled
<1>4. l \notin raced =>
        \A f \in DOMAIN fills :
          fills[f].listing = l => fills[f].status \notin Pending /\ fills[f].status # "CONFIRMED"
  BY NoneSettled DEF Vacant, FillsOf
<1> QED BY <1>1, <1>2, <1>3, <1>4 DEF Orderly, Unsettling

LEMMA LapseSets ==
  ASSUME TypeInv, LineInv, PhaseInv, NEW i \in rec.todo, LapseListing(i)
  PROVE  /\ i.id \in DOMAIN listings
         /\ Orderly(i.id, "EXPIRED", {}, "FAILED") /\ Unsettling(i.id, "EXPIRED", {}, "FAILED")
<1>1. /\ TablesOK /\ i.id \in DOMAIN listings /\ listings[i.id] # "FILLED"
      /\ listings' = SetListing(i.id, "EXPIRED") /\ UNCHANGED <<fills, trades>>
  BY DEF TypeInv, LapseListing, PhaseInv, ItemOK, ListingTurn
<1>2. Sets(i.id, "EXPIRED", {}, "FAILED")
  <2>1. "EXPIRED" \in ListingStatus
    BY DEF ListingStatus
  <2> QED BY <1>1, <2>1, SetsListing
<1>3. "FAILED" \notin Pending /\ "EXPIRED" \in Reserved
  BY DEF Pending, Unsettled, Reserved
<1>4. i.id \notin raced =>
        \A f \in DOMAIN fills : fills[f].listing = i.id => fills[f].status # "CONFIRMED"
  BY <1>1, NoneSettled
<1> QED BY <1>1, <1>2, <1>3, <1>4 DEF Orderly, Unsettling

LEMMA ExpireSets ==
  ASSUME TypeInv, LineInv, NEW f \in DOMAIN fills, fills[f].status # "CONFIRMED",
         fills[f].listing \notin raced => Latest(f), Expire(f)
  PROVE  \E ls : /\ Orderly(fills[f].listing, ls, {f}, "EXPIRED")
                 /\ Unsettling(fills[f].listing, ls, {f}, "EXPIRED")
<1>1. /\ TablesOK /\ fills' = SetFills({f}, "EXPIRED") /\ trades' = trades
  BY DEF TypeInv, Expire
<1>2. PICK l \in DOMAIN listings : l = fills[f].listing
  BY <1>1, FillFields
<1>4. l \notin raced =>
        \A g \in DOMAIN fills : /\ fills[g].listing = l
                                /\ fills[g].status \in Pending \/ fills[g].status = "CONFIRMED"
                                => g = f
  BY <1>1, <1>2, OnlyLatest
<1>5. "EXPIRED" \in FillStatus /\ "EXPIRED" \notin Pending /\ "ACTIVE" \in ListingStatus
  BY DEF FillStatus, Pending, Unsettled, ListingStatus, Open
<1>6. \A g \in {f} \cap DOMAIN fills : fills[g].listing = l
  BY <1>2
<1>7. PICK ls : Sets(l, ls, {f}, "EXPIRED") /\ (ls = "FILLED" => ls = listings[l])
  <2>1. CASE listings' = SetListing(l, "ACTIVE")
    BY <1>1, <1>5, <1>6, <2>1, SetsBoth
  <2>2. CASE listings' = listings
    <3>1. Sets(l, listings[l], {f}, "EXPIRED")
      BY <1>1, <1>5, <1>6, <2>2, SetsFills
    <3> QED BY <3>1
  <2> QED BY <1>2, <2>1, <2>2 DEF Expire
<1>8. Orderly(l, ls, {f}, "EXPIRED") /\ Unsettling(l, ls, {f}, "EXPIRED")
  BY <1>1, <1>4, <1>5, <1>7 DEF Orderly, Unsettling
<1> QED BY <1>2, <1>8

LEMMA RependSets ==
  ASSUME TypeInv, LineInv, NEW l \in DOMAIN listings, listings[l] # "FILLED",
         l \notin raced => Vacant(l), Known(l), Repend(l)
  PROVE  \E F : /\ Orderly(l, "BROADCAST", F, "BROADCAST")
                /\ Unsettling(l, "BROADCAST", F, "BROADCAST")
<1> DEFINE F == {f \in FillsOf(l, FillStatus) : fills[f].txid = LatestTxid(l)}
<1>1. /\ TablesOK /\ listings' = SetListing(l, "BROADCAST") /\ trades' = trades
      /\ fills' = SetFills(F, "BROADCAST")
  BY DEF TypeInv, Repend
<1>2. \A f \in F : /\ f \in DOMAIN fills /\ fills[f].listing = l
                   /\ fills[f].txid = LatestTxid(l)
  BY DEF FillsOf
<1> HIDE DEF F
<1>3. PICK m \in DOMAIN fills : Latest(m) /\ LatestTxid(l) = fills[m].txid
  BY <1>1, LatestRow DEF Known
<1>4. \A f \in F : Latest(f)
  <2>1. \A f \in DOMAIN fills : fills[f].txid # None => fills[f].txid[1] = f
    BY <1>1 DEF TablesOK, RowOK
  <2>2. LatestTxid(l) # None
    BY DEF Known
  <2>3. \A f \in F : f = m
    BY <1>2, <1>3, <2>1, <2>2
  <2> QED BY <1>3, <2>3
<1>5. Sets(l, "BROADCAST", F, "BROADCAST")
  <2>1. "BROADCAST" \in ListingStatus /\ "BROADCAST" \in FillStatus
    BY DEF ListingStatus, FillStatus, Open, Pending
  <2> QED BY <1>1, <1>2, <2>1, SetsBoth
<1>6. l \notin raced =>
        \A f \in DOMAIN fills :
          fills[f].listing = l => fills[f].status \notin Pending /\ fills[f].status # "CONFIRMED"
  BY NoneSettled DEF Vacant, FillsOf
<1>7. "BROADCAST" \in Reserved
  BY DEF Reserved
<1>8. Orderly(l, "BROADCAST", F, "BROADCAST")
  BY <1>4, <1>5, <1>6, <1>7 DEF Orderly
<1>9. Unsettling(l, "BROADCAST", F, "BROADCAST")
  BY <1>1, <1>2, <1>6 DEF Unsettling
<1> QED BY <1>8, <1>9

(* The turn of a row. *)
LEMMA TurnSets ==
  ASSUME TypeInv, LineInv, PhaseInv, NEW i \in rec.todo, Reconcile(i)
  PROVE  \/ /\ UNCHANGED <<listings, fills, trades>>
            /\ rec.phase = "unconfirm" => idx[SourceOf(i.id)] = i.was
         \/ \E l, ls, F, fs :
              /\ Orderly(l, ls, F, fs)
              /\ rec.phase \in {"open", "lapse"} => l = i.id
              /\ rec.phase \in FillPhases => F = {i.id} /\ l = fills[i.id].listing
              /\ \/ /\ rec.phase = "confirm" /\ ls = "FILLED" /\ fs = "CONFIRMED"
                    /\ trades' = EnsureTrade(i.was)
                 \/ /\ rec.phase = "unconfirm" /\ ls = "REORGED" /\ fs = "REORGED"
                    /\ trades' = [t \in DOMAIN trades |-> t # i.was /\ trades[t]]
                 \/ rec.phase \notin {"confirm", "unconfirm"} /\ Unsettling(l, ls, F, fs)
<1>0. ItemOK(i)
  BY DEF TypeInv
<1>1. CASE Confirm(i)
  <2>1. rec.phase = "confirm"
    BY <1>1 DEF Confirm
  <2> QED BY <1>1, <2>1, ConfirmSets
<1>2. CASE Unconfirm(i)
  <2>1. rec.phase = "unconfirm"
    BY <1>2 DEF Unconfirm
  <2> QED BY <1>2, <2>1, UnconfirmSets
<1>3. CASE ReconcileListing(i) \/ FindSpender(i)
  <2>1. /\ rec.phase = "open" /\ i.id \in DOMAIN listings /\ listings[i.id] # "FILLED"
        /\ i.was = "REORGED" /\ i.id \notin raced => Vacant(i.id)
    BY <1>0, <1>3 DEF ReconcileListing, FindSpender, ItemOK, PhaseInv, ListingTurn
  <2>2. \/ UNCHANGED <<listings, fills, trades>>
        \/ Invalidate(i.id)
        \/ Relist(i.id) /\ i.was = "REORGED"
        \/ Known(i.id) /\ Repend(i.id) /\ i.was = "REORGED"
    BY <1>3 DEF ReconcileListing, FindSpender, Reopen, db
  <2>3. CASE Invalidate(i.id)
    BY <2>1, <2>3, InvalidateSets DEF FillPhases
  <2>4. CASE Relist(i.id) /\ i.was = "REORGED"
    BY <2>1, <2>4, RelistSets DEF FillPhases
  <2>5. CASE Known(i.id) /\ Repend(i.id) /\ i.was = "REORGED"
    BY <2>1, <2>5, RependSets DEF FillPhases
  <2> QED BY <2>1, <2>2, <2>3, <2>4, <2>5
<1>4. CASE ExpireUnfunded(i) \/ ExpireFill(i)
  <2>1. rec.phase \in {"funding", "expire"}
    BY <1>4 DEF ExpireUnfunded, ExpireFill
  <2>2. i.id \in DOMAIN fills /\ FillTurn(i)
    BY <1>0, <2>1 DEF ItemOK, PhaseInv, FillPhases
  <2>3. /\ fills[i.id].status # "CONFIRMED"
        /\ fills[i.id].listing \notin raced => Latest(i.id)
    BY <2>1, <2>2 DEF FillTurn
  <2>4. UNCHANGED <<listings, fills, trades>> \/ Expire(i.id)
    BY <1>4 DEF ExpireUnfunded, ExpireFill, db
  <2>5. CASE Expire(i.id)
    BY <2>1, <2>2, <2>3, <2>5, ExpireSets
  <2> QED BY <2>1, <2>4, <2>5
<1>5. CASE LapseListing(i)
  <2>1. rec.phase = "lapse"
    BY <1>5 DEF LapseListing
  <2> QED BY <1>5, <2>1, LapseSets DEF FillPhases
<1> QED BY <1>1, <1>2, <1>3, <1>4, <1>5 DEF Reconcile

(* What a turn writes, where the next turn may look. *)
LEMMA PhaseTurn ==
  ASSUME TypeInv, LineInv, PhaseInv, raced \subseteq raced', NEW i \in rec.todo, Reconcile(i)
  PROVE  PhaseInv'
<1>0. idx' = idx /\ TablesOK
  BY DEF Reconcile, Confirm, Unconfirm, ReconcileListing, FindSpender, ExpireUnfunded,
         LapseListing, ExpireFill, world, TypeInv
<1>1. /\ rec'.todo # {} => rec'.phase = rec.phase
      /\ \/ rec'.todo \subseteq rec.todo \ {i}
         \/ /\ rec.phase = "open" /\ idx[Source[i.id]] = None /\ UNCHANGED db
            /\ \E j : /\ rec'.todo = (rec.todo \ {i}) \cup {j}
                      /\ j.id = i.id /\ j.was = i.was /\ j.spent
  BY TodoLeft
<1>2. CASE rec'.todo \subseteq rec.todo \ {i}
  <2> SUFFICES ASSUME NEW j \in rec'.todo
               PROVE  /\ rec'.phase \in FillPhases => FillTurn(j)'
                      /\ rec'.phase \in {"open", "lapse"} => ListingTurn(j)'
                      /\ \A k \in rec'.todo : k.id = j.id => k = j
    BY DEF PhaseInv
  <2>1. /\ rec'.phase = rec.phase /\ j \in rec.todo /\ j # i /\ ItemOK(j) /\ ItemOK(i)
        /\ \A k \in rec'.todo : k \in rec.todo
    BY <1>1, <1>2 DEF TypeInv
  <2>2. j.id # i.id /\ \A k \in rec'.todo : k.id = j.id => k = j
    BY <2>1 DEF PhaseInv
  <2>3. ASSUME rec.phase \in FillPhases PROVE FillTurn(j)'
    <3>1. /\ FillTurn(j) /\ FillTurn(i) /\ j.id \in DOMAIN fills /\ i.id \in DOMAIN fills
          /\ rec.phase \notin {"open", "lapse"}
      BY <2>1, <2>3 DEF PhaseInv, ItemOK, FillPhases
    <3>2. CASE UNCHANGED <<listings, fills, trades>>
      BY <2>1, <3>1, <3>2 DEF FillTurn, Latest, NamedOrRaced
    <3>3. ASSUME NEW l, NEW ls, NEW F, NEW fs, Orderly(l, ls, F, fs),
                 F = {i.id} /\ l = fills[i.id].listing,
                 \/ rec.phase \in {"confirm", "unconfirm"} /\ ls # "ACTIVE"
                 \/ rec.phase \notin {"confirm", "unconfirm"} /\ fs # "CONFIRMED"
          PROVE  FillTurn(j)'
      <4>1. Sets(l, ls, F, fs)
        BY <3>3 DEF Orderly
      <4>2. /\ fills'[j.id].listing = fills[j.id].listing
            /\ fills'[j.id].txid = fills[j.id].txid
            /\ fills'[j.id].status = fills[j.id].status
        BY <2>2, <3>1, <3>3, <4>1 DEF Sets
      <4>3. fills[j.id].listing \in DOMAIN listings
        BY <1>0, <3>1, FillFields
      <4>4. Latest(j.id) => Latest(j.id)'
        BY <3>1, <4>1, LatestKept DEF Sets
      <4>5. ASSUME fills[j.id].listing \notin raced'
            PROVE  Latest(j.id) /\ listings'[fills[j.id].listing] # "ACTIVE"
        <5>1. Latest(j.id) /\ listings[fills[j.id].listing] # "ACTIVE"
          BY <3>1, <4>5 DEF FillTurn
        <5>2. fills[j.id].listing # l
          <6>1. l \notin raced => Latest(i.id)
            BY <3>1, <3>3 DEF FillTurn
          <6> QED BY <1>0, <2>2, <3>1, <3>3, <4>5, <5>1, <6>1, LatestUnique
        <5> QED BY <4>1, <4>3, <5>1, <5>2 DEF Sets
      <4> QED BY <2>1, <3>1, <4>2, <4>4, <4>5 DEF FillTurn, NamedOrRaced
    <3> QED BY <2>3, <3>1, <3>2, <3>3, TurnSets DEF Unsettling
  <2>4. ASSUME rec.phase \in {"open", "lapse"} PROVE ListingTurn(j)'
    <3>1. ListingTurn(j) /\ j.id \in DOMAIN listings
      BY <2>1, <2>4 DEF PhaseInv, ItemOK
    <3>2. CASE UNCHANGED <<listings, fills, trades>>
      BY <1>0, <2>1, <3>1, <3>2 DEF ListingTurn, Vacant, FillsOf
    <3>3. ASSUME NEW l, NEW ls, NEW F, NEW fs, Orderly(l, ls, F, fs), l = i.id
          PROVE  ListingTurn(j)'
      <4>1. Sets(l, ls, F, fs)
        BY <3>3 DEF Orderly
      <4>2. listings'[j.id] = listings[j.id]
        BY <2>2, <3>1, <3>3, <4>1 DEF Sets
      <4>3. /\ DOMAIN fills' = DOMAIN fills
            /\ \A f \in DOMAIN fills :
                 /\ fills'[f].listing = fills[f].listing
                 /\ fills[f].listing = j.id => fills'[f].status = fills[f].status
        BY <2>2, <3>3, <4>1 DEF Sets
      <4>4. Vacant(j.id) => Vacant(j.id)'
        BY <4>2, <4>3 DEF Vacant, FillsOf
      <4> QED BY <1>0, <2>1, <3>1, <4>2, <4>4 DEF ListingTurn
    <3> QED BY <2>4, <3>2, <3>3, TurnSets
  <2> QED BY <2>1, <2>2, <2>3, <2>4
<1>3. CASE /\ rec.phase = "open" /\ idx[Source[i.id]] = None /\ UNCHANGED db
           /\ \E j : /\ rec'.todo = (rec.todo \ {i}) \cup {j}
                     /\ j.id = i.id /\ j.was = i.was /\ j.spent
  <2>1. PICK j : /\ rec'.todo = (rec.todo \ {i}) \cup {j}
                 /\ j.id = i.id /\ j.was = i.was /\ j.spent
    BY <1>3
  <2>2. rec'.phase = "open" /\ UNCHANGED <<listings, fills, idx>>
    BY <1>0, <1>1, <1>3, <2>1 DEF db
  <2>3. \A k \in rec.todo : ListingTurn(k) /\ \A m \in rec.todo : m.id = k.id => m = k
    BY <1>3 DEF PhaseInv
  <2>4. \A k \in rec'.todo : \A m \in rec'.todo : m.id = k.id => m = k
    BY <2>1, <2>3
  <2>5. \A l : Vacant(l) => Vacant(l)'
    BY <2>2 DEF Vacant, FillsOf
  <2>6. \A k \in rec'.todo : ListingTurn(k)'
    <3>1. \A k \in rec.todo : ListingTurn(k)'
      BY <1>3, <2>2, <2>3, <2>5 DEF ListingTurn
    <3>2. ListingTurn(j)'
      BY <1>3, <2>1, <2>2, <2>3, <2>5 DEF ListingTurn
    <3> QED BY <2>1, <3>1, <3>2
  <2> QED BY <2>2, <2>4, <2>6 DEF PhaseInv, FillPhases
<1> QED BY <1>1, <1>2, <1>3

(* Confirming and taking back, and nothing else, settles and unsettles. *)
LEMMA SettleTurn ==
  ASSUME TypeInv, LineInv, PhaseInv, SettleInv, raced \subseteq raced',
         NEW i \in rec.todo, Reconcile(i)
  PROVE  SettleInv'
<1>0. TablesOK /\ idx' = idx /\ ItemOK(i)
  BY DEF Reconcile, Confirm, Unconfirm, ReconcileListing, FindSpender, ExpireUnfunded,
         LapseListing, ExpireFill, world, TypeInv
<1>1. /\ rec'.phase \in {rec.phase, "idle"}
      /\ rec.phase = "unconfirm" => rec.todo \ {i} \subseteq rec'.todo
      /\ Reconciled' => Reconciled
  <2>1. rec'.phase \in {rec.phase, "idle"}
    BY TodoLeft
  <2>2. rec.phase = "unconfirm" => Done(i)
    BY DEF Reconcile, Confirm, Unconfirm, ReconcileListing, FindSpender, ExpireUnfunded,
           LapseListing, ExpireFill
  <2>3. Done(i) => rec'.todo = rec.todo \ {i}
    BY DEF Done, TypeInv
  <2> QED BY <2>1, <2>2, <2>3 DEF Reconciled
<1>2. rec.phase \in {"confirm", "unconfirm"} =>
        /\ i.id \in DOMAIN fills /\ i.was \in Tx /\ i.was[1] = i.id
        /\ fills[i.id].listing \notin raced => fills[i.id].txid = i.was
  BY <1>0 DEF ItemOK, PhaseInv, FillTurn, FillPhases, NamedOrRaced
<1>3. CASE /\ UNCHANGED <<listings, fills, trades>>
           /\ rec.phase = "unconfirm" => idx[SourceOf(i.id)] = i.was
  <2>1. ASSUME NEW f \in DOMAIN fills', fills'[f].status = "CONFIRMED",
               fills'[f].listing \notin raced'
        PROVE  /\ Reconciled' => idx'[SourceOf(f)'] = fills'[f].txid
               /\ rec'.phase = "unconfirm" => \/ idx'[SourceOf(f)'] = fills'[f].txid
                                              \/ \E k \in rec'.todo : k.id = f
    <3>1. /\ SourceOf(f)' = SourceOf(f) /\ fills'[f] = fills[f] /\ f \in DOMAIN fills
          /\ fills[f].listing \notin raced
      BY <1>3, <2>1 DEF SourceOf
    <3>2. CASE f = i.id /\ rec.phase = "unconfirm"
      BY <1>0, <1>1, <1>2, <1>3, <3>1, <3>2 DEF Reconciled
    <3>3. CASE f # i.id \/ rec.phase # "unconfirm"
      BY <1>0, <1>1, <2>1, <3>1, <3>3 DEF SettleInv
    <3> QED BY <3>2, <3>3
  <2>2. /\ \A t \in DOMAIN trades' : trades'[t] =>
             /\ t[1] \in DOMAIN fills'
             /\ fills'[t[1]].listing \notin raced' =>
                  fills'[t[1]].status = "CONFIRMED" /\ fills'[t[1]].txid = t
        /\ \A k \in DOMAIN listings' \ raced' :
             listings'[k] = "FILLED" => FillsOf(k, {"CONFIRMED"})' # {}
    BY <1>3 DEF SettleInv, FillsOf
  <2> QED BY <2>1, <2>2 DEF SettleInv
<1>4. ASSUME NEW l, NEW ls, NEW F, NEW fs, Sets(l, ls, F, fs), Unsettling(l, ls, F, fs),
             rec.phase \notin {"confirm", "unconfirm"}
      PROVE  SettleInv'
  <2>1. /\ DOMAIN fills' = DOMAIN fills
        /\ \A f \in DOMAIN fills :
             /\ fills'[f].listing = fills[f].listing /\ fills'[f].txid = fills[f].txid
             /\ fills'[f].status = "CONFIRMED" => fills[f].status = "CONFIRMED"
    BY <1>4 DEF Sets, Unsettling
  <2>2. \A f \in DOMAIN fills :
          fills[f].status = "CONFIRMED" /\ fills[f].listing \notin raced' =>
            fills'[f].status = "CONFIRMED"
    BY <1>4 DEF Sets, Unsettling
  <2>3. \A k \in DOMAIN listings' :
          listings'[k] = "FILLED" => k \in DOMAIN listings /\ listings[k] = "FILLED"
    BY <1>4 DEF Sets, Unsettling
  <2>4. trades' = trades /\ rec'.phase # "unconfirm"
    BY <1>1, <1>4 DEF Unsettling
  <2> QED BY <1>0, <1>1, <2>1, <2>2, <2>3, <2>4, SettleKept
<1>5. ASSUME rec.phase = "confirm", Sets(fills[i.id].listing, "FILLED", {i.id}, "CONFIRMED"),
             trades' = EnsureTrade(i.was)
      PROVE  SettleInv'
  <2>1. ~Reconciled' /\ rec'.phase # "unconfirm" /\ DOMAIN fills' = DOMAIN fills
    BY <1>1, <1>5 DEF Reconciled, Sets
  <2>2. ASSUME NEW t \in DOMAIN trades', trades'[t]
        PROVE  /\ t[1] \in DOMAIN fills'
               /\ fills'[t[1]].listing \notin raced' =>
                    fills'[t[1]].status = "CONFIRMED" /\ fills'[t[1]].txid = t
    <3>1. t = i.was \/ (t \in DOMAIN trades /\ trades[t])
      BY <1>5, <2>2 DEF EnsureTrade, PutAt
    <3>2. CASE t = i.was
      BY <1>2, <1>5, <2>1, <3>2 DEF Sets
    <3>3. CASE t \in DOMAIN trades /\ trades[t]
      <4>1. /\ t[1] \in DOMAIN fills
            /\ fills[t[1]].listing \notin raced =>
                 fills[t[1]].status = "CONFIRMED" /\ fills[t[1]].txid = t
        BY <3>3 DEF SettleInv
      <4> QED BY <1>5, <2>1, <4>1 DEF Sets
    <3> QED BY <3>1, <3>2, <3>3
  <2>3. ASSUME NEW k \in DOMAIN listings' \ raced', listings'[k] = "FILLED"
        PROVE  FillsOf(k, {"CONFIRMED"})' # {}
    <3>1. CASE k = fills[i.id].listing
      BY <1>2, <1>5, <2>1, <3>1 DEF Sets, FillsOf
    <3>2. CASE k # fills[i.id].listing
      <4>1. k \in DOMAIN listings \ raced /\ listings[k] = "FILLED"
        BY <1>5, <2>3, <3>2 DEF Sets
      <4>2. PICK f \in DOMAIN fills : fills[f].listing = k /\ fills[f].status = "CONFIRMED"
        BY <4>1 DEF SettleInv, FillsOf
      <4>3. f \in DOMAIN fills' /\ fills'[f].listing = k /\ fills'[f].status = "CONFIRMED"
        BY <1>5, <4>2 DEF Sets
      <4> QED BY <4>3 DEF FillsOf
    <3> QED BY <3>1, <3>2
  <2> QED BY <2>1, <2>2, <2>3 DEF SettleInv
<1>6. ASSUME rec.phase = "unconfirm", Sets(fills[i.id].listing, "REORGED", {i.id}, "REORGED"),
             trades' = [t \in DOMAIN trades |-> t # i.was /\ trades[t]]
      PROVE  SettleInv'
  <2>1. ~Reconciled' /\ DOMAIN fills' = DOMAIN fills
    BY <1>1, <1>6 DEF Reconciled, Sets
  <2>2. ASSUME NEW f \in DOMAIN fills', fills'[f].status = "CONFIRMED",
               fills'[f].listing \notin raced'
        PROVE  rec'.phase = "unconfirm" => \/ idx'[SourceOf(f)'] = fills'[f].txid
                                           \/ \E k \in rec'.todo : k.id = f
    <3>1. /\ f \in DOMAIN fills /\ SourceOf(f)' = SourceOf(f) /\ fills'[f].txid = fills[f].txid
          /\ fills[f].listing \notin raced /\ f # i.id /\ fills[f].status = "CONFIRMED"
      BY <1>6, <2>2 DEF Sets, SourceOf
    <3>2. idx[SourceOf(f)] = fills[f].txid \/ \E k \in rec.todo : k.id = f
      BY <1>6, <3>1 DEF SettleInv
    <3> QED BY <1>0, <1>1, <1>6, <3>1, <3>2
  <2>3. ASSUME NEW t \in DOMAIN trades', trades'[t]
        PROVE  /\ t[1] \in DOMAIN fills'
               /\ fills'[t[1]].listing \notin raced' =>
                    fills'[t[1]].status = "CONFIRMED" /\ fills'[t[1]].txid = t
    <3>1. t \in DOMAIN trades /\ trades[t] /\ t # i.was
      BY <1>6, <2>3
    <3>2. /\ t[1] \in DOMAIN fills
          /\ fills[t[1]].listing \notin raced =>
               fills[t[1]].status = "CONFIRMED" /\ fills[t[1]].txid = t
      BY <3>1 DEF SettleInv
    <3>3. t[1] # i.id \/ fills[t[1]].listing \in raced
      BY <1>2, <1>6, <3>1, <3>2
    <3> QED BY <1>6, <2>1, <3>2, <3>3 DEF Sets
  <2>4. ASSUME NEW k \in DOMAIN listings' \ raced', listings'[k] = "FILLED"
        PROVE  FillsOf(k, {"CONFIRMED"})' # {}
    <3>1. k \in DOMAIN listings \ raced /\ listings[k] = "FILLED" /\ k # fills[i.id].listing
      BY <1>6, <2>4 DEF Sets
    <3>2. PICK f \in DOMAIN fills : fills[f].listing = k /\ fills[f].status = "CONFIRMED"
      BY <3>1 DEF SettleInv, FillsOf
    <3>3. f \in DOMAIN fills' /\ fills'[f].listing = k /\ fills'[f].status = "CONFIRMED"
      BY <1>6, <3>1, <3>2 DEF Sets
    <3> QED BY <3>3 DEF FillsOf
  <2> QED BY <2>1, <2>2, <2>3, <2>4 DEF SettleInv
<1> QED BY <1>3, <1>4, <1>5, <1>6, TurnSets DEF Orderly, FillPhases

LEMMA OrdersTurn ==
  ASSUME TypeInv, Orders, raced \subseteq raced', NEW i \in rec.todo, Reconcile(i)
  PROVE  Orders'
<1>0. LineInv /\ PhaseInv /\ SettleInv
  BY DEF Orders
<1>1. LineInv'
  <2>1. CASE UNCHANGED <<listings, fills, trades>>
    BY <1>0, <2>1, LineSame
  <2>2. ASSUME NEW l, NEW ls, NEW F, NEW fs, Orderly(l, ls, F, fs) PROVE LineInv'
    BY <1>0, <2>2, LineSets
  <2> QED BY <1>0, <2>1, <2>2, TurnSets
<1> QED BY <1>0, <1>1, PhaseTurn, SettleTurn DEF Orders

(* A phase begins with what it selects. *)
LEMMA OrdersPhase ==
  ASSUME TypeInv, Orders, raced \subseteq raced', BeginTick \/ NextPhase
  PROVE  Orders'
<1>0. /\ LineInv /\ SettleInv /\ TablesOK
      /\ rec \in [phase : Phases, todo : SUBSET ItemType]
  BY DEF Orders, TypeInv
<1>1. PICK ph \in Phases : /\ rec' = [phase |-> ph, todo |-> Select(ph)]
                           /\ \/ BeginTick /\ ph = "confirm"
                              \/ NextPhase /\ ph = After[rec.phase]
  <2>1. CASE BeginTick
    BY <2>1 DEF BeginTick, Phases, After
  <2>2. CASE NextPhase
    <3>1. rec.phase \in DOMAIN After /\ After[rec.phase] \in Phases
      BY <1>0, <2>2 DEF NextPhase, Phases, After
    <3> QED BY <2>2, <3>1 DEF NextPhase
  <2> QED BY <2>1, <2>2
<1>2. UNCHANGED <<listings, fills, trades>> /\ rec'.phase = ph /\ rec'.todo = Select(ph)
  BY <1>1 DEF BeginTick, NextPhase, db
<1>3. LineInv'
  BY <1>0, <1>2, LineSame
<1>4. PhaseInv'
  <2>2. /\ \A i \in Select(ph) :
             /\ i \in ItemType /\ ~i.spent
             /\ ph \in FillPhases => i.id \in DOMAIN fills /\ i.was = fills[i.id].txid
             /\ ph \in {"open", "lapse"} => i.id \in DOMAIN listings /\ i.was = listings[i.id]
             /\ ph = "confirm" => fills[i.id].status = "BROADCAST"
             /\ ph = "unconfirm" => fills[i.id].status = "CONFIRMED"
             /\ ph = "open" => listings[i.id] \in Open \cup {"REORGED"}
             /\ ph = "lapse" => listings[i.id] = "ACTIVE"
             /\ ph \in {"funding", "expire"} => fills[i.id].status \in Unsettled
        /\ ph = "idle" => Select(ph) = {}
    BY <1>0, Selected DEF FillPhases
  <2>3. \A l : Vacant(l) => Vacant(l)'
    BY <1>2 DEF Vacant, FillsOf
  <2>4. \A f \in DOMAIN fills : Latest(f) => Latest(f)'
    BY <1>2 DEF Latest
  <2>5. ASSUME NEW i \in Select(ph), ph \in FillPhases PROVE FillTurn(i)'
    <3>1. i.id \in DOMAIN fills /\ i.was = fills[i.id].txid
      BY <2>2, <2>5
    <3>2. /\ fills[i.id].status \in Pending \/ fills[i.id].status = "CONFIRMED"
          /\ ph \in {"funding", "expire"} => fills[i.id].status # "CONFIRMED"
          /\ ph \in {"confirm", "unconfirm"} => fills[i.id].status \in {"BROADCAST", "CONFIRMED"}
      BY <2>2, <2>5 DEF FillPhases, Pending, Unsettled
    <3>3. fills[i.id].listing \notin raced =>
            Latest(i.id) /\ listings[fills[i.id].listing] # "ACTIVE"
      BY <1>0, <3>1, <3>2 DEF LineInv, Reserved
    <3>4. ph \in {"confirm", "unconfirm"} => i.was[1] = i.id
      BY <1>0, <3>1, <3>2 DEF TablesOK, RowOK
    <3> QED BY <1>2, <2>4, <3>1, <3>2, <3>3, <3>4 DEF FillTurn, NamedOrRaced
  <2>6. ASSUME NEW i \in Select(ph), ph \in {"open", "lapse"} PROVE ListingTurn(i)'
    <3>1. /\ i.was = listings[i.id] /\ listings[i.id] # "FILLED" /\ ~i.spent
      BY <2>2, <2>6 DEF Open
    <3>2. i.was = "REORGED" /\ i.id \notin raced => Vacant(i.id)
      BY <1>0, <3>1, NoneSettled DEF Vacant, FillsOf
    <3> QED BY <1>2, <2>3, <3>1, <3>2 DEF ListingTurn
  <2>7. \A i, j \in Select(ph) : i.id = j.id => i = j
    <3> SUFFICES ASSUME NEW i \in Select(ph), NEW j \in Select(ph), i.id = j.id
                 PROVE  i = j
      OBVIOUS
    <3>1. ph \in FillPhases \cup {"open", "lapse"}
      BY <2>2 DEF Phases, After, FillPhases
    <3>2. i.was = j.was /\ i.spent = j.spent /\ i \in ItemType /\ j \in ItemType
      <4>1. i \in ItemType /\ j \in ItemType /\ ~i.spent /\ ~j.spent
        BY <2>2
      <4>2. i.was = j.was
        BY <2>2, <3>1
      <4>3. i.spent \in BOOLEAN /\ j.spent \in BOOLEAN
        BY <4>1 DEF ItemType
      <4> QED BY <4>1, <4>2, <4>3
    <3> QED BY <3>2 DEF ItemType
  <2> QED BY <1>2, <2>5, <2>6, <2>7 DEF PhaseInv
<1>5. SettleInv'
  <2>2. /\ \A t \in DOMAIN trades' : trades'[t] =>
             /\ t[1] \in DOMAIN fills'
             /\ fills'[t[1]].listing \notin raced' =>
                  fills'[t[1]].status = "CONFIRMED" /\ fills'[t[1]].txid = t
        /\ \A k \in DOMAIN listings' \ raced' :
             listings'[k] = "FILLED" => FillsOf(k, {"CONFIRMED"})' # {}
    BY <1>0, <1>2 DEF SettleInv, FillsOf
  <2>3. ASSUME NEW f \in DOMAIN fills', fills'[f].status = "CONFIRMED",
               fills'[f].listing \notin raced'
        PROVE  /\ Reconciled' => idx'[SourceOf(f)'] = fills'[f].txid
               /\ rec'.phase = "unconfirm" => \/ idx'[SourceOf(f)'] = fills'[f].txid
                                              \/ \E k \in rec'.todo : k.id = f
    <3>1. /\ f \in DOMAIN fills /\ fills[f].status = "CONFIRMED"
          /\ fills'[f] = fills[f] /\ SourceOf(f)' = SourceOf(f)
          /\ fills[f].listing \notin raced
      BY <1>2, <2>3 DEF SourceOf
    <3>2. CASE ph = "unconfirm"
      <4>1. Item(f, fills[f].txid) \in Select(ph) /\ Item(f, fills[f].txid).id = f
        BY <3>1, <3>2 DEF Select, FillItems, Item
      <4> QED BY <1>2, <3>2, <4>1 DEF Reconciled
    <3>3. CASE Reconciled'
      <4>1. /\ NextPhase /\ idx' = idx /\ rec.todo = {} /\ ph = After[rec.phase]
            /\ rec.phase # "idle"
        BY <1>1, <1>2, <3>3 DEF NextPhase, Reconciled, world
      <4>2. rec.phase = "unconfirm" \/ Reconciled
        BY <1>0, <1>2, <3>3, <4>1 DEF After, Reconciled, Phases
      <4>3. idx[SourceOf(f)] = fills[f].txid
        BY <1>0, <3>1, <4>1, <4>2 DEF SettleInv
      <4> QED BY <3>1, <4>1, <4>3
    <3> QED BY <1>2, <3>2, <3>3
  <2> QED BY <2>2, <2>3 DEF SettleInv
<1> QED BY <1>3, <1>4, <1>5 DEF Orders

LEMMA OrdersStep == TypeInv /\ Orders /\ [Next]_vars => Orders'
<1> SUFFICES ASSUME TypeInv, Orders, [Next]_vars PROVE Orders'
  OBVIOUS
<1>0. Kept /\ raced \subseteq raced'
  BY TypeStep, RacedGrows
<1>1. CASE Request
  <2>1. CASE \E l \in Listing : CancelListing(l) \/ ReserveListing(l)
    BY <1>0, <2>1, OrdersCancel, OrdersReserve
  <2>2. CASE ~ \E l \in Listing : CancelListing(l) \/ ReserveListing(l)
    <3>1. PICK c : Begin(c)
      BY <1>1, <2>2, CallBegins
    <3>2. UNCHANGED <<listings, fills, trades, rec, idx>>
      BY <3>1 DEF Begin, db, world
    <3> QED BY <1>0, <3>2, OrdersSame
  <2> QED BY <2>1, <2>2
<1>2. CASE (\E c \in calls : Proceed(c) \/ CallDies(c)) /\ Remember
  BY <1>0, <1>2, OrdersCall
<1>3. CASE BeginTick \/ NextPhase
  BY <1>0, <1>3, OrdersPhase
<1>4. CASE \E i \in rec.todo : Reconcile(i)
  BY <1>0, <1>4, OrdersTurn
<1>5. CASE TickFails
  <2>0. LineInv /\ SettleInv
    BY DEF Orders
  <2>1. /\ UNCHANGED <<listings, fills, trades>>
        /\ rec'.phase = "idle" /\ rec'.todo = {}
    BY <1>5 DEF TickFails, EndTick, db
  <2>2. LineInv'
    BY <1>0, <2>0, <2>1, LineSame
  <2>3. PhaseInv'
    BY <2>1 DEF PhaseInv
  <2>4. SettleInv'
    BY <1>0, <2>0, <2>1, SettleKept DEF Reconciled
  <2> QED BY <2>2, <2>3, <2>4 DEF Orders
<1>6. CASE World \/ UNCHANGED vars
  <2>1. UNCHANGED <<db, rec, idx>>
    BY <1>6, WorldOK DEF vars, world, TypeInv
  <2>2. UNCHANGED <<listings, fills, trades, rec, idx>>
    BY <2>1 DEF db
  <2> QED BY <1>0, <2>2, OrdersSame
<1> QED BY <1>1, <1>2, <1>3, <1>4, <1>5, <1>6 DEF Next, Moves, Worker

LEMMA OrdersInit == Init => Orders
<1> SUFFICES ASSUME Init PROVE LineInv /\ PhaseInv /\ SettleInv
  BY DEF Orders
<1>1. DOMAIN fills = {} /\ DOMAIN listings = {} /\ DOMAIN trades = {} /\ rec.todo = {}
  BY NothingIsMap DEF Init
<1> QED BY <1>1 DEF LineInv, PhaseInv, SettleInv

(* Nothing is settled in the database only: once a tick has been through   *)
(* its fills, every canonical trade and every filled listing is a spend    *)
(* the index saw, whatever reorgs, crashes and failed ticks there were and *)
(* however many calls were between their check and their write, for any    *)
(* orders and fills; but for a listing one of whose fills a late write     *)
(* went over (raced).                                                      *)
THEOREM SettlementIsOnChain == Spec => []Settled
<1>1. TypeInv /\ Orders => Settled
  <2> SUFFICES ASSUME Orders PROVE TradesSettled /\ FilledIsSettled
    BY DEF Settled
  <2>0. SettleInv
    BY DEF Orders
  <2>1. TradesSettled
    BY <2>0 DEF TradesSettled, SettleInv
  <2>2. FilledIsSettled
    BY <2>0 DEF FilledIsSettled, SettleInv, FillsOf, SourceOf
  <2> QED BY <2>1, <2>2
<1> QED BY <1>1, TypeInit, OrdersInit, TypeStep, OrdersStep, PTL DEF Spec

-----------------------------------------------------------------------------
(* What the chain has spent is not in the mempool. *)
SpentInv == \A s \in Sources : chain[s] # None => mempool[s] = None

LEMMA SpentStep == TypeInv /\ SpentInv /\ [Next]_vars => SpentInv'
<1> SUFFICES ASSUME TypeInv, SpentInv, [Next]_vars PROVE SpentInv'
  OBVIOUS
<1>0. /\ chain \in [Sources -> Spender] /\ mempool \in [Sources -> Spender]
      /\ TablesOK /\ \A c \in calls : CallOK(c)
  BY DEF TypeInv, SpendersOK
<1>1. ASSUME UNCHANGED <<chain, mempool>> PROVE SpentInv'
  BY <1>1 DEF SpentInv
<1>2. CASE Request
  <2>1. UNCHANGED world
    BY <1>2 DEF Request, CreateListing, CancelListing, ReserveListing, BuildFillPsbt,
                SubmitBuyer, SubmitSeller, FinalizeP2PFill, Begin
  <2> QED BY <1>1, <2>1 DEF world
<1>3. ASSUME NEW c \in calls, Proceed(c) \/ CallDies(c) PROVE SpentInv'
  <2>1. /\ chain' = chain
        /\ \/ mempool' = mempool
           \/ /\ c.op = "send"
              /\ InCore(SourceOf(c.id)) \/ mempool[SourceOf(c.id)] = TxOf(c)
              /\ mempool' = [mempool EXCEPT ![SourceOf(c.id)] = TxOf(c)]
    BY <1>3, SpendersCall
  <2>2. CASE mempool' = mempool
    BY <1>1, <2>1, <2>2
  <2>3. CASE /\ c.op = "send"
             /\ InCore(SourceOf(c.id)) \/ mempool[SourceOf(c.id)] = TxOf(c)
             /\ mempool' = [mempool EXCEPT ![SourceOf(c.id)] = TxOf(c)]
    <3>1. TxOf(c) # None /\ SourceOf(c.id) \in Sources
      BY <1>0, <2>3, CallFacts, FillFields, MarketAssumption DEF SourceOf
    <3>2. chain[SourceOf(c.id)] = None
      BY <2>3, <3>1 DEF InCore, SpentInv
    <3> QED BY <1>0, <2>1, <2>3, <3>1, <3>2 DEF SpentInv
  <2> QED BY <2>1, <2>2, <2>3
<1>4. CASE BeginTick \/ NextPhase \/ TickFails \/ UNCHANGED vars
  BY <1>1, <1>4 DEF BeginTick, NextPhase, TickFails, world, vars
<1>5. ASSUME NEW i \in rec.todo, Reconcile(i) PROVE SpentInv'
  <2>1. UNCHANGED world
    BY <1>5 DEF Reconcile, Confirm, Unconfirm, ReconcileListing, FindSpender, ExpireUnfunded,
                LapseListing, ExpireFill
  <2> QED BY <1>1, <2>1 DEF world
<1>6. CASE World
  <2>1. ASSUME NEW s \in Sources, Mine(s) \/ SpendElsewhere(s) \/ Evict(s) \/ Reorg(s)
        PROVE  SpentInv'
    <3>1. CASE Mine(s)
      BY <1>0, <3>1 DEF Mine, SpentInv
    <3>2. CASE SpendElsewhere(s)
      BY <1>0, <3>2 DEF SpendElsewhere, Move, SpentInv
    <3>3. CASE Evict(s)
      BY <1>0, <3>3 DEF Evict, Move, SpentInv
    <3>4. CASE Reorg(s)
      BY <1>0, <3>4 DEF Reorg, Move, SpentInv
    <3> QED BY <2>1, <3>1, <3>2, <3>3, <3>4
  <2>2. CASE \/ \E f \in Fill : FundsSpent(f) \/ ReservationRunsOut(f)
             \/ \E l \in Listing : ExpiryHeightReached(l)
    BY <1>1, <2>2 DEF FundsSpent, ReservationRunsOut, ExpiryHeightReached, world
  <2> QED BY <1>6, <2>1, <2>2 DEF World
<1> QED BY <1>2, <1>3, <1>4, <1>5, <1>6 DEF Next, Moves, Worker

(* Faults are counted. *)
LEMMA FaultsStep == faults \in Nat /\ [Next]_vars => faults' \in Nat
<1>1. Fault => faults' = faults + 1
  BY DEF Fault
<1>2. Request => faults' = faults
  BY DEF Request, CreateListing, CancelListing, ReserveListing, BuildFillPsbt,
         SubmitBuyer, SubmitSeller, FinalizeP2PFill, Begin
<1>3. \A c \in calls : Proceed(c) => faults' = faults
  BY DEF Proceed, InsertListing, StorePsbt, StoreBuyerSigned, StoreSellerSigned, StoreTxid,
         TestMempoolAccept, SendRawTransaction, MarkBroadcast
<1>4. \A c \in calls : CallDies(c) => Fault
  BY DEF CallDies
<1>5. BeginTick \/ NextPhase => faults' = faults
  BY DEF BeginTick, NextPhase
<1>6. \A i \in rec.todo : Reconcile(i) => faults' = faults \/ Fault
  BY DEF Reconcile, Confirm, Unconfirm, ReconcileListing, FindSpender, ExpireUnfunded,
         LapseListing, ExpireFill
<1>7. TickFails => Fault
  BY DEF TickFails
<1>8. World => faults' = faults
  BY DEF World, Mine, SpendElsewhere, Evict, Reorg, Move, FundsSpent, ReservationRunsOut,
         ExpiryHeightReached
<1>9. UNCHANGED vars => faults' = faults
  BY DEF vars
<1> QED BY <1>1, <1>2, <1>3, <1>4, <1>5, <1>6, <1>7, <1>8, <1>9 DEF Next, Moves, Worker

(* Only invalidateListing fails a fill. *)
LEMMA FailsByInvalidation ==
  ASSUME TypeInv, [Next]_vars, NEW f \in DOMAIN fills,
         fills[f].status # "FAILED", fills'[f].status = "FAILED"
  PROVE  \E i \in rec.todo : /\ (ReconcileListing(i) \/ FindSpender(i)) /\ Invalidate(i.id)
                             /\ rec.phase = "open"
<1>0. TablesOK
  BY DEF TypeInv
<1>1. ASSUME NEW F, NEW st \in FillStatus \ {"FAILED"}, fills' = SetFills(F, st) PROVE FALSE
  <2>1. fills'[f].status = IF f \in F THEN st ELSE fills[f].status
    BY <1>0, <1>1, FillsSet
  <2> QED BY <1>1, <2>1
<1>2. \A st \in {"CANCELLED", "CONFIRMED", "REORGED", "BROADCAST", "EXPIRED"} :
        st \in FillStatus \ {"FAILED"}
  BY DEF FillStatus, Pending
<1>3. fills' # fills
  OBVIOUS
<1>4. CASE Request
  <2>1. CASE \E l \in Listing : CancelListing(l)
    BY <1>1, <1>2, <2>1 DEF CancelListing
  <2>2. CASE \E l \in Listing : ReserveListing(l)
    BY <2>2, ReserveMarks
  <2>3. CASE ~ \E l \in Listing : CancelListing(l) \/ ReserveListing(l)
    BY <1>3, <1>4, <2>3, CallBegins DEF Begin, db
  <2> QED BY <2>1, <2>2, <2>3
<1>5. ASSUME NEW c \in calls, Proceed(c) \/ CallDies(c) PROVE FALSE
  <2>1. /\ f # c.id \/ c.op = "create" => fills'[f] = fills[f]
        /\ c.op # "create" =>
             fills'[c.id].status \in {fills[c.id].status, "PSBT_BUILT", "BUYER_SIGNED",
                                      "SELLER_SIGNED", "BROADCAST"}
    BY <1>5, CallMarks
  <2> QED BY <2>1
<1>6. CASE BeginTick \/ NextPhase \/ TickFails \/ World \/ UNCHANGED vars
  <2>1. UNCHANGED db
    BY <1>6, WorldOK DEF BeginTick, NextPhase, TickFails, vars, TypeInv
  <2> QED BY <1>3, <2>1 DEF db
<1>7. ASSUME NEW i \in rec.todo, Reconcile(i)
      PROVE  /\ (ReconcileListing(i) \/ FindSpender(i)) /\ Invalidate(i.id)
             /\ rec.phase = "open"
  <2>1. CASE Confirm(i) \/ Unconfirm(i)
    BY <1>1, <1>2, <1>3, <2>1 DEF Confirm, Unconfirm
  <2>2. CASE ReconcileListing(i)
    <3>1. Invalidate(i.id)
      BY <1>3, <2>2 DEF ReconcileListing, Reopen, Relist, db
    <3> QED BY <2>2, <3>1 DEF ReconcileListing
  <2>3. CASE FindSpender(i)
    <3>1. Invalidate(i.id) \/ Repend(i.id)
      BY <1>3, <2>3 DEF FindSpender, Reopen, db
    <3>2. ~Repend(i.id)
      BY <1>1, <1>2 DEF Repend
    <3> QED BY <2>3, <3>1, <3>2 DEF FindSpender
  <2>4. CASE ExpireUnfunded(i) \/ ExpireFill(i)
    BY <1>1, <1>2, <1>3, <2>4 DEF ExpireUnfunded, ExpireFill, Expire, db
  <2>5. CASE LapseListing(i)
    BY <1>3, <2>5 DEF LapseListing
  <2> QED BY <1>7, <2>1, <2>2, <2>3, <2>4, <2>5 DEF Reconcile
<1> QED BY <1>4, <1>5, <1>6, <1>7 DEF Next, Moves, Worker

(* A fill never fails because of its own transaction: reconciliation only  *)
(* invalidates a listing for a spend that is not its latest fill's, unless *)
(* a late write went over a fill of the listing (raced), the very lookup   *)
(* of the transaction fails (faults), or a reorg since the tick began has  *)
(* undone what the index shows.                                            *)
THEOREM OwnSpendNeverFails == Spec => OwnNeverFails
<1> DEFINE Kind(f) ==
      fills[f].status # "FAILED" /\ fills'[f].status = "FAILED" =>
        \/ fills[f].txid = None
        \/ fills[f].txid \notin {chain[SourceOf(f)], mempool[SourceOf(f)]}
        \/ fills[f].listing \in raced
        \/ faults' # faults
        \/ idx[SourceOf(f)] \notin {None, chain[SourceOf(f)]}
           Inv == TypeInv /\ Orders /\ SpentInv /\ faults \in Nat
<1>1. Init => Inv
  <2>1. Init => SpentInv /\ faults \in Nat
    BY DEF Init, SpentInv
  <2> QED BY <2>1, TypeInit, OrdersInit
<1>2. Inv /\ [Next]_vars => Inv'
  BY TypeStep, OrdersStep, SpentStep, FaultsStep
<1>3. Inv /\ [Next]_vars => \A f \in DOMAIN fills : Kind(f)
  <2> SUFFICES ASSUME TypeInv, Orders, SpentInv, faults \in Nat, [Next]_vars,
                      NEW f \in DOMAIN fills, fills[f].status # "FAILED", fills'[f].status = "FAILED",
                      fills[f].txid # None, fills[f].listing \notin raced,
                      faults' = faults, idx[SourceOf(f)] \in {None, chain[SourceOf(f)]}
               PROVE  fills[f].txid \notin {chain[SourceOf(f)], mempool[SourceOf(f)]}
    OBVIOUS
  <2>0. LineInv /\ TablesOK /\ fills' # fills
    BY DEF Orders, TypeInv
  <2>1. PICK i \in rec.todo : /\ ReconcileListing(i) \/ FindSpender(i)
                              /\ Invalidate(i.id) /\ rec.phase = "open"
    BY FailsByInvalidation
  <2>2. /\ fills[f].listing = i.id /\ fills[f].status \in Pending
    <3>1. "FAILED" \in FillStatus /\ fills' = SetFills(FillsOf(i.id, Pending), "FAILED")
      BY <2>1 DEF FillStatus, Invalidate
    <3>2. f \in FillsOf(i.id, Pending)
      BY <2>0, <3>1, FillsSet
    <3> QED BY <3>2 DEF FillsOf
  <2>3. /\ SourceOf(f) = Source[i.id] /\ SourceOf(f) \in Sources /\ fills[f].txid \in Tx
        /\ fills[f].status \in FillStatus
    BY <2>0, <2>2, FillFields DEF SourceOf
  <2>4. CASE ReconcileListing(i)
    <3>2. /\ idx[Source[i.id]] # None
          /\ ~ \E g \in FillsOf(i.id, FillStatus) : fills[g].txid = idx[Source[i.id]]
      BY <2>0, <2>4 DEF ReconcileListing, Reopen, Relist, db
    <3>3. fills[f].txid # idx[Source[i.id]]
      BY <2>2, <2>3, <3>2 DEF FillsOf
    <3>4. chain[SourceOf(f)] = idx[SourceOf(f)] /\ mempool[SourceOf(f)] = None
      BY <2>3, <3>2 DEF SpentInv
    <3> QED BY <2>3, <3>3, <3>4
  <2>5. CASE FindSpender(i)
    <3>1. LatestTxid(i.id) = fills[f].txid
      <4>1. Latest(f)
        BY <2>0, <2>2 DEF LineInv
      <4> QED BY <2>0, <2>2, <4>1, LatestRow
    <3>2. CASE ~Known(i.id)
      BY <2>3, <3>1, <3>2 DEF Known
    <3>3. CASE Known(i.id)
      <4>0. ~Fault
        BY DEF Fault
      <4>1. Reopen(i, Repend(i.id))
        BY <2>5, <3>3, <4>0 DEF FindSpender
      <4>3. Repend(i.id)
        BY <2>0, <4>1 DEF Reopen, db
      <4>4. FALSE
        <5>1. "BROADCAST" \in FillStatus
          BY DEF FillStatus, Pending
        <5>2. PICK F : fills' = SetFills(F, "BROADCAST")
          BY <4>3 DEF Repend
        <5>3. fills'[f].status = IF f \in F THEN "BROADCAST" ELSE fills[f].status
          BY <2>0, <5>1, <5>2, FillsSet
        <5> QED BY <5>3
      <4> QED BY <4>4
    <3> QED BY <3>2, <3>3
  <2> QED BY <2>1, <2>4, <2>5
<1> HIDE DEF Inv
<1> QED BY <1>1, <1>2, <1>3, PTL DEF Spec, OwnNeverFails
=============================================================================
