------------------------------- MODULE Market -------------------------------
(***************************************************************************)
(* The peer-to-peer market: listings, reservations, the interactive fill   *)
(* and its reconciliation with the chain.                                  *)
(*                                                                         *)
(*   packages/cove-market/src/service.ts   MarketService                   *)
(*   packages/cove-market/src/finalize.ts                                  *)
(*   apps/worker/src/v3.ts                 tick                            *)
(*                                                                         *)
(* A handler reads and checks, awaits, and then writes without looking     *)
(* again: it is two actions with a call in flight between them, except     *)
(* where the code locks the row (cancel, reserve).  The worker runs the    *)
(* phases of reconcileMarket one row at a time over rows it selected when  *)
(* the phase began.  Health checks, signatures, prices and scripts only    *)
(* refuse a request, which is the same as not making it.                   *)
(***************************************************************************)
EXTENDS Integers, FiniteSets, FiniteSetsExt, Maps

CONSTANTS Listing,    \* signed orders
          Source,     \* Source[l]: the token output an order sells
          MaxFills,   \* bound on reservations
          MaxBuilds,  \* bound on the PSBTs built for one fill
          MaxCalls,   \* bound on the calls in flight
          MaxMoves,   \* bound on external events on the chain
          MaxFaults,  \* bound on calls that die and lookups and ticks that fail
          None,       \* no transaction
          External    \* a transaction the market has not made

VARIABLES listings,  \* cove_v3_market_listings: order -> status
          fills,     \* cove_v3_market_fills, numbered as created
          trades,    \* cove_v3_market_trades: txid -> canonical
          cancellations,  \* cove_v3_market_cancellations
          calls,     \* handlers between their check and their write
          rec,       \* reconcileMarket: [phase, todo]
          idx,       \* the index: what spends each source, as last indexed
          chain,     \* what spends it on the active chain
          mempool,   \* what spends it in the mempool
          stale,     \* the fills whose reservation has expired
          broke,     \* the fills whose buyer spent the coins elsewhere
          lapsed,    \* the listings past their expiry height
          moves, faults,
          raced      \* listings with a fill that a late write went over

db == <<listings, fills, trades, cancellations>>
world == <<idx, chain, mempool, broke, lapsed, moves>>
vars == <<db, calls, rec, world, stale, faults, raced>>

Sources == {Source[l] : l \in Listing}
Fill == 1 .. MaxFills
Build == 1 .. MaxBuilds

(* A transaction is fixed by the fill and the build that was signed. *)
Tx == Fill \X Build
Spender == Tx \cup {None, External}

ASSUME MarketAssumption ==
  /\ {MaxFills, MaxBuilds, MaxCalls, MaxMoves, MaxFaults} \subseteq Nat
  /\ {None, External} \cap Tx = {} /\ None # External

Open == {"ACTIVE", "RESERVED", "BROADCAST"}
ListingStatus == Open \cup {"FILLED", "CANCELLED", "EXPIRED", "INVALIDATED",
                            "REORGED"}
Unsettled == {"RESERVED", "PSBT_BUILT", "BUYER_SIGNED", "SELLER_SIGNED"}
Pending == Unsettled \cup {"BROADCAST"}
FillStatus == Pending \cup {"CONFIRMED", "REORGED", "FAILED",
                              "EXPIRED", "CANCELLED"}

Init ==
  /\ listings = Nothing
  /\ fills = Nothing
  /\ trades = Nothing
  /\ cancellations = {}
  /\ calls = {}
  /\ rec = [phase |-> "idle", todo |-> {}]
  /\ idx = [s \in Sources |-> None]
  /\ chain = [s \in Sources |-> None]
  /\ mempool = [s \in Sources |-> None]
  /\ stale = {}
  /\ broke = {}
  /\ lapsed = {}
  /\ moves = 0
  /\ faults = 0
  /\ raced = {}

SourceOf(f) == Source[fills[f].listing]

(* gettxout sees the chain and the mempool. *)
InCore(s) == chain[s] = None /\ mempool[s] = None

(* resolveSource: unspent in the index and in Core. *)
SourceResolves(l) == idx[Source[l]] = None /\ InCore(Source[l])

(* cove_v3_market_listings_source_active_uq refuses a second open listing. *)
Taken(l) ==
  \E k \in DOMAIN listings \ {l} : Source[k] = Source[l] /\ listings[k] \in Open

SetListing(l, status) == PutAt(listings, l, status)

(* update fills set status where id in F. *)
SetFills(F, status) ==
  [f \in DOMAIN fills |->
     IF f \in F THEN [fills[f] EXCEPT !.status = status] ELSE fills[f]]

FillsOf(l, S) == {f \in DOMAIN fills : fills[f].listing = l /\ fills[f].status \in S}

-----------------------------------------------------------------------------
(* The HTTP handlers. *)

Call(op, id, build) == [op |-> op, id |-> id, build |-> build]

Begin(c) ==
  /\ c \notin calls
  /\ Cardinality(calls) < MaxCalls
  /\ calls' = calls \cup {c}
  /\ UNCHANGED <<db, rec, world, stale, faults>>

(* A call goes on to its next await, or returns. *)
Continue(c, op) == calls' = (calls \ {c}) \cup {[c EXCEPT !.op = op]}
Return(c) == calls' = calls \ {c}

CreateListing(l) == SourceResolves(l) /\ Begin(Call("create", l, 0))

InsertListing(c) ==
  /\ c.op = "create"
  /\ listings' = IF c.id \in DOMAIN listings \/ Taken(c.id)
                   THEN listings ELSE SetListing(c.id, "ACTIVE")
  /\ Return(c)
  /\ UNCHANGED <<fills, trades, cancellations, rec, world, stale, faults>>

(* cancelListing locks the row. *)
CancelListing(l) ==
  /\ l \in DOMAIN listings
  /\ listings[l] \notin {"FILLED", "CANCELLED"}
  /\ cancellations' = cancellations \cup {l}
  /\ listings' = SetListing(l, "CANCELLED")
  /\ fills' = SetFills(FillsOf(l, Unsettled), "CANCELLED")
  /\ UNCHANGED <<trades, calls, rec, world, stale, faults>>

NewFill(l) == [listing |-> l, status |-> "RESERVED", digest |-> 0,
               psbt |-> [build |-> 0, by |-> {}], txid |-> None]

(* reserveListing locks the row.  The EXPIRED it writes when the listing   *)
(* has lapsed is rolled back by its own exception.                         *)
ReserveListing(l) ==
  /\ l \in DOMAIN listings
  /\ listings[l] = "ACTIVE"
  /\ l \notin lapsed
  /\ SourceResolves(l)
  /\ Cardinality(DOMAIN fills) < MaxFills
  /\ fills' = PutAt(fills, Cardinality(DOMAIN fills) + 1, NewFill(l))
  /\ listings' = SetListing(l, "RESERVED")
  /\ UNCHANGED <<trades, cancellations, calls, rec, world, stale, faults>>

BuildFillPsbt(f, b) ==
  /\ f \in DOMAIN fills
  /\ fills[f].status \in {"RESERVED", "PSBT_BUILT"}
  /\ b >= fills[f].digest
  /\ SourceResolves(fills[f].listing)
  /\ Begin(Call("build", f, b))

StorePsbt(c) ==
  /\ c.op = "build"
  /\ fills' = [fills EXCEPT ![c.id].digest = c.build,
                            ![c.id].psbt = [build |-> c.build, by |-> {}],
                            ![c.id].status = "PSBT_BUILT"]
  /\ Return(c)
  /\ UNCHANGED <<listings, trades, cancellations, rec, world, stale, faults>>

(* submitBuyerSignedPsbt: the PSBT has the digest of the row. *)
SubmitBuyer(f) ==
  /\ f \in DOMAIN fills
  /\ fills[f].status = "PSBT_BUILT"
  /\ Begin(Call("buyer", f, fills[f].digest))

(* The seller gets time of its own. *)
StoreBuyerSigned(c) ==
  /\ c.op = "buyer"
  /\ fills' = [fills EXCEPT ![c.id].psbt = [build |-> c.build, by |-> {"buyer"}],
                            ![c.id].status = "BUYER_SIGNED"]
  /\ stale' = stale \ {c.id}
  /\ Return(c)
  /\ UNCHANGED <<listings, trades, cancellations, rec, world, faults>>

(* submitSellerSignedPsbt: the seller signs the PSBT of the row, which     *)
(* must have the digest of the row and the buyer's signatures.             *)
SubmitSeller(f) ==
  /\ f \in DOMAIN fills
  /\ fills[f].status = "BUYER_SIGNED"
  /\ SourceResolves(fills[f].listing)
  /\ fills[f].psbt = [build |-> fills[f].digest, by |-> {"buyer"}]
  /\ Begin(Call("seller", f, fills[f].digest))

StoreSellerSigned(c) ==
  /\ c.op = "seller"
  /\ fills' = [fills EXCEPT
                 ![c.id].psbt = [build |-> c.build, by |-> {"buyer", "seller"}],
                 ![c.id].status = "SELLER_SIGNED"]
  /\ Return(c)
  /\ UNCHANGED <<listings, trades, cancellations, rec, world, stale, faults>>

(* finalizeP2PFill: both signed, the terms of the row, the source live in  *)
(* the index.                                                              *)
FinalizeP2PFill(f) ==
  /\ f \in DOMAIN fills
  /\ fills[f].status \in {"SELLER_SIGNED", "BROADCAST"}
  /\ fills[f].psbt = [build |-> fills[f].digest, by |-> {"buyer", "seller"}]
  /\ idx[SourceOf(f)] = None
  /\ Begin(Call("txid", f, fills[f].digest))

TxOf(c) == <<c.id, c.build>>

(* Mutant: the txid is left to the mark that follows the broadcast. *)
StoreTxidLater(c) ==
  /\ c.op = "txid"
  /\ Continue(c, "accept")
  /\ UNCHANGED <<db, rec, world, stale, faults>>

StoreTxid(c) ==
  /\ c.op = "txid"
  /\ fills' = [fills EXCEPT ![c.id].txid = TxOf(c)]
  /\ Continue(c, "accept")
  /\ UNCHANGED <<listings, trades, cancellations, rec, world, stale, faults>>

(* broadcastValidatedCoveTransaction: testmempoolaccept refuses what is    *)
(* already there, sendrawtransaction does not.                             *)
TestMempoolAccept(c) ==
  /\ c.op = "accept"
  /\ IF InCore(SourceOf(c.id)) /\ c.id \notin broke
       THEN Continue(c, "send") ELSE Return(c)
  /\ UNCHANGED <<db, rec, world, stale, faults>>

SendRawTransaction(c) ==
  LET s == SourceOf(c.id)
  IN  /\ c.op = "send"
      /\ IF (InCore(s) /\ c.id \notin broke) \/ mempool[s] = TxOf(c)
           THEN /\ mempool' = [mempool EXCEPT ![s] = TxOf(c)]
                /\ Continue(c, "mark")
           ELSE Return(c) /\ UNCHANGED mempool
      /\ UNCHANGED <<db, rec, idx, chain, broke, lapsed, moves, stale, faults>>

(* broadcastP2PFill: one transaction, whatever the rows say by now. *)
MarkBroadcast(c) ==
  LET l == fills[c.id].listing
  IN  /\ c.op = "mark"
      /\ IF Taken(l)
           THEN UNCHANGED <<listings, fills>>
           ELSE /\ listings' = SetListing(l, "BROADCAST")
                /\ fills' = [fills EXCEPT ![c.id].status = "BROADCAST",
                                          ![c.id].txid = TxOf(c)]
      /\ Return(c)
      /\ UNCHANGED <<trades, cancellations, rec, world, stale, faults>>

Fault == faults < MaxFaults /\ faults' = faults + 1

(* The process that serves the call dies. *)
CallDies(c) ==
  /\ Fault
  /\ Return(c)
  /\ UNCHANGED <<db, rec, world, stale>>

Proceed(c) ==
  \/ InsertListing(c) \/ StorePsbt(c) \/ StoreBuyerSigned(c)
  \/ StoreSellerSigned(c) \/ StoreTxid(c) \/ TestMempoolAccept(c)
  \/ SendRawTransaction(c) \/ MarkBroadcast(c)

Request ==
  \/ \E l \in Listing : CreateListing(l) \/ CancelListing(l) \/ ReserveListing(l)
  \/ \E f \in Fill : \/ \E b \in Build : BuildFillPsbt(f, b)
                     \/ SubmitBuyer(f) \/ SubmitSeller(f) \/ FinalizeP2PFill(f)

-----------------------------------------------------------------------------
(* reconcileMarket.  A row is taken with what the select saw of it. *)

Item(id, was) == [id |-> id, was |-> was, spent |-> FALSE]
FillItems(S) == {Item(f, fills[f].txid) : f \in {g \in DOMAIN fills : fills[g].status \in S}}
ListingItems(S) == {Item(l, listings[l]) : l \in {k \in DOMAIN listings : listings[k] \in S}}

Select(phase) ==
  CASE phase = "confirm"   -> FillItems({"BROADCAST"})
    [] phase = "unconfirm" -> FillItems({"CONFIRMED"})
    [] phase = "open"      -> ListingItems(Open \cup {"REORGED"})
    [] phase = "funding"   -> FillItems({"BUYER_SIGNED"})
    [] phase = "lapse"     -> {i \in ListingItems({"ACTIVE"}) : i.id \in lapsed}
    [] phase = "expire"    -> {i \in FillItems(Unsettled) : i.id \in stale}
    [] OTHER -> {}

After == [confirm |-> "unconfirm", unconfirm |-> "open", open |-> "funding",
          funding |-> "lapse", lapse |-> "expire", expire |-> "idle"]

(* The tick has brought the index to Core's chain. *)
BeginTick ==
  /\ rec.phase = "idle"
  /\ idx' = chain
  /\ rec' = [phase |-> "confirm", todo |-> Select("confirm")]
  /\ UNCHANGED <<db, calls, chain, mempool, broke, lapsed, moves, stale, faults>>

NextPhase ==
  /\ rec.phase # "idle"
  /\ rec.todo = {}
  /\ rec' = [phase |-> After[rec.phase], todo |-> Select(After[rec.phase])]
  /\ UNCHANGED <<db, calls, world, stale, faults>>

(* ensureTrade: inserted, or canonical again. *)
EnsureTrade(t) == PutAt(trades, t, TRUE)

Done(i) == rec' = [rec EXCEPT !.todo = @ \ {i}]
EndTick == rec' = [phase |-> "idle", todo |-> {}]

(* (A) a fill the indexer has confirmed. *)
Confirm(i) ==
  /\ rec.phase = "confirm"
  /\ IF idx[SourceOf(i.id)] = i.was
       THEN /\ fills' = SetFills({i.id}, "CONFIRMED")
            /\ listings' = SetListing(fills[i.id].listing, "FILLED")
            /\ trades' = EnsureTrade(i.was)
       ELSE UNCHANGED <<listings, fills, trades>>
  /\ Done(i)
  /\ UNCHANGED <<cancellations, calls, world, stale, faults>>

(* Mutant: the trade keeps its flag. *)
UnconfirmKeepingTrade(i) ==
  /\ rec.phase = "unconfirm"
  /\ IF idx[SourceOf(i.id)] # i.was
       THEN /\ fills' = SetFills({i.id}, "REORGED")
            /\ listings' = SetListing(fills[i.id].listing, "REORGED")
       ELSE UNCHANGED <<listings, fills>>
  /\ Done(i)
  /\ UNCHANGED <<trades, cancellations, calls, world, stale, faults>>

(* (B) a confirmed fill the reorg has taken back. *)
Unconfirm(i) ==
  /\ rec.phase = "unconfirm"
  /\ IF idx[SourceOf(i.id)] # i.was
       THEN /\ fills' = SetFills({i.id}, "REORGED")
            /\ listings' = SetListing(fills[i.id].listing, "REORGED")
            /\ trades' = [t \in DOMAIN trades |-> t # i.was /\ trades[t]]
       ELSE UNCHANGED <<listings, fills, trades>>
  /\ Done(i)
  /\ UNCHANGED <<cancellations, calls, world, stale, faults>>

(* invalidateListing. *)
Invalidate(l) ==
  /\ listings' = SetListing(l, "INVALIDATED")
  /\ fills' = SetFills(FillsOf(l, Pending), "FAILED")
  /\ UNCHANGED <<trades, cancellations>>

(* latestFillTxid, and whether Core knows it. *)
LatestTxid(l) ==
  LET F == FillsOf(l, FillStatus)
  IN  IF F = {} THEN None ELSE fills[Max(F)].txid

(* Mutant: Core is asked about its mempool only. *)
KnownInMempool(l) == LatestTxid(l) # None /\ LatestTxid(l) = mempool[Source[l]]

Known(l) == LatestTxid(l) # None
            /\ LatestTxid(l) \in {chain[Source[l]], mempool[Source[l]]}

(* Our fill is back in the mempool after a reorg. *)
Repend(l) ==
  /\ listings' = SetListing(l, "BROADCAST")
  /\ fills' = SetFills({f \in FillsOf(l, FillStatus) : fills[f].txid = LatestTxid(l)},
                       "BROADCAST")
  /\ UNCHANGED <<trades, cancellations>>

(* A reorged listing opens again, which the unique index may refuse: the   *)
(* exception ends the tick.                                                *)
Reopen(i, Write) ==
  IF i.was # "REORGED" THEN UNCHANGED db /\ Done(i)
  ELSE IF Taken(i.id) THEN UNCHANGED db /\ EndTick
  ELSE Write /\ Done(i)

Relist(l) ==
  /\ listings' = SetListing(l, "ACTIVE")
  /\ UNCHANGED <<fills, trades, cancellations>>

(* (C) an open or reorged listing: is its source spent, in the index, then *)
(* in Core?                                                                *)
ReconcileListing(i) ==
  LET s == Source[i.id]
      ours == \E f \in FillsOf(i.id, FillStatus) : fills[f].txid = idx[s]
  IN  /\ rec.phase = "open"
      /\ ~i.spent
      /\ \/ /\ idx[s] # None
            /\ IF ours THEN UNCHANGED db ELSE Invalidate(i.id)
            /\ Done(i)
         \/ /\ idx[s] = None /\ InCore(s)
            /\ Reopen(i, Relist(i.id))
         \/ /\ idx[s] = None /\ ~InCore(s)
            /\ rec' = [rec EXCEPT !.todo = (@ \ {i}) \cup {[i EXCEPT !.spent = TRUE]}]
            /\ UNCHANGED db
      /\ UNCHANGED <<calls, world, stale, faults>>

(* Not in the index, but in Core: by whom?  A lookup that fails is a no. *)
FindSpender(i) ==
  /\ rec.phase = "open"
  /\ i.spent
  /\ \/ Known(i.id) /\ Reopen(i, Repend(i.id)) /\ UNCHANGED faults
     \/ ~Known(i.id) /\ Invalidate(i.id) /\ Done(i) /\ UNCHANGED faults
     \/ Known(i.id) /\ Fault /\ Invalidate(i.id) /\ Done(i)
  /\ UNCHANGED <<calls, world, stale>>

(* Mutant: the listing stays reserved. *)
ExpireFillOnly(f) ==
  /\ fills' = SetFills({f}, "EXPIRED")
  /\ UNCHANGED <<listings, trades, cancellations>>

(* Mutant: the two statuses are swapped. *)
ExpireSwapped(f) ==
  /\ fills' = SetFills({f}, "ACTIVE")
  /\ listings' = SetListing(fills[f].listing, "EXPIRED")
  /\ UNCHANGED <<trades, cancellations>>

(* The fill expires; its listing is free again if it is still reserved. *)
Expire(f) ==
  LET l == fills[f].listing
  IN  /\ fills' = SetFills({f}, "EXPIRED")
      /\ listings' = IF listings[l] = "RESERVED" THEN SetListing(l, "ACTIVE")
                     ELSE listings
      /\ UNCHANGED <<trades, cancellations>>

(* (C2) the buyer's coins are gone. *)
ExpireUnfunded(i) ==
  /\ rec.phase = "funding"
  /\ IF \/ i.id \in broke
        \/ \E b \in Build : <<i.id, b>> \in {chain[SourceOf(i.id)], mempool[SourceOf(i.id)]}
       THEN Expire(i.id) ELSE UNCHANGED db
  /\ Done(i)
  /\ UNCHANGED <<calls, world, stale, faults>>

(* (D) listings past their height, reservations past their time. *)
LapseListing(i) ==
  /\ rec.phase = "lapse"
  /\ listings' = SetListing(i.id, "EXPIRED")
  /\ Done(i)
  /\ UNCHANGED <<fills, trades, cancellations, calls, world, stale, faults>>

ExpireFill(i) ==
  /\ rec.phase = "expire"
  /\ Expire(i.id)
  /\ Done(i)
  /\ UNCHANGED <<calls, world, stale, faults>>

(* A call fails or the worker restarts: the tick ends where it is. *)
TickFails ==
  /\ rec.phase # "idle"
  /\ Fault
  /\ EndTick
  /\ UNCHANGED <<db, calls, world, stale>>

Reconcile(i) ==
  \/ Confirm(i) \/ Unconfirm(i) \/ ReconcileListing(i) \/ FindSpender(i)
  \/ ExpireUnfunded(i) \/ LapseListing(i) \/ ExpireFill(i)

Worker == BeginTick \/ NextPhase \/ \E i \in rec.todo : Reconcile(i)

-----------------------------------------------------------------------------
(* Bitcoin, the clock and the users' wallets. *)

Move(m, c) ==
  /\ moves < MaxMoves
  /\ moves' = moves + 1
  /\ mempool' = m
  /\ chain' = c
  /\ UNCHANGED <<db, calls, rec, idx, broke, lapsed, stale, faults>>

(* The mempool's transaction is mined; nothing is only delayed for ever. *)
Mine(s) ==
  /\ mempool[s] # None
  /\ mempool' = [mempool EXCEPT ![s] = None]
  /\ chain' = [chain EXCEPT ![s] = mempool[s]]
  /\ UNCHANGED <<db, calls, rec, idx, broke, lapsed, moves, stale, faults>>

(* The seller moves the tokens, replacing what is in the mempool or not. *)
SpendElsewhere(s) ==
  /\ chain[s] = None
  /\ Move([mempool EXCEPT ![s] = External], chain)

Evict(s) ==
  /\ mempool[s] # None
  /\ Move([mempool EXCEPT ![s] = None], chain)

(* The block is reorganised away; its transaction may or may not return. *)
Reorg(s) ==
  /\ chain[s] # None
  /\ \E t \in {None, chain[s]} :
       Move([mempool EXCEPT ![s] = t], [chain EXCEPT ![s] = None])

FundsSpent(f) ==
  /\ f \in DOMAIN fills \ broke
  /\ moves < MaxMoves
  /\ moves' = moves + 1
  /\ broke' = broke \cup {f}
  /\ \A b \in Build : <<f, b>> \notin {chain[SourceOf(f)], mempool[SourceOf(f)]}
  /\ UNCHANGED <<db, calls, rec, idx, chain, mempool, lapsed, stale, faults>>

ReservationRunsOut(f) ==
  /\ f \in DOMAIN fills \ stale
  /\ fills[f].status \in Unsettled
  /\ stale' = stale \cup {f}
  /\ UNCHANGED <<db, calls, rec, world, faults>>

ExpiryHeightReached(l) ==
  /\ l \in DOMAIN listings \ lapsed
  /\ moves < MaxMoves
  /\ moves' = moves + 1
  /\ lapsed' = lapsed \cup {l}
  /\ UNCHANGED <<db, calls, rec, idx, chain, mempool, broke, stale, faults>>

World ==
  \/ \E s \in Sources : Mine(s) \/ SpendElsewhere(s) \/ Evict(s) \/ Reorg(s)
  \/ \E f \in Fill : FundsSpent(f) \/ ReservationRunsOut(f)
  \/ \E l \in Listing : ExpiryHeightReached(l)

(* History: a call that finds the row of a fill settled, expired or        *)
(* cancelled since it looked, or naming a transaction, writes it all the   *)
(* same, and so does the worker that finds the fill it selected broadcast. *)
(* To mark a named transaction BROADCAST is no harm.                       *)
Overwrites(f) ==
  \/ /\ calls' # calls
     /\ fills'[f] # fills[f]
     /\ \/ fills[f].status \notin Pending
        \/ fills[f].txid # None /\ fills'[f] # [fills[f] EXCEPT !.status = "BROADCAST"]
  \/ fills[f].status = "BROADCAST" /\ fills'[f].status = "EXPIRED"

Remember ==
  raced' = raced \cup {fills[f].listing : f \in {g \in DOMAIN fills : Overwrites(g)}}

Moves ==
  \/ Request
  \/ \E c \in calls : Proceed(c) \/ CallDies(c)
  \/ Worker
  \/ TickFails
  \/ World

Next == Moves /\ Remember

Spec == Init /\ [][Next]_vars

(* The worker polls for ever, a call that is not cut off returns, time     *)
(* passes, and miners mine.                                                *)
Fairness ==
  /\ WF_vars(Worker /\ Remember)
  /\ \A f \in Fill : WF_vars(ReservationRunsOut(f) /\ Remember)
  /\ WF_vars((\E c \in calls : Proceed(c)) /\ Remember)
  /\ \A s \in Sources : WF_vars(Mine(s) /\ Remember)

FairSpec == Spec /\ Fairness

-----------------------------------------------------------------------------
FillRow == [listing : Listing, status : FillStatus, digest : 0 .. MaxBuilds,
            psbt : [build : 0 .. MaxBuilds, by : SUBSET {"buyer", "seller"}],
            txid : Tx \cup {None}]
Ops == {"create", "build", "buyer", "seller", "txid", "accept", "send", "mark"}
Phases == DOMAIN After \cup {"idle"}

(* Type correctness of the rows, the calls and the chain. *)
TypeOK ==
  /\ IsMap(listings, Listing, ListingStatus)
  /\ IsMap(fills, Fill, FillRow)
  /\ IsMap(trades, Tx, BOOLEAN)
  /\ cancellations \subseteq DOMAIN listings
  /\ \A c \in calls : c.op \in Ops /\ c.id \in Listing \cup Fill
  /\ rec.phase \in Phases
  /\ {idx, chain, mempool} \subseteq [Sources -> Spender]
  /\ stale \subseteq DOMAIN fills
  /\ broke \subseteq DOMAIN fills
  /\ lapsed \subseteq DOMAIN listings
  /\ raced \subseteq DOMAIN listings

Reconciled == rec.phase \in {"open", "funding", "lapse", "expire"}

(* No settlement in the database only (docs/COVE_MARKET.md): once a tick   *)
(* has been through its fills, every canonical trade is a transaction the  *)
(* index saw spend its source, and there is one at most for each source;   *)
(* unless a call has written over the settled fill.                        *)
TradesSettled ==
  Reconciled =>
    \A t \in DOMAIN trades :
      trades[t] => idx[SourceOf(t[1])] = t \/ fills[t[1]].listing \in raced

(* A filled listing was filled by one of its own fills. *)
FilledIsSettled ==
  Reconciled =>
    \A l \in DOMAIN listings \ raced :
      listings[l] = "FILLED" =>
        \E f \in FillsOf(l, {"CONFIRMED"}) : fills[f].txid = idx[Source[l]]

(* Whatever spends a source in the name of a fill, the row of the fill     *)
(* names it before it is sent, so that reconciliation knows it for its     *)
(* own, whatever dies; unless two builds of the fill were signed and sent. *)
OwnIsKnown ==
  \A s \in Sources :
    \A t \in {chain[s], mempool[s]} \cap Tx :
      /\ SourceOf(t[1]) = s
      /\ fills[t[1]].txid = t \/ fills[t[1]].listing \in raced

(* A listing is never invalidated, and its fill never failed, because of   *)
(* the fill's own transaction (INVALIDATED means spent externally,         *)
(* docs/COVE_MARKET.md, line 59), unless a late call wrote over a fill of  *)
(* the listing, the very lookup of the transaction fails, or a reorg since *)
(* the tick began has undone the spend the index shows.                    *)
OwnNeverFails ==
  [][\A f \in DOMAIN fills :
       fills[f].status # "FAILED" /\ fills'[f].status = "FAILED" =>
         \/ fills[f].txid = None
         \/ fills[f].txid \notin {chain[SourceOf(f)], mempool[SourceOf(f)]}
         \/ fills[f].listing \in raced
         \/ faults' # faults
         \/ idx[SourceOf(f)] \notin {None, chain[SourceOf(f)]}]_vars

(* A cancelled listing never resurrects, even across a reorg               *)
(* (service.ts, line 294): it is never offered again.  The code does not   *)
(* keep it when the fill is broadcast before the cancellation (README).    *)
CancelledForGood ==
  \A l \in cancellations : listings[l] \notin {"ACTIVE", "RESERVED"}

(* A reorged listing whose source is listed again: to open it would        *)
(* violate the unique index.                                               *)
Clash == \E l \in DOMAIN listings : listings[l] = "REORGED" /\ Taken(l)

(* A reservation does not lock its listing for ever (service.ts, line 760:  *)
(* comment of phase D), unless such a clash stays.                         *)
ReservationsEnd ==
  \A l \in Listing :
    []<>(l \in DOMAIN listings => listings[l] # "RESERVED") \/ <>[]Clash

(* A reorged listing is restored, invalidated or filled again              *)
(* (docs/COVE_MARKET.md, Confirmation & reorg), unless it clashes, or the  *)
(* tick failed between taking the fill back and looking for it.            *)
ReorgsResolved ==
  \A l \in Listing :
    \/ []<>(l \in DOMAIN listings => listings[l] # "REORGED")
    \/ <>[]Clash
    \/ <>[](faults > 0)

(* Reconciliation gets through all its phases again and again: no row of   *)
(* the market can stop it for good, but one that clashes.                  *)
ReconcileCompletes == []<>(rec.phase = "expire") \/ <>[]Clash

(* If no call dies and no lookup or tick fails, a fill that stays on the   *)
(* chain becomes a canonical trade and stays one, whatever reorgs it has   *)
(* been through before and whatever clashes, unless a late write went over *)
(* it or its listing was cancelled, reorged, before it was found again.    *)
FillsRecorded ==
  \A t \in Tx : \A s \in Sources :
    <>[](/\ faults = 0
         /\ chain[s] = t
         /\ fills[t[1]].listing \notin raced \cup cancellations)
      => <>[](t \in DOMAIN trades /\ trades[t])

(* No settlement in the database only, seen from both tables: a canonical  *)
(* trade, and a filled listing, is a spend the index saw.                  *)
Settled == TradesSettled /\ FilledIsSettled

(* Nothing in the market waits for ever: reservations end, reorged         *)
(* listings are resolved, reconciliation gets through its phases, fills    *)
(* become trades; but for a clash of a reorged listing with a newer one of *)
(* the same source, which stops everything but the recording of fills.     *)
Progress == ReservationsEnd /\ ReorgsResolved /\ ReconcileCompletes /\ FillsRecorded
=============================================================================
