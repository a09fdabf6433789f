------------------------------- MODULE Charts -------------------------------
(***************************************************************************)
(* The price history of a token as its pages show it.                      *)
(*                                                                         *)
(*   apps/web/src/lib/ohlc.ts                       unit prices, candles   *)
(*   apps/web/src/app/api/v3/tokens/[tokenId]/candles/route.ts             *)
(*   apps/web/src/app/api/v3/tokens/sparklines/route.ts                    *)
(*   apps/web/src/app/api/v3/tokens/[tokenId]/market/route.ts              *)
(*                                                                         *)
(* Two tables hold trades: the fills the market recorded and the mints and *)
(* redemptions the index saw.  A chart reads one after the other while the *)
(* worker writes, adds and takes back blocks.  The time of a row is that   *)
(* of the transaction that wrote it, at most Lag before it can be read;    *)
(* rows of one block have one time, and the order in which a query returns *)
(* rows of one height is not said.                                         *)
(***************************************************************************)
EXTENDS Integers, Sequences, SequencesExt, FiniteSetsExt

CONSTANTS Deals,       \* the trades, in the order they are written: [atoms, sats]
          PRECISION,   \* PER * ATOMS_PER_TOKEN * PRECISION of ohlc.ts
          ATOMS_PER_TOKEN,
          WIDTH,       \* BUCKET_MS of the interval
          MAX_TRADES,  \* rows read of each table
          POINTS,      \* candles of a sparkline
          DAY,         \* DAY_MS
          Lag,         \* how long a transaction of the worker takes
          MaxTime, MaxBlocks, MaxReorgs

-----------------------------------------------------------------------------
(* ohlc.ts *)

unitPriceSats(t) == IF t.atoms <= 0 THEN 0 ELSE (t.sats * PRECISION) \div t.atoms
Bucket(time) == (time \div WIDTH) * WIDTH
Prices(s) == [i \in DOMAIN s |-> unitPriceSats(s[i])]
Tokens(s) == FoldLeft(LAMBDA n, t : n + t.atoms \div ATOMS_PER_TOKEN, 0, s)

(* Array.prototype.sort by time, which keeps the order of equals. *)
ByTime(trades) ==
  LET order == SetToSortSeq(DOMAIN trades, LAMBDA i, j :
                 \/ trades[i].at < trades[j].at
                 \/ trades[i].at = trades[j].at /\ i < j)
  IN  [k \in DOMAIN order |-> trades[order[k]]]

slots(sorted, b) == SelectSeq(sorted, LAMBDA t : Bucket(t.at) = b)

Candle(b, s) ==
  LET p == Prices(s)
  IN  [at |-> b, open |-> Head(p), close |-> Last(p), high |-> Max(ToSet(p)),
       low |-> Min(ToSet(p)), volume |-> Tokens(s), trades |-> Len(s)]
Flat(b, price) ==
  [at |-> b, open |-> price, close |-> price, high |-> price, low |-> price,
   volume |-> 0, trades |-> 0]

bucketTrades(trades) ==
  LET sorted == SelectSeq(ByTime(trades), LAMBDA t : unitPriceSats(t) > 0)
      first == Bucket(Head(sorted).at)
      count == (Bucket(Last(sorted).at) - first) \div WIDTH + 1
      next(candles, k) ==
        LET b == first + (k - 1) * WIDTH
            s == slots(sorted, b)
        IN  Append(candles, IF s = <<>> THEN Flat(b, Last(candles).close) ELSE Candle(b, s))
  IN  IF sorted = <<>> THEN <<>>
      ELSE FoldLeft(next, <<>>, [k \in 1 .. count |-> k])

summarize(candles) ==
  [last |-> Last(candles).close, open |-> Head(candles).open,
   high |-> Max({candles[i].high : i \in DOMAIN candles}),
   low |-> Min({candles[i].low : i \in DOMAIN candles}),
   volume |-> FoldLeft(LAMBDA n, c : n + c.volume, 0, candles),
   trades |-> FoldLeft(LAMBDA n, c : n + c.trades, 0, candles)]
-----------------------------------------------------------------------------
VARIABLES clock, tip,
          fills,     \* coveV3MarketTrades: the canonical rows
          events,    \* coveV3Events: the mints and redemptions of the chain
          written,   \* trades written so far
          reorgs,    \* blocks and trades taken back so far
          view       \* a viewer's chart: not asked for, half read, or on screen

vars == <<clock, tip, fills, events, written, reorgs, view>>

NoChart == [phase |-> "none", from |-> 0, reorgs |-> 0, rows |-> <<>>, truncated |-> FALSE]

Init ==
  /\ clock = 1 /\ tip = 0
  /\ fills = {} /\ events = {}
  /\ written = 0 /\ reorgs = 0
  /\ view = NoChart

(* The n-th trade that is written. *)
Row(n, height, at) ==
  [id |-> n, atoms |-> Deals[n].atoms, sats |-> Deals[n].sats,
   height |-> height, at |-> at]
Now == {t \in clock - Lag .. clock : t > 0}

(* persistBlock: the trades of the next block, all at one time, after that *)
(* of the block before.                                                    *)
IndexBlock ==
  /\ tip < MaxBlocks
  /\ tip' = tip + 1
  /\ \E n \in 0 .. 2, at \in Now :
       /\ written + n <= Len(Deals)
       /\ \A e \in events : e.at <= at
       /\ events' = events \cup {Row(written + i, tip + 1, at) : i \in 1 .. n}
       /\ written' = written + n
  /\ UNCHANGED <<clock, fills, reorgs, view>>

(* ensureTrade: a fill of some block, found by this reconciliation or one  *)
(* long after the block; a fill confirmed again gets the time of that, so  *)
(* that it is as good as another.                                          *)
EnsureTrade ==
  /\ written < Len(Deals)
  /\ \E h \in 1 .. tip, at \in Now : fills' = fills \cup {Row(written + 1, h, at)}
  /\ written' = written + 1
  /\ UNCHANGED <<clock, tip, events, reorgs, view>>

(* The newest block is disconnected: its events are deleted. *)
Rollback ==
  /\ tip > 0 /\ reorgs < MaxReorgs
  /\ tip' = tip - 1
  /\ events' = {e \in events : e.height < tip}
  /\ reorgs' = reorgs + 1
  /\ UNCHANGED <<clock, fills, written, view>>

(* ... and the next reconciliation takes back the fills that were in it. *)
Unconfirm ==
  /\ \E f \in fills : f.height > tip /\ fills' = fills \ {f}
  /\ reorgs' = reorgs + 1
  /\ UNCHANGED <<clock, tip, events, written, view>>

Tick ==
  /\ clock < MaxTime
  /\ clock' = clock + 1
  /\ UNCHANGED <<tip, fills, events, written, reorgs, view>>

(* The orders in which a query by height may return its rows; the newest   *)
(* of them are kept, oldest first.                                         *)
ByHeight(S) == {s \in SetToSeqs(S) : \A i, j \in DOMAIN s : i < j => s[i].height <= s[j].height}
Newest(s) == IF Len(s) <= MAX_TRADES THEN s ELSE SubSeq(s, Len(s) - MAX_TRADES + 1, Len(s))

ReadFills ==
  /\ view.phase = "none"
  /\ \E s \in ByHeight(fills) :
       view' = [phase |-> "fills", rows |-> Newest(s), from |-> clock, reorgs |-> reorgs,
                truncated |-> Len(s) >= MAX_TRADES]
  /\ UNCHANGED <<clock, tip, fills, events, written, reorgs>>

(* The second query, and the answer: market rows first, then the curve's.  *)
ReadEvents ==
  /\ view.phase = "fills"
  /\ \E s \in ByHeight(events) :
       view' = [view EXCEPT !.phase = "shown", !.rows = @ \o Newest(s),
                            !.truncated = @ \/ Len(s) >= MAX_TRADES]
  /\ UNCHANGED <<clock, tip, fills, events, written, reorgs>>

Next == IndexBlock \/ EnsureTrade \/ Rollback \/ Unconfirm \/ Tick \/ ReadFills \/ ReadEvents

Spec == Init /\ [][Next]_vars
-----------------------------------------------------------------------------
(* The other two answers, of the tables as they are *)

LastOf(s, n) == IF Len(s) <= n THEN s ELSE SubSeq(s, Len(s) - n + 1, Len(s))
(* sparklines: the closes of the last candles, over all rows. *)
sparkline(s) ==
  LET last == LastOf(bucketTrades(s), POINTS)
  IN  [i \in DOMAIN last |-> last[i].close]
lastPrice(s) == unitPriceSats(Last(ByTime(s)))

(* market: the header's numbers, from the fills alone. *)
header(s) ==
  [high |-> Max(ToSet(Prices(s))), low |-> Min(ToSet(Prices(s))), trades |-> Len(s),
   volume24h |-> FoldLeft(LAMBDA n, t : n + t.sats, 0,
                          SelectSeq(s, LAMBDA t : clock - t.at <= DAY))]
-----------------------------------------------------------------------------
(* Properties *)

Distinct(s) == \A i, j \in DOMAIN s : s[i].at = s[j].at => i = j

(* A chart is one row of buckets without a gap, aligned to the epoch;      *)
(* every trade read is in exactly one of them and none is counted that was *)
(* not read; prices stay within their bucket's range, and a quiet bucket   *)
(* is flat at the close before it.                                         *)
ChartIsTrades ==
  LET c == bucketTrades(view.rows)
      traded(i) == {t \in ToSet(view.rows) : Bucket(t.at) = c[i].at}
  IN  view.phase = "shown" =>
      /\ (c = <<>>) <=> (view.rows = <<>>)
      /\ \A i \in DOMAIN c :
           /\ c[i].at % WIDTH = 0 /\ (i > 1 => c[i].at = c[i-1].at + WIDTH)
           /\ c[i].trades = Cardinality(traded(i))
           /\ {c[i].open, c[i].close} \subseteq c[i].low .. c[i].high
           /\ IF traded(i) = {} THEN c[i].low = c[i].high /\ c[i].open = c[i-1].close
              ELSE {c[i].low, c[i].high} \subseteq {unitPriceSats(t) : t \in traded(i)}
      /\ c # <<>> => /\ summarize(c).trades = Len(view.rows)
                     /\ summarize(c).volume = Tokens(view.rows)

(* "Two viewers loading the chart a minute apart see identical candles"    *)
(* (ohlc.ts): of what is on screen, a bucket that had ended a transaction's*)
(* length before it was asked for is what a new request would return,      *)
(* unless blocks or trades were taken back since or the history is cut;    *)
(* its open and close only if no two trades have one time.                 *)
FinishedStands ==
  (view.phase = "shown" /\ view.reorgs = reorgs /\ ~view.truncated) =>
    \A m \in ByHeight(fills), e \in ByHeight(events) :
      LET old == ToSet(bucketTrades(view.rows))
          new == ToSet(bucketTrades(Newest(m) \o Newest(e)))
          finished(x) == x.at + WIDTH + Lag <= view.from
          numbers(x) == IF x.trades = 0 THEN <<>> ELSE <<x.high, x.low, x.volume, x.trades>>
      IN  (Len(m) < MAX_TRADES /\ Len(e) < MAX_TRADES) =>
            /\ \A y \in new : finished(y) /\ y.trades > 0 =>
                 \E x \in old : x.at = y.at
            /\ \A x \in old : finished(x) =>
                 \E y \in new : /\ x.at = y.at /\ numbers(x) = numbers(y)
                                /\ Distinct(m \o e) => <<x.open, x.close>> = <<y.open, y.close>>

(* "A row and its token page never disagree" (sparklines): the last closes *)
(* of the chart and the last price, unless the history is cut or trades    *)
(* have one time.  The header's range and count are the chart's as long as *)
(* there are only fills.  No viewer stands in the way of a writer, so that *)
(* the tables take all their values before the first chart is asked for.   *)
PagesAgree ==
  view.phase = "none" => \A m \in ByHeight(fills), e \in ByHeight(events) :
    LET s == m \o e
        c == bucketTrades(Newest(m) \o Newest(e))
    IN  (s # <<>> /\ Cardinality(fills) < MAX_TRADES /\ Cardinality(events) < MAX_TRADES) =>
          /\ Distinct(s) =>
               /\ sparkline(s) = [i \in DOMAIN LastOf(c, POINTS) |-> LastOf(c, POINTS)[i].close]
               /\ lastPrice(s) = summarize(c).last
          /\ e = <<>> => /\ header(m).high = summarize(c).high
                         /\ header(m).low = summarize(c).low
                         /\ header(m).trades = summarize(c).trades
=============================================================================
