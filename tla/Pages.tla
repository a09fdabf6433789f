-------------------------------- MODULE Pages --------------------------------
(***************************************************************************)
(* What the web pages show of the server's state.  Every page loads its    *)
(* data in React effects: an effect runs when one of its dependencies      *)
(* changes, its cleanup runs first, and the answers of its requests come   *)
(* back later, in any order, or not at all.  The effects of the app differ *)
(* in few ways, which a record per view states:                            *)
(*   byBlock    runs again when the indexed block changes                  *)
(*   bySubject  runs again when what it is about changes (token, interval, *)
(*              wallet, budget)                                            *)
(*   guarded    an answer that comes after the cleanup is dropped          *)
(*   again      "no", "retry" (a failed request is repeated after a pause) *)
(*              or "poll" (a request is sent at every tick of an interval) *)
(*   waits      the request is sent after a pause the cleanup cancels      *)
(*   clears     a failed request empties the view                          *)
(*   loads      a new subject shows the loading state                      *)
(*   token      the server answers only once the token is indexed          *)
(* A behaviour is about one view, chosen at the start, together with the   *)
(* shared poll of the indexed block (lib/use-indexed-block.ts).  React's   *)
(* render, commit and cleanup after a state change are one step with it.   *)
(***************************************************************************)
EXTENDS Naturals, Sequences, SequencesExt

CONSTANTS Subjects,     \* what a view can be about; a user moves among them
          MaxVersion,   \* bound: versions of the server's data
          MaxInFlight,  \* bound: requests of the view under way
          MaxFaults,    \* bound: requests that fail
          MaxPicks      \* bound: changes of the subject

VARIABLES view,     \* the view of this behaviour
          now,      \* the version of the server's data; a token exists from 1
          polls,    \* answers of /api/v3/status under way: the version each read
          seen,     \* the indexed block the page knows of
          subject,  \* what the view is about now
          net,      \* the view's requests under way
          timer,    \* a retry, or the first request of a view that waits, is due
          shown,    \* what is on screen: a set, empty or one [of, ver]
          loading,  \* the loading state is shown
          faults, picks
vars == <<view, now, polls, seen, subject, net, timer, shown, loading, faults, picks>>

page == <<subject, net, timer, shown, loading>>

-----------------------------------------------------------------------------
(* The views.                                                              *)
Plain == [byBlock |-> FALSE, bySubject |-> FALSE, guarded |-> FALSE, again |-> "no",
          waits |-> FALSE, clears |-> FALSE, loads |-> FALSE, token |-> FALSE]

TokenDetail == [Plain EXCEPT !.byBlock = TRUE, !.bySubject = TRUE, !.guarded = TRUE,
                             !.again = "retry", !.token = TRUE]
MintQuote   == [Plain EXCEPT !.bySubject = TRUE, !.waits = TRUE, !.clears = TRUE,
                             !.token = TRUE]
Balances    == [Plain EXCEPT !.byBlock = TRUE, !.bySubject = TRUE]
OpenAsks    == [Plain EXCEPT !.byBlock = TRUE, !.clears = TRUE]
Portfolio   == [Plain EXCEPT !.byBlock = TRUE, !.bySubject = TRUE]
TokenInfo   == [Plain EXCEPT !.byBlock = TRUE, !.bySubject = TRUE]
MarketTokens   == [Plain EXCEPT !.byBlock = TRUE]
MarketListings == [Plain EXCEPT !.byBlock = TRUE]
MarketHeader == [Plain EXCEPT !.byBlock = TRUE, !.bySubject = TRUE, !.guarded = TRUE]
Candles     == [Plain EXCEPT !.byBlock = TRUE, !.bySubject = TRUE, !.guarded = TRUE,
                             !.clears = TRUE, !.loads = TRUE]
Sparklines  == [Plain EXCEPT !.bySubject = TRUE, !.guarded = TRUE, !.clears = TRUE,
                             !.loads = TRUE]
PickerList  == [Plain EXCEPT !.bySubject = TRUE, !.guarded = TRUE]
TxState     == [Plain EXCEPT !.guarded = TRUE, !.again = "poll"]
FeeRates    == [Plain EXCEPT !.guarded = TRUE, !.again = "poll"]

(* Views that behave alike are one here: the portfolio, its token facts    *)
(* and the balances, the two lists of the market page, the transaction and *)
(* the fee rates.                                                          *)
Views == {TokenDetail, MintQuote, Balances, OpenAsks, Portfolio, TokenInfo, MarketTokens,
          MarketListings, MarketHeader, Candles, Sparklines, PickerList, TxState, FeeRates}

-----------------------------------------------------------------------------
(* A request: what it asks about, whether the run of the effect that sent  *)
(* it is still the current one, and, once it is back, what came of it.     *)
Request(s) == [of |-> s, live |-> TRUE, back |-> FALSE, ok |-> FALSE, ver |-> 0]

(* The cleanup marks what the previous run of the effect has under way.    *)
Cleanup(reqs) == [i \in DOMAIN reqs |-> [reqs[i] EXCEPT !.live = FALSE]]

(* A new subject shows the loading state of the charts.                    *)
Loads(s) == view.loads /\ s # subject

(* A run of the effect: the cleanup of the previous one, then its body.  A *)
(* view that waits (the mint quote) is emptied at once by an empty budget. *)
Effect(s) ==
  /\ subject' = s
  /\ Len(net) < MaxInFlight
  /\ net' = IF view.waits THEN Cleanup(net) ELSE Append(Cleanup(net), Request(s))
  /\ timer' = (view.waits /\ s # "")
  /\ loading' = (loading \/ Loads(s))
  /\ shown' = IF view.waits /\ s = "" THEN {} ELSE shown

(* The user opens another token or interval, another wallet connects, the  *)
(* budget is typed over.                                                   *)
Pick(s) ==
  /\ view.bySubject /\ s # subject
  /\ view.waits \/ s # ""
  /\ picks < MaxPicks
  /\ picks' = picks + 1
  /\ Effect(s)
  /\ UNCHANGED <<view, now, polls, seen, faults>>

(* The pause of a retry, or before a quote, is over.                       *)
TimerFires ==
  /\ timer /\ Len(net) < MaxInFlight
  /\ timer' = FALSE
  /\ net' = Append(net, Request(subject))
  /\ UNCHANGED <<view, now, polls, seen, subject, shown, loading, faults, picks>>

(* A tick of setInterval.                                                  *)
Poll ==
  /\ view.again = "poll" /\ Len(net) < MaxInFlight
  /\ net' = Append(net, Request(subject))
  /\ UNCHANGED <<view, now, polls, seen, subject, timer, shown, loading, faults, picks>>

(* The server reads its data for a request ...                             *)
Served(i) ==
  /\ ~net[i].back
  /\ net' = [net EXCEPT ![i] = [@ EXCEPT !.back = TRUE, !.ver = now,
                                         !.ok = ~view.token \/ now > 0]]
  /\ UNCHANGED <<view, now, polls, seen, subject, timer, shown, loading, faults, picks>>

(* ... or the request fails on the way.                                    *)
Failed(i) ==
  /\ ~net[i].back /\ faults < MaxFaults
  /\ faults' = faults + 1
  /\ net' = [net EXCEPT ![i].back = TRUE]
  /\ UNCHANGED <<view, now, polls, seen, subject, timer, shown, loading, picks>>

(* Mutant: a failed request is not asked again.                            *)
RetriesNever(r) == FALSE

(* An answer of a run that was cleaned up is dropped if the view is        *)
(* guarded; a failed one is asked again if the view retries.               *)
Used(r) == r.live \/ ~view.guarded
Retries(r) == ~r.ok /\ r.live /\ view.again = "retry"

Answered(i) ==
  LET r == net[i] IN
  /\ r.back
  /\ net' = RemoveAt(net, i)
  /\ shown' = IF Used(r) /\ r.ok THEN {[of |-> r.of, ver |-> r.ver]}
              ELSE IF Used(r) /\ view.clears THEN {} ELSE shown
  /\ loading' = (loading /\ ~Used(r))
  /\ timer' = (timer \/ Retries(r))
  /\ UNCHANGED <<view, now, polls, seen, subject, faults, picks>>

-----------------------------------------------------------------------------
(* The shared poll of the indexed block; the last answer wins, and a view  *)
(* that depends on the block runs its effect when the value changes.       *)
StatusPoll ==
  /\ view.byBlock /\ Len(polls) < MaxInFlight
  /\ polls' = Append(polls, now)
  /\ UNCHANGED <<view, now, seen, page, faults, picks>>

StatusAnswered(i) ==
  /\ polls' = RemoveAt(polls, i)
  /\ seen' = polls[i]
  /\ IF polls[i] # seen THEN Effect(subject) ELSE UNCHANGED page
  /\ UNCHANGED <<view, now, faults, picks>>

(* A block is indexed or replaced; a transaction or the mempool moves.     *)
ServerMoves ==
  /\ now < MaxVersion
  /\ now' = now + 1
  /\ UNCHANGED <<view, polls, seen, page, faults, picks>>

Init ==
  /\ view \in Views
  /\ now \in {0, 1}
  /\ polls = << >> /\ seen = 0
  /\ subject = (IF view.waits THEN "" ELSE CHOOSE s \in Subjects : s # "")
  /\ net = IF view.waits THEN << >> ELSE <<Request(subject)>>
  /\ timer = FALSE
  /\ shown = {} /\ loading = view.loads
  /\ faults = 0 /\ picks = 0

Next ==
  \/ ServerMoves \/ TimerFires \/ Poll \/ StatusPoll
  \/ \E s \in Subjects : Pick(s)
  \/ \E i \in DOMAIN net : Served(i) \/ Failed(i) \/ Answered(i)
  \/ \E i \in DOMAIN polls : StatusAnswered(i)

(* The browser fires its timers, and every request is answered or rejected *)
(* sooner or later.  Users, blocks and failures need not come.             *)
Fairness ==
  /\ WF_vars(TimerFires) /\ WF_vars(Poll) /\ WF_vars(StatusPoll)
  /\ WF_vars(\E i \in DOMAIN net : Served(i))
  /\ WF_vars(\E i \in DOMAIN net : Answered(i))
  /\ WF_vars(\E i \in DOMAIN polls : StatusAnswered(i))

-----------------------------------------------------------------------------
Live == {i \in DOMAIN net : net[i].live}

(* Types; and a guarded view that does not poll has at most one request of *)
(* its current run under way, so its answers cannot race.                  *)
TypeOK ==
  /\ view \in Views /\ now \in 0..MaxVersion /\ seen \in 0..now /\ subject \in Subjects
  /\ \A i \in DOMAIN polls : polls[i] \in 0..now
  /\ \A x \in shown : x.of \in Subjects /\ x.ver \in 0..now
  /\ view.guarded /\ view.again # "poll" =>
       \A i, j \in Live : i = j

(* What a guarded view shows of its subject never steps back to an older   *)
(* version, in whatever order the answers of its runs arrive.              *)
Forward == view.guarded /\ view.again # "poll" =>
             \A x \in shown, y \in shown' : x.of = y.of => x.ver <= y.ver
ForwardOnly == [][Forward]_vars

(* The chart and the sparklines, once they stop loading, show the subject  *)
(* selected now and not the one selected before.                           *)
RightSubject == view.guarded /\ view.loads /\ ~loading => \A x \in shown : x.of = subject

(* A view that retries or polls ends up showing the server's data as they  *)
(* are: the token page of a launch that is indexed after the page opened,  *)
(* the outcome of a transaction, the fee rates.                            *)
ShowsLatest ==
  <>[](view.again # "no" /\ (view.token => now > 0) =>
         shown = {[of |-> subject, ver |-> now]})
=============================================================================
