----------------------------- MODULE AppSessions -----------------------------
(***************************************************************************)
(* The transaction sessions of the V3 app: build, submit and broadcast     *)
(* along the unconfirmed chain of vault transitions, and their             *)
(* reconciliation by the worker.                                           *)
(*                                                                         *)
(*   packages/cove-app/src/service.ts      V3AppService                    *)
(*   packages/cove-app/src/tx-session.ts                                   *)
(*                                                                         *)
(* A session fixes the digest of its unsigned transaction, so a session is *)
(* also its transaction, and a transition's output is the vault its        *)
(* successor spends.  Amounts, fees, scripts and funding only refuse a     *)
(* request.  The Guardian is reduced to its answer: whether its view shows *)
(* it the vault the transaction spends, and whether the signing journal    *)
(* lets it sign (GuardianSigning has the rest).                            *)
(***************************************************************************)
EXTENDS Integers, FiniteSets, Maps

CONSTANTS MaxSessions, \* bound on sessions, numbered as they are built
          Launch,      \* the vault of the token, as it was confirmed
          NoVault,     \* what a session that does not move it spends
          MaxPending,  \* MAX_PENDING_BACKING_CHAIN
          Remote,      \* the Guardian is a service with a view of its own
          MaxSubmits,  \* bound on submissions at a time
          MaxUpsets    \* bound on what goes wrong

Session == 1 .. MaxSessions

ASSUME SessionAssumption ==
  /\ {Launch, NoVault} \cap Session = {}
  /\ Launch # NoVault
  /\ {MaxSessions, MaxPending, MaxSubmits, MaxUpsets} \subseteq Nat
  /\ Remote \in BOOLEAN

VARIABLES sessions,  \* cove_v3_app_transactions: session -> [status, spends]
          submits,   \* submissions under way: [op, session]
          journal,   \* the Guardian's reservations: vault -> session
          mempool,   \* transactions Core holds
          chain,     \* transactions on the active chain
          idx,       \* transactions the index has seen confirmed
          gone,      \* the session the worker found gone and is about to fail
          moves,     \* evictions and reorgs,
          faults,    \* and deaths, lapses and calls that failed, so far
          freed,     \* vaults whose reservation went from a live transition
          spoiled    \* sessions whose row a fault or a race left behind

world == <<mempool, chain, moves>>
history == <<freed, spoiled>>
vars == <<sessions, submits, journal, gone, world, idx, faults, history>>

Vault == Session \cup {Launch}
(* WALLET_SIGNED, REORGED and EXPIRED are never written. *)
Status == {"BUILT", "BROADCAST", "CONFIRMED", "FAILED"}
Row == [status : Status, spends : Vault \cup {NoVault}]

Init ==
  /\ sessions = Nothing
  /\ submits = {}
  /\ journal = Nothing
  /\ mempool = {}
  /\ chain = {}
  /\ idx = {}
  /\ gone = {}
  /\ moves = 0
  /\ faults = 0
  /\ freed = {}
  /\ spoiled = {}

(* DEPLOY and TRANSFER sessions do not move the vault. *)
Plain == {s \in DOMAIN sessions : sessions[s].spends = NoVault}

(* At most MaxUpsets of them. *)
Upset == moves + faults < MaxUpsets
Fault == Upset /\ faults' = faults + 1

(* Core knows a transaction, in its mempool or in a block. *)
Known == mempool \cup chain

Children(v, S) == {s \in S : sessions[s].spends = v}

(* loadConfirmedBacking: the vault of the last transition indexed. *)
ConfirmedBacking ==
  {v \in Vault : /\ v = Launch \/ v \in idx \ Plain
                 /\ Children(v, idx) = {}}

(* findBroadcastSpendOfBacking: some session that is BROADCAST. *)
BroadcastSpend(v) ==
  {s \in DOMAIN sessions : sessions[s].spends = v /\ sessions[s].status = "BROADCAST"}

(* One turn of followPendingBacking: on, to a transition Core returns,     *)
(* unless this is where to stop or getRawTransaction fails.                *)
Follow(v, stopAt) ==
  IF v = stopAt THEN {v} ELSE {v} \cup (BroadcastSpend(v) \cap Known)

(* Its MAX_PENDING_BACKING_CHAIN turns, from the confirmed vault. *)
FollowPendingBacking(stopAt) ==
  {v \in Vault :
     \E path \in [0 .. MaxPending -> Vault] :
       /\ path[0] \in ConfirmedBacking
       /\ \A d \in 1 .. MaxPending : path[d] \in Follow(path[d - 1], stopAt)
       /\ v = path[MaxPending]}

-----------------------------------------------------------------------------
NewSession == Cardinality(DOMAIN sessions) + 1

(* buildBackingBuy, buildRedeem: on the pending tip, validated, not signed. *)
BuildTransition(s) ==
  /\ s = NewSession
  /\ \E v \in FollowPendingBacking(NoVault) :
       sessions' = PutAt(sessions, s, [status |-> "BUILT", spends |-> v])
  /\ UNCHANGED <<submits, journal, gone, world, idx, faults>>

(* buildLaunch, buildTransfer. *)
BuildPlain(s) ==
  /\ s = NewSession
  /\ sessions' = PutAt(sessions, s, [status |-> "BUILT", spends |-> NoVault])
  /\ UNCHANGED <<submits, journal, gone, world, idx, faults>>

Ops == {"sign", "release", "accept", "send", "mark"}
Step(op, s) == [op |-> op, session |-> s]
SetStatus(s, status) == [sessions EXCEPT ![s].status = status]

Continue(c, op) == submits' = (submits \ {c}) \cup {Step(op, c.session)}
Return(c) == submits' = submits \ {c}

(* submitLaunch, submitTransfer: the wallet has signed everything. *)
SubmitPlain(s) ==
  /\ s \in Plain
  /\ sessions[s].status \notin {"BROADCAST", "CONFIRMED"}
  /\ submits' = submits \cup {Step("accept", s)}
  /\ UNCHANGED <<sessions, journal, gone, world, idx, faults>>

(* submitBackingBuy, submitRedeem: loadBackingAt finds the vault the       *)
(* session was built on, confirmed or pending, or the Guardian will refuse *)
(* the view it is shown.                                                   *)
SubmitTransition(s) ==
  /\ s \in DOMAIN sessions \ Plain
  /\ sessions[s].status \notin {"BROADCAST", "CONFIRMED"}
  /\ sessions[s].spends \in FollowPendingBacking(sessions[s].spends)
  /\ submits' = submits \cup {Step("sign", s)}
  /\ UNCHANGED <<sessions, journal, gone, world, idx, faults>>

(* Mutant: the journal is not asked. *)
GuardianAcceptsAny(s) == Remote => sessions[s].spends \in ConfirmedBacking

(* The Guardian: a remote one looks at the confirmed vault itself.  It     *)
(* signs if the journal has no other digest for this vault.                *)
GuardianAccepts(s) ==
  LET v == sessions[s].spends
  IN  /\ Remote => v \in ConfirmedBacking
      /\ v \in DOMAIN journal => journal[v] = s

(* The vault is reserved, then signed for; a signer that throws leaves a   *)
(* reservation of its own to release, and one it found to its owner.       *)
GuardianSigns(c) ==
  LET v == sessions[c.session].spends
  IN  /\ c.op = "sign"
      /\ \/ /\ GuardianAccepts(c.session)
            /\ journal' = PutAt(journal, v, c.session)
            /\ \/ Continue(c, "accept") /\ UNCHANGED faults
               \/ /\ Fault
                  /\ IF v \in DOMAIN journal THEN Return(c) ELSE Continue(c, "release")
         \/ /\ ~GuardianAccepts(c.session)
            /\ UNCHANGED <<journal, faults>> /\ Return(c)
      /\ UNCHANGED <<sessions, gone, world, idx>>

(* The release names the vault and the digest. *)
GuardianReleases(c) ==
  LET v == sessions[c.session].spends
  IN  /\ c.op = "release"
      /\ journal' = Del(journal, {w \in {v} \cap DOMAIN journal : journal[w] = c.session})
      /\ Return(c)
      /\ UNCHANGED <<sessions, gone, world, idx, faults>>

(* s and what is built on it: in every set that has s and, with a          *)
(* transaction, its child.                                                 *)
Descendants(s) ==
  {t \in Known :
     \A S \in SUBSET Known :
       s \in S /\ {u \in Known : sessions[u].spends \in S} \subseteq S => t \in S}

(* What Core looks at.  A better fee replaces a rival in the mempool and   *)
(* all that is built on it; a worse one, or any other policy, refuses.     *)
Rivals(s) == IF s \in Plain THEN {} ELSE Children(sessions[s].spends, Known) \ {s}

Acceptable(s) ==
  /\ s \notin Known
  /\ s \notin Plain => sessions[s].spends \in Known \cup {Launch}
  /\ Rivals(s) \subseteq mempool

(* broadcast: testmempoolaccept, then sendrawtransaction. *)
TestMempoolAccept(c) ==
  /\ c.op = "accept"
  /\ \/ Acceptable(c.session) /\ Continue(c, "send")
     \/ Return(c)
  /\ UNCHANGED <<sessions, journal, gone, world, idx, faults>>

SendRawTransaction(c) ==
  /\ c.op = "send"
  /\ \/ /\ Acceptable(c.session) \/ c.session \in mempool
        /\ mempool' = (mempool \ UNION {Descendants(r) : r \in Rivals(c.session)})
                         \cup {c.session}
        /\ Continue(c, "mark")
     \/ UNCHANGED mempool /\ Return(c)
  /\ UNCHANGED <<sessions, journal, gone, chain, moves, idx, faults>>

(* updateTxSession, whatever the row says by now. *)
MarkBroadcast(c) ==
  /\ c.op = "mark"
  /\ sessions' = SetStatus(c.session, "BROADCAST")
  /\ Return(c)
  /\ UNCHANGED <<journal, gone, world, idx, faults>>

(* The process that serves the request dies. *)
SubmitDies(c) ==
  /\ Fault
  /\ Return(c)
  /\ UNCHANGED <<sessions, journal, gone, world, idx>>

Submit(s) ==
  Cardinality(submits) < MaxSubmits /\ (SubmitPlain(s) \/ SubmitTransition(s))

Proceed(c) ==
  \/ GuardianSigns(c) \/ GuardianReleases(c)
  \/ TestMempoolAccept(c) \/ SendRawTransaction(c) \/ MarkBroadcast(c)

-----------------------------------------------------------------------------
(* The worker's tick: the index catches up, ... *)
Index ==
  /\ gone = {}
  /\ idx' = chain
  /\ UNCHANGED <<sessions, submits, journal, gone, world, faults>>

(* ... and reconcileAppSessions takes each BROADCAST session.  The worker  *)
(* does one thing after the other, so the index does not move between the  *)
(* look for a session's event and the update.                              *)
Confirm(s) ==
  /\ gone = {}
  /\ s \in idx
  /\ sessions[s].status = "BROADCAST"
  /\ sessions' = SetStatus(s, "CONFIRMED")
  /\ UNCHANGED <<submits, journal, gone, world, idx, faults>>

(* Mutant: the error of getRawTransaction is swallowed. *)
LookUpSwallows(s) ==
  /\ gone = {}
  /\ s \in DOMAIN sessions \ (idx \cup Known)
  /\ sessions[s].status = "BROADCAST"
  /\ UNCHANGED <<sessions, submits, journal, gone, world, idx, faults>>

(* getRawTransaction does not return the transaction, or fails. *)
LookUp(s) ==
  /\ gone = {}
  /\ s \in DOMAIN sessions \ idx
  /\ sessions[s].status = "BROADCAST"
  /\ \/ s \notin Known /\ UNCHANGED faults
     \/ Fault
  /\ gone' = {s}
  /\ UNCHANGED <<sessions, submits, journal, world, idx>>

(* Mutant: the error code is stored as the status. *)
FailErrorCode(s) ==
  /\ s \in gone
  /\ sessions' = SetStatus(s, "MEMPOOL_EVICTED")
  /\ gone' = {}
  /\ UNCHANGED <<submits, journal, world, idx, faults>>

(* updateTxSession after the await, whatever has happened since. *)
Fail(s) ==
  /\ s \in gone
  /\ sessions' = SetStatus(s, "FAILED")
  /\ gone' = {}
  /\ UNCHANGED <<submits, journal, world, idx, faults>>

(* The worker dies, and its successor starts the tick again. *)
WorkerDies ==
  /\ gone # {}
  /\ Fault
  /\ gone' = {}
  /\ UNCHANGED <<sessions, submits, journal, world, idx>>

Reconcile(s) == Confirm(s) \/ LookUp(s)

-----------------------------------------------------------------------------
(* Bitcoin and the clock. *)

Move == Upset /\ moves' = moves + 1

Mine(s) ==
  /\ s \in mempool
  /\ s \in Plain \/ sessions[s].spends \in chain \cup {Launch}
  /\ mempool' = mempool \ {s}
  /\ chain' = chain \cup {s}
  /\ UNCHANGED <<sessions, submits, journal, gone, moves, idx, faults>>

Evict(s) ==
  /\ s \in mempool
  /\ Move
  /\ mempool' = mempool \ Descendants(s)
  /\ UNCHANGED <<sessions, submits, journal, gone, chain, idx, faults>>

(* The last transaction of the chain goes back to the mempool, or is lost. *)
Reorg(s) ==
  /\ s \in chain
  /\ Children(s, chain) = {}
  /\ Move
  /\ chain' = chain \ {s}
  /\ mempool' \in {mempool \cup {s}, mempool \ Descendants(s)}
  /\ UNCHANGED <<sessions, submits, journal, gone, idx, faults>>

(* A reservation outlives SIGNING_JOURNAL_TTL_MS. *)
ReservationLapses(v) ==
  /\ v \in DOMAIN journal
  /\ Fault
  /\ journal' = Del(journal, {v})
  /\ UNCHANGED <<sessions, submits, gone, world, idx>>

-----------------------------------------------------------------------------
(* A transition that is BROADCAST, or signed and on its way to be.         *)
Live(s) ==
  \/ sessions[s].status = "BROADCAST"
  \/ \E c \in submits : c.session = s /\ c.op \in {"accept", "send", "mark"}

(* History: reservations that went while their holder was live; and        *)
(* sessions that were sent but not marked, that a call failed to find, or  *)
(* that were sent between the look for them and the update.                *)
Remember ==
  /\ freed' = freed \cup {v \in DOMAIN journal \ DOMAIN journal' : Live(journal[v])}
  /\ spoiled' = spoiled
       \cup {s \in DOMAIN sessions :
              Step("mark", s) \in submits \ submits' /\ sessions'[s].status # "BROADCAST"}
       \cup (gone' \cap Known)
       \cup (gone \cap mempool')

Moves ==
  \/ \E s \in Session : BuildTransition(s) \/ BuildPlain(s) \/ Submit(s)
  \/ \E c \in submits : Proceed(c) \/ SubmitDies(c)
  \/ Index
  \/ \E s \in Session : Reconcile(s) \/ Fail(s)
  \/ WorkerDies
  \/ \E s \in Session : Mine(s) \/ Evict(s) \/ Reorg(s)
  \/ \E v \in Vault : ReservationLapses(v)

Next == Moves /\ Remember

Spec == Init /\ [][Next]_vars

(* The worker polls for ever and looks at each BROADCAST session in every  *)
(* tick, what was sent is marked, miners mine.                             *)
Fairness ==
  /\ WF_vars(Index /\ Remember)
  /\ WF_vars((\E s \in gone : Fail(s)) /\ Remember)
  /\ \A s \in Session :
       /\ WF_vars(Reconcile(s) /\ Remember)
       /\ WF_vars(Mine(s) /\ Remember)
       /\ WF_vars((\E c \in submits : c.session = s /\ MarkBroadcast(c)) /\ Remember)

FairSpec == Spec /\ Fairness

-----------------------------------------------------------------------------
(* Type correctness. *)
TypeOK ==
  /\ IsMap(sessions, Session, Row)
  /\ submits \subseteq {Step(op, s) : op \in Ops, s \in DOMAIN sessions}
  /\ IsMap(journal, Vault, Session)
  /\ mempool \subseteq DOMAIN sessions
  /\ chain \subseteq DOMAIN sessions
  /\ idx \subseteq DOMAIN sessions
  /\ mempool \cap chain = {}
  /\ gone \subseteq DOMAIN sessions

(* The chain of pending transitions cannot fork (tx-session.ts, line 101):  *)
(* one at most of the sessions built on a vault is BROADCAST, whatever is  *)
(* evicted, reorged, resubmitted, refused by a signer that throws or dies, *)
(* unless the vault's reservation lapsed, or was released by a request     *)
(* whose signer threw, while a transition signed under it was live.        *)
PendingCannotFork ==
  \A v \in Vault \ freed : Cardinality(BroadcastSpend(v)) <= 1

(* Following the pending chain for at most MaxPending transitions never    *)
(* queues more of them than Core relays, which is one more, as long as no  *)
(* block is disconnected.                                                  *)
PendingWithinPolicy ==
  moves = 0 => Cardinality(mempool \ Plain) <= MaxPending + 1

(* What the worker gave up is not on the network, unless a submission has  *)
(* sent it again and is about to mark it: of a session that is FAILED Core *)
(* knows the transaction only if its submission died before it marked it,  *)
(* a call failed to find it, or it was sent while the worker was about to  *)
(* fail it.                                                                *)
FailedIsGone ==
  \A s \in DOMAIN sessions \ spoiled :
    sessions[s].status = "FAILED" /\ s \in Known => Step("mark", s) \in submits

(* Every broadcast is settled one way or the other. *)
BroadcastsSettle ==
  \A s \in Session :
    []<>(s \in DOMAIN sessions => sessions[s].status # "BROADCAST")

(* What stays on the chain is confirmed in the end, unless a fault or a    *)
(* race left its row behind.                                               *)
MinedIsConfirmed ==
  \A s \in Session :
    []<>(s \in chain \ spoiled => sessions[s].status = "CONFIRMED")

(* The pending chain neither forks nor outgrows what Core relays, and what *)
(* was given up is no part of it.                                          *)
PendingChain == PendingCannotFork /\ PendingWithinPolicy /\ FailedIsGone

(* Every broadcast is settled, and as confirmed once it is mined.          *)
Settles == BroadcastsSettle /\ MinedIsConfirmed
=============================================================================
