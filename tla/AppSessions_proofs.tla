------------------------- MODULE AppSessions_proofs -------------------------
(***************************************************************************)
(* Proofs about AppSessions, for any number of sessions, submissions and   *)
(* upsets and any length of the pending chain; and about what its users    *)
(* sign (UserSigning), for any wallets, listings, coins and bounds.        *)
(***************************************************************************)
EXTENDS AppSessions, UserSigning, MapTheorems

(* Sessions are numbered as they are built. *)
Numbered == DOMAIN sessions = 1 .. Cardinality(DOMAIN sessions)

(* Only a transition asks the Guardian. *)
Guarded == {"sign", "release"}

SignsTransitions ==
  \A c \in submits : c.op \in Guarded => sessions[c.session].spends # NoVault

TypeInv == TypeOK /\ Numbered /\ SignsTransitions

-----------------------------------------------------------------------------
(* The reservation of the vault a session spends is its own. *)
Granted(s) ==
  /\ sessions[s].spends \in DOMAIN journal
  /\ journal[sessions[s].spends] = s

(* A live transition holds the reservation of its vault, unless the vault  *)
(* was freed.                                                              *)
ForkInv ==
  \A s \in DOMAIN sessions \ Plain :
    Live(s) /\ sessions[s].spends \notin freed => Granted(s)

(* What the worker is about to fail is not known to Core, unless it is     *)
(* remembered as spoiled.                                                  *)
GoneInv == FailedIsGone /\ gone \cap Known \subseteq spoiled

-----------------------------------------------------------------------------
(* The transitions among a set of sessions, and what they may spend. *)
Moving(S) == S \ Plain
Spendable(S) == Moving(S) \cup {Launch}

(* How far each vault is from Launch, with the last one mined: every       *)
(* transition stands one after what it spends and at most MaxPending + 1   *)
(* after the last one mined; the transitions Core knows are one line, the  *)
(* mined ones first.                                                       *)
Ranked(depth, top) ==
  /\ depth \in [Vault -> Nat]
  /\ depth[Launch] = 0
  /\ top \in Spendable(chain)
  /\ \A s \in Moving(DOMAIN sessions) :
       /\ sessions[s].spends \in Spendable(DOMAIN sessions)
       /\ depth[s] = depth[sessions[s].spends] + 1
       /\ depth[s] <= depth[top] + MaxPending + 1
  /\ \A s \in Moving(Known) : sessions[s].spends \in Spendable(Known)
  /\ \A s \in Moving(chain) : sessions[s].spends \in Spendable(chain)
  /\ \A s, t \in Moving(Known) : depth[s] = depth[t] => s = t
  /\ \A s \in Moving(mempool) : depth[s] > depth[top]
  /\ \A s \in Moving(chain) : depth[s] <= depth[top]
  /\ \A k \in 1 .. depth[top] : \E s \in Moving(chain) : depth[s] = k

RankInv ==
  /\ moves \in Nat
  /\ moves = 0 => /\ idx \subseteq chain
                  /\ \E depth \in [Vault -> Nat], top \in Vault : Ranked(depth, top)

-----------------------------------------------------------------------------
(* Submissions and their steps. *)
LEMMA StepFields ==
  ASSUME NEW op, NEW s PROVE Step(op, s).op = op /\ Step(op, s).session = s
  BY DEF Step

LEMMA SubmitFacts ==
  ASSUME TypeOK, NEW c \in submits
  PROVE  c.op \in Ops /\ c.session \in DOMAIN sessions /\ c.session \in Session
<1>1. PICK op \in Ops, s \in DOMAIN sessions : c = Step(op, s)
  BY DEF TypeOK
<1> QED BY <1>1, StepFields DEF TypeOK, IsMap

(* A row that is added, and a row whose status changes. *)
LEMMA RowAdded ==
  ASSUME TypeInv, NEW s \in Session, s = NewSession, NEW r \in Row,
         sessions' = PutAt(sessions, s, r)
  PROVE  /\ s \notin DOMAIN sessions
         /\ DOMAIN sessions' = DOMAIN sessions \cup {s}
         /\ IsMap(sessions', Session, Row)
         /\ Numbered'
         /\ sessions'[s] = r
         /\ \A t \in DOMAIN sessions : sessions'[t] = sessions[t]
<1> SUFFICES ASSUME NEW n, n = Cardinality(DOMAIN sessions) PROVE
         /\ s \notin DOMAIN sessions
         /\ DOMAIN sessions' = DOMAIN sessions \cup {s}
         /\ IsMap(sessions', Session, Row)
         /\ Numbered'
         /\ sessions'[s] = r
         /\ \A t \in DOMAIN sessions : sessions'[t] = sessions[t]
  OBVIOUS
<1>1. IsMap(sessions, Session, Row) /\ n \in Nat /\ DOMAIN sessions = 1 .. n
  BY FS_CardinalityType DEF TypeInv, TypeOK, IsMap, Numbered
<1>2. s = n + 1 /\ s \notin DOMAIN sessions
  <2>1. s = n + 1
    BY DEF NewSession
  <2>2. n + 1 \notin 1 .. n
    BY <1>1
  <2> QED BY <1>1, <2>1, <2>2
<1>3. /\ DOMAIN sessions' = DOMAIN sessions \cup {s} /\ sessions'[s] = r
      /\ \A t \in DOMAIN sessions : t # s => sessions'[t] = sessions[t]
  BY DEF PutAt
<1>4. IsMap(sessions', Session, Row)
  BY <1>1, PutKeyType
<1>5. DOMAIN sessions' = 1 .. n + 1 /\ n + 1 \in Int
  <2>1. 1 .. n + 1 = (1 .. n) \cup {n + 1} /\ n + 1 \in Int
    BY <1>1
  <2> QED BY <1>1, <1>2, <1>3, <2>1
<1>6. Cardinality(1 .. n + 1) = n + 1
  BY <1>1, <1>5, FS_Interval
<1> QED BY <1>2, <1>3, <1>4, <1>5, <1>6 DEF Numbered

LEMMA RowMarked ==
  ASSUME TypeInv, NEW s \in DOMAIN sessions, NEW st \in Status,
         sessions' = SetStatus(s, st)
  PROVE  /\ DOMAIN sessions' = DOMAIN sessions
         /\ IsMap(sessions', Session, Row)
         /\ Numbered'
         /\ sessions'[s].status = st
         /\ \A t \in DOMAIN sessions : sessions'[t].spends = sessions[t].spends
         /\ \A t \in DOMAIN sessions : t # s => sessions'[t] = sessions[t]
<1>1. /\ sessions \in [DOMAIN sessions -> Row] /\ DOMAIN sessions \subseteq Session
      /\ IsFiniteSet(DOMAIN sessions)
  BY DEF TypeInv, TypeOK, IsMap
<1>2. sessions' \in [DOMAIN sessions -> Row]
  BY <1>1 DEF SetStatus, Row
<1>3. /\ sessions'[s].status = st
      /\ \A t \in DOMAIN sessions : sessions'[t].spends = sessions[t].spends
      /\ \A t \in DOMAIN sessions : t # s => sessions'[t] = sessions[t]
  BY <1>1 DEF SetStatus, Row
<1>4. DOMAIN sessions' = DOMAIN sessions
  BY <1>2
<1> QED BY <1>1, <1>2, <1>3, <1>4 DEF TypeInv, IsMap, Numbered

(* What a step may do to the rows: none is removed, and a session never    *)
(* changes what it spends.                                                 *)
Kept ==
  /\ DOMAIN sessions \subseteq DOMAIN sessions'
  /\ \A t \in DOMAIN sessions : sessions'[t].spends = sessions[t].spends

(* The step of a submission: it goes on, or returns. *)
LEMMA SubmitsKept ==
  ASSUME TypeInv, Kept, NEW op \in Ops, NEW s \in DOMAIN sessions,
         op \in Guarded => sessions[s].spends # NoVault,
         submits' \subseteq submits \cup {Step(op, s)}
  PROVE  /\ submits' \subseteq {Step(o, t) : o \in Ops, t \in DOMAIN sessions'}
         /\ SignsTransitions'
<1>1. submits' \subseteq {Step(o, t) : o \in Ops, t \in DOMAIN sessions'}
  BY DEF TypeInv, TypeOK, Kept
<1>2. ASSUME NEW c \in submits', c.op \in Guarded
      PROVE  sessions'[c.session].spends # NoVault
  <2>1. CASE c \in submits
    <3>1. c.session \in DOMAIN sessions /\ sessions[c.session].spends # NoVault
      BY <1>2, <2>1, SubmitFacts DEF TypeInv, SignsTransitions
    <3> QED BY <3>1 DEF Kept
  <2>2. CASE c = Step(op, s)
    BY <1>2, <2>2, StepFields DEF Kept
  <2> QED BY <2>1, <2>2
<1> QED BY <1>1, <1>2 DEF SignsTransitions

LEMMA TypeStep == TypeInv /\ [Next]_vars => TypeInv' /\ Kept
<1> SUFFICES ASSUME TypeInv, [Next]_vars PROVE TypeInv' /\ Kept
  OBVIOUS
<1>0. TypeOK /\ Numbered /\ SignsTransitions
  BY DEF TypeInv
<1> USE SessionAssumption
<1>a. UNCHANGED sessions => Kept /\ Numbered'
  BY <1>0 DEF Kept, Numbered
<1>b. ASSUME Kept, UNCHANGED submits
      PROVE  /\ submits' \subseteq {Step(o, t) : o \in Ops, t \in DOMAIN sessions'}
             /\ SignsTransitions'
  <2>1. submits' \subseteq {Step(o, t) : o \in Ops, t \in DOMAIN sessions'}
    BY <1>0, <1>b DEF TypeOK, Kept
  <2>2. \A c \in submits : c.session \in DOMAIN sessions
    BY <1>0, SubmitFacts
  <2> QED BY <1>0, <1>b, <2>1, <2>2 DEF SignsTransitions, Kept
<1>1. ASSUME NEW s \in Session, BuildTransition(s) \/ BuildPlain(s)
      PROVE  TypeInv' /\ Kept
  <2>1. PICK r \in Row : s = NewSession /\ sessions' = PutAt(sessions, s, r)
    <3>1. \A v \in Vault \cup {NoVault} : [status |-> "BUILT", spends |-> v] \in Row
      BY DEF Row, Status
    <3>2. FollowPendingBacking(NoVault) \subseteq Vault
      BY DEF FollowPendingBacking
    <3>3. CASE BuildTransition(s)
      BY <3>1, <3>2, <3>3 DEF BuildTransition
    <3>4. CASE BuildPlain(s)
      BY <3>1, <3>4 DEF BuildPlain
    <3> QED BY <1>1, <3>3, <3>4
  <2>2. /\ DOMAIN sessions' = DOMAIN sessions \cup {s}
        /\ IsMap(sessions', Session, Row) /\ Numbered' /\ Kept
    BY <2>1, RowAdded DEF Kept
  <2>3. UNCHANGED <<submits, journal, mempool, chain, idx, gone>>
    BY <1>1 DEF BuildTransition, BuildPlain, world
  <2>4. /\ submits' \subseteq {Step(o, t) : o \in Ops, t \in DOMAIN sessions'}
        /\ SignsTransitions'
    BY <1>b, <2>2, <2>3
  <2> QED BY <1>0, <2>2, <2>3, <2>4 DEF TypeInv, TypeOK
<1>2. ASSUME NEW s \in Session, Submit(s) PROVE TypeInv' /\ Kept
  <2>1. PICK op \in Ops : /\ submits' = submits \cup {Step(op, s)}
                          /\ s \in DOMAIN sessions
                          /\ op \in Guarded => sessions[s].spends # NoVault
                          /\ UNCHANGED <<sessions, journal, mempool, chain, idx, gone>>
    BY <1>2 DEF Submit, SubmitPlain, SubmitTransition, Plain, Ops, Guarded, world
  <2>2. Kept /\ Numbered'
    BY <1>a, <2>1
  <2>3. /\ submits' \subseteq {Step(o, t) : o \in Ops, t \in DOMAIN sessions'}
        /\ SignsTransitions'
    BY <2>1, <2>2, SubmitsKept
  <2> QED BY <1>0, <2>1, <2>2, <2>3 DEF TypeInv, TypeOK
<1>3. ASSUME NEW c \in submits, GuardianSigns(c) \/ GuardianReleases(c)
      PROVE  TypeInv' /\ Kept
  <2>0. /\ c.session \in DOMAIN sessions /\ c.session \in Session
        /\ sessions[c.session].spends \in Vault
    <3>1. c.session \in DOMAIN sessions /\ c.session \in Session /\ c.op \in Guarded
      BY <1>0, <1>3, SubmitFacts DEF GuardianSigns, GuardianReleases, Guarded
    <3>2. sessions[c.session] \in Row
      BY <1>0, <3>1 DEF TypeOK, IsMap
    <3> QED BY <1>0, <3>1, <3>2 DEF Row, SignsTransitions
  <2>1. PICK op \in Ops : /\ submits' \subseteq submits \cup {Step(op, c.session)}
                          /\ UNCHANGED <<sessions, mempool, chain, idx, gone>>
    BY <1>3 DEF GuardianSigns, GuardianReleases, Continue, Return, Ops, world
  <2>2. Kept /\ Numbered'
    BY <1>a, <2>1
  <2>3. /\ submits' \subseteq {Step(o, t) : o \in Ops, t \in DOMAIN sessions'}
        /\ SignsTransitions'
    <3>1. sessions[c.session].spends # NoVault
      BY <2>0, SessionAssumption DEF Vault
    <3> QED BY <2>0, <2>1, <2>2, <3>1, SubmitsKept
  <2>4. \/ journal' = journal
        \/ journal' = PutAt(journal, sessions[c.session].spends, c.session)
        \/ \E K : journal' = Del(journal, K)
    BY <1>3 DEF GuardianSigns, GuardianReleases
  <2>5. IsMap(journal', Vault, Session)
    BY <1>0, <2>0, <2>4, PutKeyType, DelKeyType DEF TypeOK
  <2> QED BY <1>0, <2>1, <2>2, <2>3, <2>5 DEF TypeInv, TypeOK
<1>4. ASSUME NEW c \in submits, TestMempoolAccept(c) \/ SubmitDies(c)
      PROVE  TypeInv' /\ Kept
  <2>1. /\ submits' \subseteq submits \cup {Step("send", c.session)}
        /\ UNCHANGED <<sessions, journal, mempool, chain, idx, gone>>
    BY <1>4 DEF TestMempoolAccept, SubmitDies, Continue, Return, world
  <2>2. Kept /\ Numbered' /\ c.session \in DOMAIN sessions
    BY <1>0, <1>a, <2>1, SubmitFacts
  <2>3. /\ submits' \subseteq {Step(o, t) : o \in Ops, t \in DOMAIN sessions'}
        /\ SignsTransitions'
    BY <2>1, <2>2, SubmitsKept DEF Ops, Guarded
  <2> QED BY <1>0, <2>1, <2>2, <2>3 DEF TypeInv, TypeOK
<1>5. ASSUME NEW c \in submits, SendRawTransaction(c) PROVE TypeInv' /\ Kept
  <2>1. /\ submits' \subseteq submits \cup {Step("mark", c.session)}
        /\ UNCHANGED <<sessions, journal, chain, idx, gone>>
    BY <1>5 DEF SendRawTransaction, Continue, Return
  <2>2. Kept /\ Numbered' /\ c.session \in DOMAIN sessions
    BY <1>0, <1>a, <2>1, SubmitFacts
  <2>3. /\ submits' \subseteq {Step(o, t) : o \in Ops, t \in DOMAIN sessions'}
        /\ SignsTransitions'
    BY <2>1, <2>2, SubmitsKept DEF Ops, Guarded
  <2>4. \/ mempool' \subseteq mempool
        \/ mempool' \subseteq mempool \cup {c.session} /\ c.session \notin chain
    BY <1>0, <1>5 DEF SendRawTransaction, Acceptable, Known, TypeOK
  <2>5. mempool' \subseteq DOMAIN sessions /\ mempool' \cap chain = {}
    BY <1>0, <2>2, <2>4 DEF TypeOK
  <2> QED BY <1>0, <2>1, <2>2, <2>3, <2>5 DEF TypeInv, TypeOK
<1>6. ASSUME NEW c \in submits, MarkBroadcast(c) PROVE TypeInv' /\ Kept
  <2>1. /\ submits' \subseteq submits \cup {Step("mark", c.session)}
        /\ sessions' = SetStatus(c.session, "BROADCAST")
        /\ UNCHANGED <<journal, mempool, chain, idx, gone>>
    BY <1>6 DEF MarkBroadcast, Return, world
  <2>2. c.session \in DOMAIN sessions
    BY <1>0, SubmitFacts
  <2>3. /\ DOMAIN sessions' = DOMAIN sessions
        /\ IsMap(sessions', Session, Row) /\ Numbered' /\ Kept
    BY <2>1, <2>2, RowMarked DEF Kept, Status
  <2>4. /\ submits' \subseteq {Step(o, t) : o \in Ops, t \in DOMAIN sessions'}
        /\ SignsTransitions'
    BY <2>1, <2>2, <2>3, SubmitsKept DEF Ops, Guarded
  <2> QED BY <1>0, <2>1, <2>3, <2>4 DEF TypeInv, TypeOK
<1>7. ASSUME NEW s \in Session, Confirm(s) \/ Fail(s) PROVE TypeInv' /\ Kept
  <2>1. PICK st \in Status : s \in DOMAIN sessions /\ sessions' = SetStatus(s, st)
    BY <1>0, <1>7 DEF Confirm, Fail, Status, TypeOK
  <2>2. UNCHANGED <<submits, journal, mempool, chain, idx>> /\ gone' \subseteq gone
    BY <1>7 DEF Confirm, Fail, world
  <2>3. /\ DOMAIN sessions' = DOMAIN sessions
        /\ IsMap(sessions', Session, Row) /\ Numbered' /\ Kept
    BY <2>1, RowMarked DEF Kept
  <2>4. /\ submits' \subseteq {Step(o, t) : o \in Ops, t \in DOMAIN sessions'}
        /\ SignsTransitions'
    BY <1>b, <2>2, <2>3
  <2> QED BY <1>0, <2>2, <2>3, <2>4 DEF TypeInv, TypeOK
<1>8. ASSUME UNCHANGED <<sessions, submits>>, IsMap(journal', Vault, Session),
             mempool' \cup chain' \cup idx' \cup gone' \subseteq DOMAIN sessions,
             mempool' \cap chain' = {}
      PROVE  TypeInv' /\ Kept
  <2>1. Kept /\ Numbered'
    BY <1>a, <1>8
  <2>2. /\ submits' \subseteq {Step(o, t) : o \in Ops, t \in DOMAIN sessions'}
        /\ SignsTransitions'
    BY <1>b, <1>8, <2>1
  <2> QED BY <1>0, <1>8, <2>1, <2>2 DEF TypeInv, TypeOK
<1>9. CASE Index \/ WorkerDies \/ UNCHANGED vars \/ \E s \in Session : LookUp(s)
  <2>1. /\ UNCHANGED <<sessions, submits, journal, mempool, chain>> /\ idx' \in {idx, chain}
        /\ gone' \subseteq gone \cup DOMAIN sessions
    BY <1>9 DEF Index, WorkerDies, LookUp, vars, world
  <2> QED BY <1>0, <1>8, <2>1 DEF TypeOK
<1>10. ASSUME NEW s \in Session, Mine(s) \/ Evict(s) \/ Reorg(s) PROVE TypeInv' /\ Kept
  <2>1. UNCHANGED <<sessions, submits, journal, idx, gone>>
    BY <1>10 DEF Mine, Evict, Reorg
  <2>2. \/ /\ s \in mempool /\ mempool' = mempool \ {s} /\ chain' = chain \cup {s}
        \/ mempool' \subseteq mempool /\ chain' \subseteq chain
        \/ s \in chain /\ chain' = chain \ {s} /\ mempool' = mempool \cup {s}
    BY <1>10 DEF Mine, Evict, Reorg
  <2>3. mempool' \cup chain' \subseteq DOMAIN sessions /\ mempool' \cap chain' = {}
    BY <1>0, <2>2 DEF TypeOK
  <2> QED BY <1>0, <1>8, <2>1, <2>3 DEF TypeOK
<1>11. ASSUME NEW v \in Vault, ReservationLapses(v) PROVE TypeInv' /\ Kept
  <2>1. /\ journal' = Del(journal, {v})
        /\ UNCHANGED <<sessions, submits, mempool, chain, idx, gone>>
    BY <1>11 DEF ReservationLapses, world
  <2>2. IsMap(journal, Vault, Session)
    BY <1>0 DEF TypeOK
  <2>3. IsMap(Del(journal, {v}), Vault, Session)
    BY <2>2, DelKeyType
  <2> QED BY <1>0, <1>8, <2>1, <2>3 DEF TypeOK
<1> QED BY <1>1, <1>2, <1>3, <1>4, <1>5, <1>6, <1>7, <1>9, <1>10, <1>11
    DEF Next, Moves, Proceed, Reconcile

LEMMA TypeInit == Init => TypeInv
<1> SUFFICES ASSUME Init PROVE TypeInv
  OBVIOUS
<1>1. Cardinality(DOMAIN sessions) = 0 /\ DOMAIN sessions = {}
  BY NothingIsMap, FS_EmptySet DEF Init
<1>2. Numbered
  BY <1>1 DEF Numbered
<1>3. TypeOK
  BY NothingIsMap DEF Init, TypeOK
<1> QED BY <1>2, <1>3 DEF Init, TypeInv, SignsTransitions

(* Sessions, submissions and reservations are well formed, and no          *)
(* transaction is in the mempool and in a block.                           *)
THEOREM TypeCorrect == Spec => []TypeOK
<1>1. TypeInv => TypeOK
  BY DEF TypeInv
<1> QED BY <1>1, TypeInit, TypeStep, PTL DEF Spec

-----------------------------------------------------------------------------
(* What a step may do to the live transitions and the reservations: a      *)
(* transition that goes live holds its reservation, and a reservation is   *)
(* never passed on.                                                        *)
Held ==
  /\ \A s \in DOMAIN sessions' \ Plain' :
       Live(s)' => s \in DOMAIN sessions /\ (Live(s) \/ Granted(s)')
  /\ \A v \in DOMAIN journal \cap DOMAIN journal' : journal'[v] = journal[v]

(* A step on which sessions are no more live than before. *)
LEMMA HeldFrame ==
  ASSUME TypeInv, TypeInv', Kept,
         \A v \in DOMAIN journal \cap DOMAIN journal' : journal'[v] = journal[v],
         \A c \in submits' :
           \/ c.op \in Guarded \/ c.session \in Plain
           \/ \E d \in submits : d.op \notin Guarded /\ d.session = c.session,
         \A s \in DOMAIN sessions' :
           sessions'[s].status = "BROADCAST" => s \in DOMAIN sessions /\ Live(s)
  PROVE  Held
<1> SUFFICES ASSUME NEW s \in DOMAIN sessions' \ Plain', Live(s)'
             PROVE  s \in DOMAIN sessions /\ Live(s)
  BY DEF Held
<1>1. CASE sessions'[s].status = "BROADCAST"
  BY <1>1
<1>2. CASE \E c \in submits' : c.session = s /\ c.op \in {"accept", "send", "mark"}
  <2>1. PICK c \in submits' : c.session = s /\ c.op \in {"accept", "send", "mark"}
    BY <1>2
  <2>2. c.session \notin Plain
    BY <2>1 DEF Plain, Kept
  <2>3. PICK d \in submits : d.op \notin Guarded /\ d.session = s
    BY <2>1, <2>2 DEF Guarded
  <2>4. d.op \in Ops /\ d.session \in DOMAIN sessions
    BY SubmitFacts DEF TypeInv
  <2> QED BY <2>3, <2>4 DEF Live, Ops, Guarded
<1> QED BY <1>1, <1>2 DEF Live

(* The Guardian gives a vault to one session only. *)
LEMMA HeldSign ==
  ASSUME TypeInv, TypeInv', Kept, NEW c \in submits, GuardianSigns(c),
         GuardianAccepts(c.session)
  PROVE  Held
<1> SUFFICES ASSUME NEW v, v = sessions[c.session].spends PROVE Held
  OBVIOUS
<1>1. /\ journal' = PutAt(journal, v, c.session) /\ sessions' = sessions
      /\ \E op \in Ops : submits' \subseteq submits \cup {Step(op, c.session)}
  BY DEF GuardianSigns, Continue, Return, Ops
<1>2. /\ DOMAIN journal' = DOMAIN journal \cup {v} /\ journal'[v] = c.session
      /\ \A x \in DOMAIN journal : x # v => journal'[x] = journal[x]
  BY <1>1 DEF PutAt
<1>3. v \in DOMAIN journal => journal[v] = c.session
  BY DEF GuardianAccepts
<1>4. Granted(c.session)'
  <2>1. sessions'[c.session].spends = v
    BY <1>1
  <2> QED BY <1>2, <2>1 DEF Granted
<1>5. \A d \in submits' : d \in submits \/ d.session = c.session
  BY <1>1, StepFields
<1>6. ASSUME NEW s \in DOMAIN sessions', Live(s)'
      PROVE  s \in DOMAIN sessions /\ (Live(s) \/ Granted(s)')
  <2>1. CASE s = c.session
    BY <1>1, <1>4, <2>1
  <2>2. CASE s # c.session
    BY <1>1, <1>5, <1>6, <2>2 DEF Live
  <2> QED BY <2>1, <2>2
<1> QED BY <1>2, <1>3, <1>6 DEF Held

LEMMA HeldStep == TypeInv /\ [Next]_vars => Held
<1> SUFFICES ASSUME TypeInv, [Next]_vars PROVE Held
  OBVIOUS
<1>0. TypeInv' /\ Kept /\ TypeOK
  BY TypeStep DEF TypeInv
<1>1. ASSUME NEW s \in Session, BuildTransition(s) \/ BuildPlain(s) PROVE Held
  <2>1. PICK r \in Row : /\ s = NewSession /\ sessions' = PutAt(sessions, s, r)
                         /\ r.status = "BUILT"
    <3>1. \A v \in Vault \cup {NoVault} :
            /\ [status |-> "BUILT", spends |-> v] \in Row
            /\ [status |-> "BUILT", spends |-> v].status = "BUILT"
      BY DEF Row, Status
    <3>2. FollowPendingBacking(NoVault) \subseteq Vault
      BY DEF FollowPendingBacking
    <3>3. CASE BuildTransition(s)
      BY <3>1, <3>2, <3>3 DEF BuildTransition
    <3>4. CASE BuildPlain(s)
      BY <3>1, <3>4 DEF BuildPlain
    <3> QED BY <1>1, <3>3, <3>4
  <2>2. /\ DOMAIN sessions' = DOMAIN sessions \cup {s} /\ sessions'[s] = r
        /\ \A t \in DOMAIN sessions : sessions'[t] = sessions[t]
    BY <2>1, RowAdded
  <2>3. UNCHANGED <<submits, journal>>
    BY <1>1 DEF BuildTransition, BuildPlain
  <2>4. \A t \in DOMAIN sessions' : sessions'[t].status = "BROADCAST" =>
          t \in DOMAIN sessions /\ Live(t)
    BY <2>1, <2>2 DEF Live
  <2>5. \A c \in submits : c.op \in Ops
    BY <1>0, SubmitFacts
  <2> QED BY <1>0, <2>3, <2>4, HeldFrame
<1>2. ASSUME NEW s \in Session, Submit(s) PROVE Held
  <2>1. /\ UNCHANGED <<sessions, journal>>
        /\ \A c \in submits' : c \in submits \/ c.op \in Guarded \/ c.session \in Plain
    BY <1>2, StepFields DEF Submit, SubmitPlain, SubmitTransition, Guarded
  <2> QED BY <1>0, <2>1, HeldFrame DEF Live
<1>3. ASSUME NEW c \in submits, GuardianSigns(c) PROVE Held
  <2>1. CASE GuardianAccepts(c.session)
    BY <1>0, <1>3, <2>1, HeldSign
  <2>2. CASE ~GuardianAccepts(c.session)
    <3>1. UNCHANGED <<sessions, journal>> /\ submits' \subseteq submits
      BY <1>3, <2>2 DEF GuardianSigns, Return
    <3> QED BY <1>0, <3>1, HeldFrame DEF Live
  <2> QED BY <2>1, <2>2
<1>4. ASSUME NEW c \in submits,
             TestMempoolAccept(c) \/ SendRawTransaction(c) \/ SubmitDies(c)
      PROVE  Held
  <2>1. /\ UNCHANGED <<sessions, journal>>
        /\ \/ submits' \subseteq submits
           \/ c.op \notin Guarded /\ Continue(c, "send")
           \/ c.op \notin Guarded /\ Continue(c, "mark")
    BY <1>4 DEF TestMempoolAccept, SendRawTransaction, SubmitDies, Return, Guarded
  <2>2. \A d \in submits' : d \in submits \/ (d.session = c.session /\ c.op \notin Guarded)
    BY <2>1, StepFields DEF Continue
  <2> QED BY <1>0, <2>1, <2>2, HeldFrame DEF Live
<1>5. ASSUME NEW c \in submits, MarkBroadcast(c) PROVE Held
  <2>1. /\ submits' \subseteq submits /\ c.op = "mark"
        /\ sessions' = SetStatus(c.session, "BROADCAST")
        /\ UNCHANGED journal
    BY <1>5 DEF MarkBroadcast, Return
  <2>2. c.session \in DOMAIN sessions /\ Live(c.session)
    BY <1>0, <2>1, SubmitFacts DEF Live
  <2>3. /\ DOMAIN sessions' = DOMAIN sessions
        /\ \A t \in DOMAIN sessions : t # c.session => sessions'[t] = sessions[t]
    BY <2>1, <2>2, RowMarked DEF Status
  <2>4. \A t \in DOMAIN sessions' : sessions'[t].status = "BROADCAST" =>
          t \in DOMAIN sessions /\ Live(t)
    BY <2>2, <2>3 DEF Live
  <2> QED BY <1>0, <2>1, <2>4, HeldFrame
<1>6. ASSUME NEW s \in Session, Confirm(s) \/ Fail(s) PROVE Held
  <2>1. PICK st \in Status : /\ s \in DOMAIN sessions /\ sessions' = SetStatus(s, st)
                             /\ st # "BROADCAST"
    BY <1>0, <1>6 DEF Confirm, Fail, Status, TypeOK
  <2>2. UNCHANGED <<submits, journal>>
    BY <1>6 DEF Confirm, Fail
  <2>3. /\ DOMAIN sessions' = DOMAIN sessions /\ sessions'[s].status = st
        /\ \A t \in DOMAIN sessions : t # s => sessions'[t] = sessions[t]
    BY <2>1, RowMarked
  <2>4. \A t \in DOMAIN sessions' : sessions'[t].status = "BROADCAST" =>
          t \in DOMAIN sessions /\ Live(t)
    BY <2>1, <2>3 DEF Live
  <2> QED BY <1>0, <2>2, <2>4, HeldFrame
<1>7. CASE \/ Index \/ WorkerDies \/ UNCHANGED vars
           \/ \E s \in Session : LookUp(s) \/ Mine(s) \/ Evict(s) \/ Reorg(s)
           \/ \E v \in Vault : ReservationLapses(v)
           \/ \E c \in submits : GuardianReleases(c)
  <2>1. /\ sessions' = sessions /\ submits' \subseteq submits
        /\ journal' = journal \/ \E K : journal' = Del(journal, K)
    BY <1>7 DEF Index, WorkerDies, LookUp, vars, Mine, Evict, Reorg, ReservationLapses,
                GuardianReleases, Return
  <2>2. \A v \in DOMAIN journal \cap DOMAIN journal' : journal'[v] = journal[v]
    BY <2>1 DEF Del
  <2> QED BY <1>0, <2>1, <2>2, HeldFrame DEF Live
<1> QED BY <1>1, <1>2, <1>3, <1>4, <1>5, <1>6, <1>7 DEF Next, Moves, Proceed, Reconcile

LEMMA ForkStep == TypeInv /\ ForkInv /\ [Next]_vars => ForkInv'
<1> SUFFICES ASSUME TypeInv, ForkInv, [Next]_vars,
                    NEW s \in DOMAIN sessions' \ Plain', Live(s)',
                    sessions'[s].spends \notin freed'
             PROVE  Granted(s)'
  BY DEF ForkInv
<1>1. Kept /\ Held
  BY TypeStep, HeldStep
<1>2. /\ freed \subseteq freed'
      /\ \A v \in DOMAIN journal \ DOMAIN journal' : Live(journal[v]) => v \in freed'
  BY DEF Next, Remember, vars, history
<1>3. CASE ~Granted(s)'
  <2>1. s \in DOMAIN sessions /\ Live(s)
    BY <1>1, <1>3 DEF Held
  <2>2. sessions'[s].spends = sessions[s].spends /\ s \notin Plain
    BY <1>1, <2>1 DEF Kept, Plain
  <2>3. Granted(s)
    BY <1>2, <2>1, <2>2 DEF ForkInv
  <2>4. sessions[s].spends \in DOMAIN journal'
    BY <1>2, <2>1, <2>2, <2>3 DEF Granted
  <2>5. journal'[sessions[s].spends] = journal[sessions[s].spends]
    BY <1>1, <2>3, <2>4 DEF Held, Granted
  <2> QED BY <2>2, <2>3, <2>4, <2>5 DEF Granted
<1> QED BY <1>3

LEMMA NoFork == TypeInv /\ ForkInv => PendingCannotFork
<1> SUFFICES ASSUME TypeInv, ForkInv, NEW v \in Vault \ freed
             PROVE  Cardinality(BroadcastSpend(v)) <= 1
  BY DEF PendingCannotFork
<1>1. v # NoVault
  BY SessionAssumption DEF Vault
<1>2. BroadcastSpend(v) \subseteq {journal[v]}
  BY <1>1 DEF BroadcastSpend, ForkInv, Live, Granted, Plain
<1> QED BY <1>2, AtMostOne

LEMMA ForkInit == Init => ForkInv
  BY NothingIsMap DEF Init, ForkInv

-----------------------------------------------------------------------------
(* The sets of the ranking and what the types say of them. *)
LEMMA MovingFacts ==
  ASSUME TypeInv
  PROVE  /\ mempool \subseteq DOMAIN sessions /\ chain \subseteq DOMAIN sessions
         /\ DOMAIN sessions \subseteq Session /\ Launch \notin DOMAIN sessions
         /\ Launch \in Vault /\ NoVault \notin Vault /\ DOMAIN sessions \subseteq Vault
         /\ mempool \cap chain = {}
         /\ \A s \in Moving(DOMAIN sessions) : sessions[s].spends \in Vault
<1>1. /\ mempool \subseteq DOMAIN sessions /\ chain \subseteq DOMAIN sessions
      /\ DOMAIN sessions \subseteq Session /\ mempool \cap chain = {}
  BY DEF TypeInv, TypeOK, IsMap
<1>2. /\ Launch \notin DOMAIN sessions /\ Launch \in Vault /\ NoVault \notin Vault
      /\ DOMAIN sessions \subseteq Vault
  BY <1>1, SessionAssumption DEF Vault
<1>3. \A s \in DOMAIN sessions : sessions[s].spends \in Vault \cup {NoVault}
  BY DEF TypeInv, TypeOK, IsMap, Row
<1> QED BY <1>1, <1>2, <1>3 DEF Moving, Plain

(* Sessions are added, or only change their status: the ranks of the old   *)
(* ones stay, and the new transitions have to be in their place.           *)
LEMMA RankRows ==
  ASSUME TypeInv, TypeInv', Kept, mempool' = mempool, chain' = chain,
         NEW depth, NEW top, Ranked(depth, top),
         NEW rank \in [Vault -> Nat],
         \A v \in Spendable(DOMAIN sessions) : rank[v] = depth[v],
         \A s \in DOMAIN sessions' \ DOMAIN sessions :
           s \in Plain' \/ /\ sessions'[s].spends \in Spendable(DOMAIN sessions)
                           /\ rank[s] = rank[sessions'[s].spends] + 1
                           /\ rank[s] <= rank[top] + MaxPending + 1
  PROVE  Ranked(rank, top)'
<1>1. /\ mempool \subseteq DOMAIN sessions /\ chain \subseteq DOMAIN sessions
      /\ DOMAIN sessions \subseteq DOMAIN sessions'
      /\ \A s \in DOMAIN sessions : sessions'[s].spends = sessions[s].spends
  BY MovingFacts DEF Kept
<1>2. \A s \in DOMAIN sessions : s \in Plain' <=> s \in Plain
  BY <1>1 DEF Plain
<1>3. /\ Moving(mempool)' = Moving(mempool) /\ Moving(chain)' = Moving(chain)
      /\ Moving(Known)' = Moving(Known)
      /\ Spendable(chain)' = Spendable(chain) /\ Spendable(Known)' = Spendable(Known)
      /\ Spendable(DOMAIN sessions) \subseteq Spendable(DOMAIN sessions)'
      /\ \A s \in DOMAIN sessions : s \in Moving(DOMAIN sessions)'
                                       <=> s \in Moving(DOMAIN sessions)
  BY <1>1, <1>2 DEF Moving, Spendable, Known
<1>4. /\ Moving(Known) \subseteq Moving(DOMAIN sessions)
      /\ Moving(chain) \subseteq Moving(Known) /\ Moving(mempool) \subseteq Moving(Known)
      /\ Spendable(chain) \subseteq Spendable(DOMAIN sessions)
  BY <1>1 DEF Moving, Spendable, Known
<1>5. /\ rank[Launch] = 0 /\ top \in Spendable(chain) /\ rank[top] = depth[top]
      /\ \A s \in Moving(DOMAIN sessions) : rank[s] = depth[s]
  BY <1>4 DEF Ranked, Spendable
<1>6. ASSUME NEW s \in Moving(DOMAIN sessions)'
      PROVE  /\ sessions'[s].spends \in Spendable(DOMAIN sessions)'
             /\ rank[s] = rank[sessions'[s].spends] + 1
             /\ rank[s] <= rank[top] + MaxPending + 1
  <2>1. CASE s \in DOMAIN sessions
    <3>1. s \in Moving(DOMAIN sessions) /\ sessions'[s].spends = sessions[s].spends
      BY <1>1, <1>3, <1>6, <2>1
    <3>2. /\ sessions[s].spends \in Spendable(DOMAIN sessions)
          /\ depth[s] = depth[sessions[s].spends] + 1
          /\ depth[s] <= depth[top] + MaxPending + 1
      BY <3>1 DEF Ranked
    <3> QED BY <1>3, <1>5, <3>1, <3>2
  <2>2. CASE s \notin DOMAIN sessions
    BY <1>3, <1>6, <2>2 DEF Moving
  <2> QED BY <2>1, <2>2
<1>7. /\ \A s \in Moving(Known)' : sessions'[s].spends \in Spendable(Known)'
      /\ \A s \in Moving(chain)' : sessions'[s].spends \in Spendable(chain)'
  <2>1. \A s \in Moving(DOMAIN sessions) : s \in DOMAIN sessions
    BY DEF Moving
  <2> QED BY <1>1, <1>3, <1>4, <2>1 DEF Ranked
<1>8. /\ \A s, t \in Moving(Known)' : rank[s] = rank[t] => s = t
      /\ \A s \in Moving(mempool)' : rank[s] > rank[top]
      /\ \A s \in Moving(chain)' : rank[s] <= rank[top]
      /\ \A k \in 1 .. rank[top] : \E s \in Moving(chain)' : rank[s] = k
  BY <1>3, <1>4, <1>5 DEF Ranked
<1> QED BY <1>3, <1>5, <1>6, <1>7, <1>8 DEF Ranked

(* followPendingBacking ends at most MaxPending after the last transition  *)
(* mined.                                                                  *)
LEMMA PathBound ==
  ASSUME TypeInv, NEW depth, NEW top, Ranked(depth, top), idx \subseteq chain,
         NEW stopAt, NEW v \in FollowPendingBacking(stopAt)
  PROVE  v \in Spendable(DOMAIN sessions) /\ depth[v] <= depth[top] + MaxPending
<1>0. /\ MaxPending \in Nat /\ depth \in [Vault -> Nat] /\ top \in Vault
      /\ Spendable(DOMAIN sessions) \subseteq Vault
  BY MovingFacts, SessionAssumption DEF Ranked, Spendable, Moving
<1>1. PICK path \in [0 .. MaxPending -> Vault] :
        /\ path[0] \in ConfirmedBacking
        /\ \A d \in 1 .. MaxPending : path[d] \in Follow(path[d - 1], stopAt)
        /\ v = path[MaxPending]
  BY DEF FollowPendingBacking
<1> DEFINE Fine(d) == /\ path[d] \in Spendable(DOMAIN sessions)
                      /\ depth[path[d]] <= depth[top] + d
           Bad == {d \in 0 .. MaxPending : ~Fine(d)}
<1>2. Fine(0)
  <2>1. path[0] \in Spendable(chain)
    BY <1>1 DEF ConfirmedBacking, Spendable, Moving
  <2>2. Spendable(chain) \subseteq Spendable(DOMAIN sessions)
    BY MovingFacts DEF Spendable, Moving
  <2>3. depth[path[0]] <= depth[top]
    BY <1>0, <2>1 DEF Ranked, Spendable
  <2> QED BY <1>0, <2>1, <2>2, <2>3
<1>3. ASSUME NEW d \in 1 .. MaxPending, Fine(d - 1) PROVE Fine(d)
  <2>1. PICK u : u = path[d - 1] /\ u \in Spendable(DOMAIN sessions) /\ u \in Vault
                 /\ depth[u] <= depth[top] + (d - 1)
    BY <1>0, <1>3
  <2>2. path[d] = u \/ path[d] \in BroadcastSpend(u)
    BY <1>1, <2>1 DEF Follow
  <2>3. CASE path[d] = u
    BY <1>0, <2>1, <2>3
  <2>4. CASE path[d] \in BroadcastSpend(u)
    <3>1. /\ path[d] \in Moving(DOMAIN sessions)
          /\ sessions[path[d]].spends = u
      BY <2>1, <2>4, MovingFacts DEF BroadcastSpend, Moving, Plain
    <3>2. depth[path[d]] = depth[u] + 1
      BY <3>1 DEF Ranked
    <3> QED BY <1>0, <2>1, <3>1, <3>2 DEF Spendable
  <2> QED BY <2>2, <2>3, <2>4
<1>4. Bad = {}
  <2> SUFFICES ASSUME Bad # {} PROVE FALSE
    OBVIOUS
  <2>1. Bad \subseteq Nat
    BY <1>0
  <2>2. PICK d \in Bad : \A e \in Bad : d <= e
    BY <2>1, LeastNat
  <2>3. d # 0 /\ d \in 0 .. MaxPending /\ ~Fine(d)
    BY <1>2, <2>2
  <2>4. d \in 1 .. MaxPending /\ d - 1 \in 0 .. MaxPending /\ ~(d <= d - 1)
    BY <1>0, <2>3
  <2>5. Fine(d - 1)
    BY <2>2, <2>4
  <2> QED BY <1>3, <2>3, <2>4, <2>5
<1>5. MaxPending \in 0 .. MaxPending
  BY <1>0
<1>6. Fine(MaxPending)
  BY <1>4, <1>5
<1> QED BY <1>1, <1>6

(* What is built on a transaction: the transaction itself, with anything   *)
(* its children, and nothing that stands before it.                        *)
LEMMA DescendantFacts ==
  ASSUME TypeInv, NEW depth, NEW top, Ranked(depth, top), NEW r \in Moving(Known)
  PROVE  /\ r \in Descendants(r)
         /\ \A t \in Known : sessions[t].spends \in Descendants(r)
                               => t \in Descendants(r)
         /\ \A t \in Descendants(r) : t \in Moving(Known) /\ depth[t] >= depth[r]
<1>0. /\ Known \subseteq DOMAIN sessions /\ NoVault \notin Known
      /\ Moving(Known) \subseteq Moving(DOMAIN sessions)
      /\ Moving(DOMAIN sessions) \subseteq Vault /\ depth \in [Vault -> Nat]
  BY MovingFacts DEF Known, Moving, Ranked
<1>1. r \in Descendants(r)
  BY DEF Descendants, Moving
<1>2. ASSUME NEW t \in Known, sessions[t].spends \in Descendants(r)
      PROVE  t \in Descendants(r)
  BY <1>2 DEF Descendants
<1>3. ASSUME NEW t \in Descendants(r) PROVE t \in Moving(Known) /\ depth[t] >= depth[r]
  <2> DEFINE S == {u \in Moving(Known) : depth[u] >= depth[r]}
  <2>1. S \in SUBSET Known /\ r \in S
    BY <1>0 DEF Moving
  <2>2. ASSUME NEW u \in Known, sessions[u].spends \in S PROVE u \in S
    <3>1. sessions[u].spends # NoVault /\ sessions[u].spends \in Vault
      BY <1>0, <2>2, MovingFacts DEF Moving
    <3>2. u \in Moving(Known)
      BY <3>1 DEF Moving, Plain
    <3>3. depth[u] = depth[sessions[u].spends] + 1
      BY <1>0, <3>2 DEF Ranked
    <3> QED BY <1>0, <2>2, <3>1, <3>2, <3>3
  <2>3. {u \in Known : sessions[u].spends \in S} \subseteq S
    BY <2>2
  <2>4. t \in S
    BY <2>1, <2>3 DEF Descendants
  <2> QED BY <2>4
<1> QED BY <1>1, <1>2, <1>3

(* Two known vaults at the same distance are the same. *)
LEMMA SameRank ==
  ASSUME TypeInv, NEW depth, NEW top, Ranked(depth, top),
         NEW u \in Spendable(Known), NEW w \in Spendable(Known), depth[u] = depth[w]
  PROVE  u = w
<1>1. \A s \in Moving(Known) : depth[s] # 0
  <2>1. \A s \in Moving(Known) : s \in Moving(DOMAIN sessions) /\ s \in Vault
    BY MovingFacts DEF Known, Moving
  <2>2. \A s \in Moving(DOMAIN sessions) : sessions[s].spends \in Vault
    BY MovingFacts
  <2> QED BY <2>1, <2>2 DEF Ranked
<1> QED BY <1>1 DEF Ranked, Spendable

(* A transition Core accepts, or has: whatever it replaces, what Core      *)
(* knows afterwards is still one line.                                     *)
LEMMA RankSend ==
  ASSUME TypeInv, TypeInv', NEW depth, NEW top, Ranked(depth, top),
         NEW s \in DOMAIN sessions, Acceptable(s) \/ s \in mempool,
         mempool' = (mempool \ UNION {Descendants(r) : r \in Rivals(s)}) \cup {s},
         sessions' = sessions, chain' = chain
  PROVE  Ranked(depth, top)'
<1> DEFINE out == UNION {Descendants(r) : r \in Rivals(s)}
<1>0. /\ mempool \subseteq DOMAIN sessions /\ chain \subseteq DOMAIN sessions
      /\ mempool \cap chain = {} /\ Known = mempool \cup chain
      /\ Moving(Known) \subseteq Moving(DOMAIN sessions)
      /\ Moving(chain) \subseteq Moving(Known) /\ Moving(mempool) \subseteq Moving(Known)
      /\ Spendable(chain) \subseteq Spendable(Known)
      /\ Spendable(Known) \subseteq Vault /\ depth \in [Vault -> Nat] /\ top \in Vault
  BY MovingFacts DEF Known, Moving, Spendable, Ranked
<1>1. /\ Plain' = Plain /\ Known' = (mempool \ out) \cup {s} \cup chain
      /\ Moving(DOMAIN sessions)' = Moving(DOMAIN sessions)
      /\ Spendable(DOMAIN sessions)' = Spendable(DOMAIN sessions)
      /\ Moving(chain)' = Moving(chain) /\ Spendable(chain)' = Spendable(chain)
  BY DEF Plain, Known, Moving, Spendable
<1>a. /\ depth[Launch] = 0 /\ top \in Spendable(chain)'
      /\ \A t \in Moving(DOMAIN sessions)' :
           /\ sessions'[t].spends \in Spendable(DOMAIN sessions)'
           /\ depth[t] = depth[sessions'[t].spends] + 1
           /\ depth[t] <= depth[top] + MaxPending + 1
  BY <1>1 DEF Ranked
<1>b. /\ \A t \in Moving(chain)' : sessions'[t].spends \in Spendable(chain)'
      /\ \A t \in Moving(chain)' : depth[t] <= depth[top]
      /\ \A k \in 1 .. depth[top] : \E t \in Moving(chain)' : depth[t] = k
  BY <1>1 DEF Ranked
<1>2. CASE s \in Plain
  <2>1. Rivals(s) = {}
    BY <1>2 DEF Rivals
  <2>2. mempool' = mempool \cup {s} /\ Known' = Known \cup {s}
    BY <1>0, <1>1, <2>1
  <2>3. /\ Moving(mempool)' = Moving(mempool) /\ Moving(Known)' = Moving(Known)
        /\ Spendable(Known)' = Spendable(Known)
    BY <1>1, <1>2, <2>2 DEF Moving, Spendable
  <2>4. /\ \A t \in Moving(Known)' : sessions'[t].spends \in Spendable(Known)'
        /\ \A t, u \in Moving(Known)' : depth[t] = depth[u] => t = u
        /\ \A t \in Moving(mempool)' : depth[t] > depth[top]
    BY <2>3 DEF Ranked
  <2> QED BY <1>0, <1>a, <1>b, <2>4 DEF Ranked
<1>3. CASE s \notin Plain
  <2> SUFFICES ASSUME NEW p, p = sessions[s].spends PROVE Ranked(depth, top)'
    OBVIOUS
  <2>1. /\ s \in Moving(DOMAIN sessions) /\ s \in Vault
        /\ p \in Spendable(Known) /\ p \in Vault /\ depth[s] = depth[p] + 1
    <3>1. s \in Moving(DOMAIN sessions) /\ s \in Vault
      BY <1>3, MovingFacts DEF Moving
    <3>2. p \in Spendable(DOMAIN sessions) /\ depth[s] = depth[p] + 1
      BY <3>1 DEF Ranked
    <3>3. CASE Acceptable(s)
      <4>1. p \in Known \cup {Launch}
        BY <1>3, <3>3 DEF Acceptable
      <4>2. p \in Spendable(Known)
        BY <3>2, <4>1 DEF Spendable, Moving
      <4> QED BY <1>0, <3>1, <3>2, <4>2
    <3>4. CASE s \in mempool
      <4>1. s \in Moving(Known)
        BY <1>0, <1>3, <3>4 DEF Moving
      <4>2. p \in Spendable(Known)
        BY <4>1 DEF Ranked
      <4> QED BY <1>0, <3>1, <3>2, <4>2
    <3> QED BY <3>3, <3>4
  <2>2. /\ \A r \in Rivals(s) : r \in Moving(Known) /\ sessions[r].spends = p
        /\ \A t \in Moving(Known) : sessions[t].spends = p /\ t # s => t \in Rivals(s)
    <3>1. p # NoVault
      BY <2>1, MovingFacts
    <3> QED BY <1>3, <3>1 DEF Rivals, Children, Moving, Plain
  <2>3. \A t \in Moving(Known) : depth[t] = depth[s] => sessions[t].spends = p
    <3> SUFFICES ASSUME NEW t \in Moving(Known), depth[t] = depth[s]
                 PROVE  sessions[t].spends = p
      OBVIOUS
    <3>1. /\ sessions[t].spends \in Spendable(Known)
          /\ depth[t] = depth[sessions[t].spends] + 1
      BY <1>0 DEF Ranked
    <3>2. depth[sessions[t].spends] \in Nat /\ depth[p] \in Nat
      BY <1>0, <2>1, <3>1
    <3>3. depth[sessions[t].spends] = depth[p]
      BY <2>1, <3>1, <3>2
    <3> QED BY <2>1, <3>1, <3>3, SameRank
  <2>4. Rivals(s) \subseteq mempool
    <3>1. CASE Acceptable(s)
      BY <3>1 DEF Acceptable
    <3>2. CASE s \in mempool
      <4>1. s \in Moving(Known)
        BY <1>0, <1>3, <3>2 DEF Moving
      <4>2. \A r \in Rivals(s) : depth[r] = depth[s] /\ r # s
        <5>1. \A r \in Rivals(s) : r # s
          BY <1>3 DEF Rivals
        <5>2. ASSUME NEW r \in Rivals(s) PROVE depth[r] = depth[p] + 1
          <6>1. r \in Moving(DOMAIN sessions) /\ sessions[r].spends = p
            BY <1>0, <2>2
          <6> QED BY <6>1 DEF Ranked
        <5> QED BY <2>1, <5>1, <5>2
      <4>3. \A r \in Rivals(s) : FALSE
        BY <2>2, <4>1, <4>2 DEF Ranked
      <4> QED BY <4>3
    <3> QED BY <3>1, <3>2
  <2>5. /\ \A t \in out : t \in Moving(Known) /\ depth[t] >= depth[s]
        /\ \A t \in Known : sessions[t].spends \in out => t \in out
        /\ Rivals(s) \subseteq out
    <3>1. ASSUME NEW r \in Rivals(s)
          PROVE  /\ r \in Moving(Known) /\ depth[r] = depth[s]
      BY <1>0, <2>1, <2>2, <3>1 DEF Ranked
    <3>2. ASSUME NEW t \in out PROVE t \in Moving(Known) /\ depth[t] >= depth[s]
      <4>1. PICK r \in Rivals(s) : t \in Descendants(r)
        BY <3>2
      <4>2. t \in Moving(Known) /\ depth[t] >= depth[r]
        BY <3>1, <4>1, DescendantFacts
      <4> QED BY <3>1, <4>2
    <3>3. ASSUME NEW t \in Known, sessions[t].spends \in out PROVE t \in out
      <4>1. PICK r \in Rivals(s) : sessions[t].spends \in Descendants(r)
        BY <3>3
      <4>2. t \in Descendants(r)
        BY <3>1, <4>1, DescendantFacts
      <4> QED BY <4>2
    <3>4. ASSUME NEW r \in Rivals(s) PROVE r \in out
      <4>1. r \in Descendants(r)
        BY <3>1, DescendantFacts
      <4> QED BY <4>1
    <3> QED BY <3>2, <3>3, <3>4
  <2> HIDE DEF out
  <2>6. /\ Moving(Known)' = Moving((mempool \ out) \cup chain) \cup {s}
        /\ Moving((mempool \ out) \cup chain) \subseteq Moving(Known)
        /\ Moving(mempool)' = Moving(mempool \ out) \cup {s}
        /\ Moving(mempool \ out) \subseteq Moving(mempool)
        /\ Spendable(Known)' = Moving((mempool \ out) \cup chain) \cup {s, Launch}
    BY <1>0, <1>1, <1>3 DEF Moving, Spendable, out
  <2>7. \A u \in Spendable(Known) : u \notin out \/ u \in chain => u \in Spendable(Known)'
    BY <1>0, <2>6 DEF Spendable, Moving
  <2>8. \A t \in Moving(Known)' : sessions[t].spends \in Spendable(Known)'
    <3> SUFFICES ASSUME NEW t \in Moving(Known)'
                 PROVE  sessions[t].spends \in Spendable(Known)'
      OBVIOUS
    <3>1. CASE t = s
      <4>1. p \notin out
        BY <1>0, <2>1, <2>5
      <4> QED BY <2>1, <2>7, <3>1, <4>1
    <3>2. CASE t \in Moving((mempool \ out) \cup chain)
      <4>1. t \in Moving(Known) /\ t \in Known /\ t \in (mempool \ out) \cup chain
        BY <2>6, <3>2 DEF Moving
      <4>2. sessions[t].spends \in Spendable(Known)
        BY <4>1 DEF Ranked
      <4>3. CASE sessions[t].spends \notin out
        BY <2>7, <4>2, <4>3
      <4>4. CASE sessions[t].spends \in out
        <5>1. t \in chain /\ t \in Moving(chain)
          BY <2>5, <4>1, <4>4 DEF Moving
        <5>2. sessions[t].spends \in Spendable(chain)
          BY <5>1 DEF Ranked
        <5>3. Spendable(chain) \subseteq Spendable(Known)'
          BY <2>6 DEF Spendable, Moving
        <5> QED BY <5>2, <5>3
      <4> QED BY <4>3, <4>4
    <3> QED BY <2>6, <3>1, <3>2
  <2>9. \A t \in Moving((mempool \ out) \cup chain) : depth[t] = depth[s] => t = s
    <3> SUFFICES ASSUME NEW t \in Moving((mempool \ out) \cup chain),
                        depth[t] = depth[s], t # s
                 PROVE  FALSE
      OBVIOUS
    <3>1. t \in Moving(Known) /\ t \in (mempool \ out) \cup chain
      BY <2>6 DEF Moving
    <3>2. t \in Rivals(s)
      BY <2>2, <2>3, <3>1
    <3> QED BY <1>0, <2>4, <2>5, <3>1, <3>2
  <2>10. \A t, u \in Moving(Known)' : depth[t] = depth[u] => t = u
    BY <2>6, <2>9 DEF Ranked
  <2>11. depth[s] > depth[top]
    <3>1. CASE p \in mempool
      <4>1. p \in Moving(mempool)
        BY <2>1, <3>1, MovingFacts DEF Spendable, Moving
      <4> QED BY <1>0, <2>1, <4>1 DEF Ranked
    <3>2. CASE p \in Spendable(chain)
      <4> SUFFICES ASSUME depth[s] <= depth[top] PROVE FALSE
        BY <1>0, <2>1
      <4>1. depth[s] \in 1 .. depth[top]
        BY <1>0, <2>1
      <4>2. PICK t \in Moving(chain) : depth[t] = depth[s]
        BY <4>1 DEF Ranked
      <4>3. t \in Moving(Known) /\ t \in chain
        BY <1>0, <4>2 DEF Moving
      <4>4. sessions[t].spends = p
        BY <2>3, <4>2, <4>3
      <4>5. s = t \/ t \in Rivals(s)
        BY <2>2, <4>3, <4>4
      <4>6. s \notin chain
        BY <1>0 DEF Acceptable
      <4> QED BY <1>0, <2>4, <4>3, <4>5, <4>6
    <3> QED BY <1>0, <2>1, <3>1, <3>2 DEF Spendable, Moving
  <2>12. \A t \in Moving(mempool)' : depth[t] > depth[top]
    BY <2>6, <2>11 DEF Ranked
  <2> QED BY <1>0, <1>a, <1>b, <2>8, <2>10, <2>12 DEF Ranked
<1> QED BY <1>2, <1>3

(* A block takes the first pending transition, which is then the last one  *)
(* mined; a plain session changes nothing of the line.                     *)
LEMMA RankMine ==
  ASSUME TypeInv, NEW depth, NEW top, Ranked(depth, top),
         NEW s, Mine(s)
  PROVE  \E last \in Vault : Ranked(depth, last)'
<1>0. /\ s \in mempool
      /\ s \in Plain \/ sessions[s].spends \in chain \cup {Launch}
      /\ mempool' = mempool \ {s} /\ chain' = chain \cup {s} /\ sessions' = sessions
  BY DEF Mine
<1>1. /\ mempool \subseteq DOMAIN sessions /\ chain \subseteq DOMAIN sessions
      /\ mempool \cap chain = {} /\ Known = mempool \cup chain
      /\ Moving(Known) \subseteq Moving(DOMAIN sessions)
      /\ Moving(chain) \subseteq Moving(Known) /\ Moving(mempool) \subseteq Moving(Known)
      /\ Moving(Known) \subseteq Vault /\ Launch \in Vault
      /\ depth \in [Vault -> Nat] /\ top \in Vault /\ MaxPending \in Nat
  BY MovingFacts, SessionAssumption DEF Known, Moving, Spendable, Ranked
<1>2. /\ Plain' = Plain /\ Known' = Known
      /\ Moving(DOMAIN sessions)' = Moving(DOMAIN sessions)
      /\ Spendable(DOMAIN sessions)' = Spendable(DOMAIN sessions)
      /\ Moving(Known)' = Moving(Known) /\ Spendable(Known)' = Spendable(Known)
  <2>1. Plain' = Plain
    BY <1>0 DEF Plain
  <2>2. Known' = Known
    BY <1>0 DEF Known
  <2> QED BY <1>0, <2>1, <2>2 DEF Moving, Spendable
<1>3. /\ \A t \in Moving(Known)' : sessions'[t].spends \in Spendable(Known)'
      /\ \A t, u \in Moving(Known)' : depth[t] = depth[u] => t = u
      /\ depth[Launch] = 0
  BY <1>0, <1>2 DEF Ranked
<1>4. CASE s \in Plain
  <2>1. /\ Moving(mempool)' = Moving(mempool) /\ Moving(chain)' = Moving(chain)
        /\ Spendable(chain)' = Spendable(chain)
    BY <1>0, <1>2, <1>4 DEF Moving, Spendable
  <2>2. \A t \in Moving(DOMAIN sessions)' :
           /\ sessions'[t].spends \in Spendable(DOMAIN sessions)'
           /\ depth[t] = depth[sessions'[t].spends] + 1
           /\ depth[t] <= depth[top] + MaxPending + 1
    BY <1>0, <1>2 DEF Ranked
  <2>3. /\ \A t \in Moving(chain)' : sessions'[t].spends \in Spendable(chain)'
        /\ \A t \in Moving(mempool)' : depth[t] > depth[top]
        /\ \A t \in Moving(chain)' : depth[t] <= depth[top]
        /\ \A k \in 1 .. depth[top] : \E t \in Moving(chain)' : depth[t] = k
        /\ top \in Spendable(chain)'
    BY <1>0, <2>1 DEF Ranked
  <2>4. Ranked(depth, top)'
    BY <1>1, <1>3, <2>2, <2>3 DEF Ranked
  <2> QED BY <1>1, <2>4
<1>5. CASE s \notin Plain
  <2>0. s \in Moving(mempool) /\ s \in Moving(Known) /\ s \in Vault
    <3>1. s \in Moving(mempool)
      BY <1>0, <1>5 DEF Moving
    <3> QED BY <1>1, <3>1
  <2>1. sessions[s].spends \in Spendable(chain)
    <3>1. sessions[s].spends \in Spendable(Known)
      BY <2>0 DEF Ranked
    <3> QED BY <1>0, <1>5, <3>1 DEF Spendable, Moving
  <2>2. /\ depth[s] = depth[top] + 1 /\ depth[s] \in Nat /\ depth[top] \in Nat
    <3>1. depth[sessions[s].spends] <= depth[top]
      BY <1>1, <2>1 DEF Ranked, Spendable
    <3>2. depth[s] = depth[sessions[s].spends] + 1 /\ depth[s] > depth[top]
      BY <1>1, <2>0 DEF Ranked
    <3>3. sessions[s].spends \in Vault
      BY <1>1, <2>1 DEF Spendable
    <3>4. /\ depth[s] \in Nat /\ depth[top] \in Nat /\ depth[sessions[s].spends] \in Nat
      BY <1>1, <2>0, <3>3
    <3> QED BY <3>1, <3>2, <3>4
  <2>3. /\ Moving(chain)' = Moving(chain) \cup {s}
        /\ Moving(mempool)' = Moving(mempool) \ {s}
        /\ Spendable(chain)' = Spendable(chain) \cup {s}
    BY <1>0, <1>2, <1>5 DEF Moving, Spendable
  <2>4. \A t \in Moving(DOMAIN sessions)' :
           /\ sessions'[t].spends \in Spendable(DOMAIN sessions)'
           /\ depth[t] = depth[sessions'[t].spends] + 1
           /\ depth[t] <= depth[s] + MaxPending + 1
    <3>1. \A t \in Moving(DOMAIN sessions) : depth[t] \in Nat
      BY <1>1, MovingFacts DEF Moving
    <3> QED BY <1>0, <1>1, <1>2, <2>2, <3>1 DEF Ranked
  <2>5. \A t \in Moving(chain)' : sessions'[t].spends \in Spendable(chain)'
    BY <1>0, <2>1, <2>3 DEF Ranked
  <2>6. \A t \in Moving(mempool)' : depth[t] > depth[s]
    <3> SUFFICES ASSUME NEW t \in Moving(mempool), t # s PROVE depth[t] > depth[s]
      BY <2>3
    <3>1. depth[t] > depth[top] /\ depth[t] # depth[s]
      BY <1>1, <2>0 DEF Ranked
    <3>2. depth[t] \in Nat
      BY <1>1
    <3> QED BY <2>2, <3>1, <3>2
  <2>7. \A t \in Moving(chain)' : depth[t] <= depth[s]
    <3>1. \A t \in Moving(chain) : depth[t] \in Nat /\ depth[t] <= depth[top]
      BY <1>1 DEF Ranked
    <3> QED BY <2>2, <2>3, <3>1
  <2>8. \A k \in 1 .. depth[s] : \E t \in Moving(chain)' : depth[t] = k
    <3> SUFFICES ASSUME NEW k \in 1 .. depth[s]
                 PROVE  \E t \in Moving(chain)' : depth[t] = k
      OBVIOUS
    <3>1. k = depth[s] \/ k \in 1 .. depth[top]
      BY <2>2
    <3> QED BY <2>3, <3>1 DEF Ranked
  <2>9. s \in Spendable(chain)'
    BY <2>3
  <2>10. Ranked(depth, s)'
    BY <1>1, <1>3, <2>4, <2>5, <2>6, <2>7, <2>8, <2>9 DEF Ranked
  <2> QED BY <2>0, <2>10
<1> QED BY <1>4, <1>5

(* A new transition stands one after the vault it is built on. *)
LEMMA RankBuild ==
  ASSUME TypeInv, TypeInv', Kept, NEW depth, NEW top, Ranked(depth, top),
         idx \subseteq chain, NEW s \in Session, BuildTransition(s) \/ BuildPlain(s)
  PROVE  \E rank \in [Vault -> Nat] : Ranked(rank, top)'
<1>0. /\ mempool' = mempool /\ chain' = chain /\ s = NewSession
      /\ depth \in [Vault -> Nat] /\ top \in Vault /\ s \in Vault /\ MaxPending \in Nat
      /\ top \in Spendable(DOMAIN sessions)
      /\ Spendable(DOMAIN sessions) \subseteq Vault
  BY MovingFacts, SessionAssumption
     DEF BuildTransition, BuildPlain, world, Ranked, Spendable, Moving, Vault
<1>1. CASE BuildTransition(s)
  <2>1. PICK v \in FollowPendingBacking(NoVault) :
          sessions' = PutAt(sessions, s, [status |-> "BUILT", spends |-> v])
    BY <1>1 DEF BuildTransition
  <2>2. v \in Spendable(DOMAIN sessions) /\ depth[v] <= depth[top] + MaxPending
    BY <2>1, PathBound
  <2>3. v \in Vault /\ [status |-> "BUILT", spends |-> v] \in Row
    BY <1>0, <2>2 DEF Row, Status
  <2>4. /\ s \notin DOMAIN sessions /\ DOMAIN sessions' = DOMAIN sessions \cup {s}
        /\ sessions'[s] = [status |-> "BUILT", spends |-> v]
    BY <1>0, <2>1, <2>3, RowAdded
  <2>5. sessions'[s].spends = v
    BY <2>4
  <2>6. s \notin Spendable(DOMAIN sessions)
    BY <2>4, SessionAssumption DEF Spendable, Moving
  <2>7. depth[v] \in Nat /\ depth[top] \in Nat
    BY <1>0, <2>3
  <2>8. PICK rank \in [Vault -> Nat] :
          /\ rank[s] = depth[v] + 1
          /\ \A w \in Spendable(DOMAIN sessions) : rank[w] = depth[w]
    <3> DEFINE r == [depth EXCEPT ![s] = depth[v] + 1]
    <3>1. /\ r \in [Vault -> Nat] /\ r[s] = depth[v] + 1
          /\ \A w \in Spendable(DOMAIN sessions) : r[w] = depth[w]
      BY <1>0, <2>6, <2>7
    <3> QED BY <3>1
  <2>9. /\ rank[s] = rank[v] + 1 /\ rank[s] <= rank[top] + MaxPending + 1
    BY <1>0, <2>2, <2>7, <2>8
  <2>10. \A t \in DOMAIN sessions' \ DOMAIN sessions :
           /\ sessions'[t].spends \in Spendable(DOMAIN sessions)
           /\ rank[t] = rank[sessions'[t].spends] + 1
           /\ rank[t] <= rank[top] + MaxPending + 1
    BY <2>2, <2>4, <2>5, <2>9
  <2>11. Ranked(rank, top)'
    BY <1>0, <2>8, <2>10, RankRows
  <2> QED BY <2>8, <2>11
<1>2. CASE BuildPlain(s)
  <2>1. sessions' = PutAt(sessions, s, [status |-> "BUILT", spends |-> NoVault])
    BY <1>2 DEF BuildPlain
  <2>2. [status |-> "BUILT", spends |-> NoVault] \in Row
    BY DEF Row, Status
  <2>3. /\ DOMAIN sessions' = DOMAIN sessions \cup {s}
        /\ sessions'[s] = [status |-> "BUILT", spends |-> NoVault]
    BY <1>0, <2>1, <2>2, RowAdded
  <2>4. sessions'[s].spends = NoVault
    BY <2>3
  <2>5. \A t \in DOMAIN sessions' \ DOMAIN sessions : t \in Plain'
    BY <2>3, <2>4 DEF Plain
  <2>6. Ranked(depth, top)'
    BY <1>0, <2>5, RankRows
  <2> QED BY <1>0, <2>6
<1> QED BY <1>1, <1>2

LEMMA RankStep == TypeInv /\ RankInv /\ [Next]_vars => RankInv'
<1> SUFFICES ASSUME TypeInv, RankInv, [Next]_vars PROVE RankInv'
  OBVIOUS
<1>0. TypeInv' /\ Kept /\ TypeOK
  BY TypeStep DEF TypeInv
<1>1. CASE \E s \in Session : Evict(s) \/ Reorg(s)
  <2>1. moves \in Nat /\ moves' = moves + 1
    BY <1>1 DEF Evict, Reorg, Move, RankInv
  <2>2. moves' \in Nat /\ moves' # 0
    BY <2>1
  <2> QED BY <2>2 DEF RankInv
<1>2. CASE ~ \E s \in Session : Evict(s) \/ Reorg(s)
  <2>0. moves' = moves /\ moves \in Nat
    BY <1>2 DEF RankInv, Next, Moves, Proceed, Submit, BuildTransition, BuildPlain, SubmitPlain,
                SubmitTransition, GuardianSigns, TestMempoolAccept, SendRawTransaction,
                MarkBroadcast, SubmitDies, GuardianReleases, Index, Reconcile, Confirm,
                LookUp, Fail, WorkerDies, Mine, ReservationLapses, vars, world
  <2> SUFFICES ASSUME moves = 0
               PROVE  /\ idx' \subseteq chain'
                      /\ \E depth \in [Vault -> Nat], top \in Vault : Ranked(depth, top)'
    BY <2>0 DEF RankInv
  <2>1. idx \subseteq chain
    BY DEF RankInv
  <2>2. PICK depth \in [Vault -> Nat], top \in Vault : Ranked(depth, top)
    BY DEF RankInv
  <2>3. ASSUME mempool' = mempool, chain' = chain, idx' \in {idx, chain},
               DOMAIN sessions' = DOMAIN sessions
        PROVE  /\ idx' \subseteq chain'
               /\ \E d \in [Vault -> Nat], t \in Vault : Ranked(d, t)'
    <3>1. Ranked(depth, top)'
      BY <1>0, <2>2, <2>3, RankRows
    <3> QED BY <2>1, <2>2, <2>3, <3>1
  <2>4. ASSUME NEW s \in Session, BuildTransition(s) \/ BuildPlain(s)
        PROVE  /\ idx' \subseteq chain'
               /\ \E d \in [Vault -> Nat], t \in Vault : Ranked(d, t)'
    <3>1. idx' = idx /\ chain' = chain
      BY <2>4 DEF BuildTransition, BuildPlain, world
    <3>2. \E rank \in [Vault -> Nat] : Ranked(rank, top)'
      BY <1>0, <2>1, <2>2, <2>4, RankBuild
    <3> QED BY <2>1, <2>2, <3>1, <3>2
  <2>5. ASSUME NEW s \in Session, Mine(s)
        PROVE  /\ idx' \subseteq chain'
               /\ \E d \in [Vault -> Nat], t \in Vault : Ranked(d, t)'
    <3>1. idx' = idx /\ chain' = chain \cup {s}
      BY <2>5 DEF Mine
    <3>2. \E last \in Vault : Ranked(depth, last)'
      BY <2>2, <2>5, RankMine
    <3> QED BY <2>1, <2>2, <3>1, <3>2
  <2>6. ASSUME NEW c \in submits, SendRawTransaction(c)
        PROVE  /\ idx' \subseteq chain'
               /\ \E d \in [Vault -> Nat], t \in Vault : Ranked(d, t)'
    <3>1. idx' = idx /\ chain' = chain /\ sessions' = sessions /\ c.session \in DOMAIN sessions
      BY <1>0, <2>6, SubmitFacts DEF SendRawTransaction
    <3>2. CASE mempool' = mempool
      BY <2>3, <3>1, <3>2
    <3>3. CASE /\ Acceptable(c.session) \/ c.session \in mempool
               /\ mempool' = (mempool \ UNION {Descendants(r) : r \in Rivals(c.session)})
                                \cup {c.session}
      <4>1. Ranked(depth, top)'
        BY <1>0, <2>2, <3>1, <3>3, RankSend
      <4> QED BY <2>1, <2>2, <3>1, <4>1
    <3> QED BY <2>6, <3>2, <3>3 DEF SendRawTransaction
  <2>7. ASSUME NEW s \in DOMAIN sessions, NEW st \in Status, sessions' = SetStatus(s, st)
        PROVE  DOMAIN sessions' = DOMAIN sessions
    BY <2>7, RowMarked
  <2>8. ASSUME NEW c \in submits, MarkBroadcast(c)
        PROVE  /\ idx' \subseteq chain'
               /\ \E d \in [Vault -> Nat], t \in Vault : Ranked(d, t)'
    <3>1. c.session \in DOMAIN sessions
      BY <1>0, SubmitFacts
    <3>2. DOMAIN sessions' = DOMAIN sessions
      BY <2>7, <2>8, <3>1 DEF MarkBroadcast, Status
    <3> QED BY <2>3, <2>8, <3>2 DEF MarkBroadcast, world
  <2>9. ASSUME NEW s \in Session, Confirm(s) \/ Fail(s)
        PROVE  /\ idx' \subseteq chain'
               /\ \E d \in [Vault -> Nat], t \in Vault : Ranked(d, t)'
    <3>1. DOMAIN sessions' = DOMAIN sessions
      BY <1>0, <2>7, <2>9 DEF Confirm, Fail, Status, TypeOK
    <3> QED BY <2>3, <2>9, <3>1 DEF Confirm, Fail, world
  <2>10. CASE \/ \E s \in Session : Submit(s)
              \/ \E c \in submits : \/ GuardianSigns(c) \/ GuardianReleases(c)
                                   \/ TestMempoolAccept(c) \/ SubmitDies(c)
              \/ Index \/ WorkerDies \/ \E s \in Session : LookUp(s)
              \/ \E v \in Vault : ReservationLapses(v)
              \/ UNCHANGED vars
    <3>1. UNCHANGED <<sessions, mempool, chain>> /\ idx' \in {idx, chain}
      BY <2>10 DEF Submit, SubmitPlain, SubmitTransition, GuardianSigns, GuardianReleases,
                   TestMempoolAccept, SubmitDies, Index, WorkerDies, LookUp,
                   ReservationLapses, vars, world
    <3> QED BY <2>3, <3>1
  <2> QED BY <1>2, <2>4, <2>5, <2>6, <2>8, <2>9, <2>10 DEF Next, Moves, Proceed, Reconcile
<1> QED BY <1>1, <1>2

LEMMA RankInit == Init => RankInv
<1> SUFFICES ASSUME Init, NEW depth, depth = [v \in Vault |-> 0] PROVE RankInv
  OBVIOUS
<1>1. DOMAIN sessions = {} /\ mempool = {} /\ chain = {} /\ idx = {} /\ moves = 0
  BY NothingIsMap DEF Init
<1>2. Launch \in Vault /\ depth \in [Vault -> Nat] /\ depth[Launch] = 0
  BY DEF Vault
<1>3. /\ Moving(DOMAIN sessions) = {} /\ Moving(Known) = {} /\ Moving(chain) = {}
      /\ Moving(mempool) = {} /\ Launch \in Spendable(chain) /\ 1 .. depth[Launch] = {}
  BY <1>1, <1>2 DEF Moving, Spendable, Known
<1>4. Ranked(depth, Launch)
  BY <1>2, <1>3 DEF Ranked
<1> QED BY <1>1, <1>2, <1>4 DEF RankInv

(* The pending transitions stand at different distances, 1 to              *)
(* MaxPending + 1 after the last one mined.                                *)
LEMMA WithinPolicy == TypeInv /\ RankInv => PendingWithinPolicy
<1> SUFFICES ASSUME TypeInv, RankInv, moves = 0
             PROVE  Cardinality(Moving(mempool)) <= MaxPending + 1
  BY DEF PendingWithinPolicy, Moving
<1>1. PICK depth \in [Vault -> Nat], top \in Vault : Ranked(depth, top)
  BY DEF RankInv
<1>2. /\ MaxPending + 1 \in Nat /\ depth[top] \in Nat
      /\ Moving(mempool) \subseteq Vault
      /\ Moving(mempool) \subseteq Moving(Known)
      /\ Moving(mempool) \subseteq Moving(DOMAIN sessions)
  BY MovingFacts, SessionAssumption DEF Moving, Known
<1> DEFINE S == Moving(mempool)
           place == [s \in S |-> depth[s] - depth[top]]
           I == 1 .. MaxPending + 1
<1>3. \A s \in S : depth[s] - depth[top] \in I
  <2> SUFFICES ASSUME NEW s \in S PROVE depth[s] - depth[top] \in I
    OBVIOUS
  <2>1. depth[s] \in Nat /\ depth[s] > depth[top] /\ depth[s] <= depth[top] + MaxPending + 1
    BY <1>1, <1>2 DEF Ranked
  <2> QED BY <1>2, <2>1, SessionAssumption
<1>4. \A s, t \in S : depth[s] - depth[top] = depth[t] - depth[top] => s = t
  <2> SUFFICES ASSUME NEW s \in S, NEW t \in S, depth[s] - depth[top] = depth[t] - depth[top]
               PROVE  s = t
    OBVIOUS
  <2>1. depth[s] \in Nat /\ depth[t] \in Nat
    BY <1>1, <1>2
  <2>2. depth[s] = depth[t]
    BY <1>2, <2>1
  <2> QED BY <1>1, <1>2, <2>2 DEF Ranked
<1>5. place \in Injection(S, I)
  BY <1>3, <1>4 DEF Injection, IsInjective
<1>6. IsFiniteSet(I) /\ Cardinality(I) = MaxPending + 1
  <2>1. 1 \in Int /\ MaxPending + 1 \in Int /\ ~(1 > MaxPending + 1)
    BY <1>2, SessionAssumption
  <2>2. IsFiniteSet(I) /\ Cardinality(I) = (MaxPending + 1) - 1 + 1
    BY <2>1, FS_Interval
  <2> QED BY <1>2, <2>2
<1>7. Cardinality(S) <= Cardinality(I)
  BY <1>5, <1>6, FS_Injection
<1> QED BY <1>6, <1>7

(* What a step may do to the network and to what is given up: a block      *)
(* takes what Core knew, what Core did not know was sent by a request that *)
(* has still to mark it, and what is failed was found gone.                *)
Given ==
  /\ chain' \subseteq Known
  /\ \A s \in Known' \ Known : Step("mark", s) \in submits'
  /\ \A s \in DOMAIN sessions' :
       sessions'[s].status = "FAILED" =>
         /\ s \in DOMAIN sessions
         /\ sessions[s].status = "FAILED" \/ (s \in gone /\ Known' = Known)
  /\ gone' \subseteq gone \/ Known' = Known

LEMMA GivenStep == TypeInv /\ [Next]_vars => Given
<1> SUFFICES ASSUME TypeInv, [Next]_vars PROVE Given
  OBVIOUS
<1>0. TypeOK
  BY DEF TypeInv
<1>1. ASSUME UNCHANGED <<sessions, mempool, chain>> PROVE Given
  BY <1>1 DEF Given, Known
<1>2. ASSUME NEW s \in Session, BuildTransition(s) \/ BuildPlain(s) PROVE Given
  <2>1. PICK r \in Row : /\ s = NewSession /\ sessions' = PutAt(sessions, s, r)
                         /\ r.status = "BUILT"
    <3>1. \A v \in Vault \cup {NoVault} :
            /\ [status |-> "BUILT", spends |-> v] \in Row
            /\ [status |-> "BUILT", spends |-> v].status = "BUILT"
      BY DEF Row, Status
    <3>2. FollowPendingBacking(NoVault) \subseteq Vault
      BY DEF FollowPendingBacking
    <3>3. CASE BuildTransition(s)
      BY <3>1, <3>2, <3>3 DEF BuildTransition
    <3>4. CASE BuildPlain(s)
      BY <3>1, <3>4 DEF BuildPlain
    <3> QED BY <1>2, <3>3, <3>4
  <2>2. /\ DOMAIN sessions' = DOMAIN sessions \cup {s} /\ sessions'[s] = r
        /\ \A t \in DOMAIN sessions : sessions'[t] = sessions[t]
    BY <2>1, RowAdded
  <2>3. mempool' = mempool /\ chain' = chain
    BY <1>2 DEF BuildTransition, BuildPlain, world
  <2> QED BY <2>1, <2>2, <2>3 DEF Given, Known
<1>3. ASSUME NEW s \in DOMAIN sessions, NEW st \in Status, sessions' = SetStatus(s, st),
             st = "FAILED" => s \in gone, UNCHANGED <<mempool, chain>>
      PROVE  Given
  <2>1. /\ DOMAIN sessions' = DOMAIN sessions /\ sessions'[s].status = st
        /\ \A t \in DOMAIN sessions : t # s => sessions'[t] = sessions[t]
    BY <1>3, RowMarked
  <2> QED BY <1>3, <2>1 DEF Given, Known
<1>4. ASSUME NEW c \in submits, MarkBroadcast(c) PROVE Given
  <2>1. c.session \in DOMAIN sessions
    BY <1>0, SubmitFacts
  <2> QED BY <1>3, <1>4, <2>1 DEF MarkBroadcast, Status, world
<1>5. ASSUME NEW s \in Session, Confirm(s) \/ Fail(s) PROVE Given
  <2>1. s \in DOMAIN sessions
    BY <1>0, <1>5 DEF Confirm, Fail, TypeOK
  <2> QED BY <1>3, <1>5, <2>1 DEF Confirm, Fail, Status, world
<1>6. ASSUME NEW c \in submits, SendRawTransaction(c) PROVE Given
  <2>1. /\ sessions' = sessions /\ chain' = chain /\ gone' = gone
        /\ \/ mempool' \subseteq mempool
           \/ /\ mempool' \subseteq mempool \cup {c.session}
              /\ Step("mark", c.session) \in submits'
    BY <1>6 DEF SendRawTransaction, Continue
  <2> QED BY <2>1 DEF Given, Known
<1>7. ASSUME NEW s \in Session, Mine(s) \/ Evict(s) \/ Reorg(s) PROVE Given
  <2>1. /\ sessions' = sessions /\ gone' = gone
        /\ mempool' \cup chain' \subseteq mempool \cup chain
    BY <1>7 DEF Mine, Evict, Reorg
  <2> QED BY <2>1 DEF Given, Known
<1> QED BY <1>1, <1>2, <1>4, <1>5, <1>6, <1>7
    DEF Next, Moves, Proceed, Reconcile, Submit, SubmitPlain, SubmitTransition,
        GuardianSigns, GuardianReleases, TestMempoolAccept, SubmitDies, Index, LookUp,
        WorkerDies, ReservationLapses, vars, world

LEMMA GoneStep == TypeInv /\ GoneInv /\ [Next]_vars => GoneInv'
<1> SUFFICES ASSUME TypeInv, GoneInv, [Next]_vars PROVE GoneInv'
  OBVIOUS
<1>1. Given /\ Kept
  BY GivenStep, TypeStep
<1>2. /\ spoiled \subseteq spoiled'
      /\ gone' \cap Known \subseteq spoiled' /\ gone \cap mempool' \subseteq spoiled'
      /\ \A s \in DOMAIN sessions :
           Step("mark", s) \in submits \ submits' /\ sessions'[s].status # "BROADCAST"
             => s \in spoiled'
  <2>1. CASE UNCHANGED vars
    BY <2>1 DEF vars, history, world, GoneInv, Known
  <2>2. CASE Next
    BY <2>2 DEF Next, Remember
  <2> QED BY <2>1, <2>2
<1>3. gone' \cap Known' \subseteq spoiled'
  BY <1>1, <1>2 DEF Given, GoneInv, Known
<1>4. ASSUME NEW s \in DOMAIN sessions' \ spoiled', sessions'[s].status = "FAILED",
             s \in Known'
      PROVE  Step("mark", s) \in submits'
  <2>1. s \in DOMAIN sessions /\ sessions[s].status = "FAILED"
    BY <1>1, <1>2, <1>4 DEF Given, GoneInv
  <2>2. CASE s \in Known
    <3>1. Step("mark", s) \in submits
      BY <1>2, <1>4, <2>1, <2>2 DEF GoneInv, FailedIsGone
    <3>2. sessions'[s].status # "BROADCAST"
      BY <1>4
    <3> QED BY <1>2, <1>4, <2>1, <3>1, <3>2
  <2>3. CASE s \notin Known
    BY <1>1, <1>4, <2>3 DEF Given
  <2> QED BY <2>2, <2>3
<1> QED BY <1>3, <1>4 DEF GoneInv, FailedIsGone

LEMMA GoneInit == Init => GoneInv
  BY NothingIsMap DEF Init, GoneInv, FailedIsGone, Known

(* The chain of pending transitions forks only on a vault whose            *)
(* reservation went from a live transition, does not outgrow what Core     *)
(* relays while no block is disconnected, and holds nothing that was given *)
(* up except after a fault or the worker's race with a submission:         *)
(* whatever the requests, their interleaving, throwing signers, deaths,    *)
(* evictions, failed calls and retries, for every                          *)
(* MAX_PENDING_BACKING_CHAIN.                                              *)
THEOREM PendingChainHolds == Spec => []PendingChain
<1> DEFINE Inv == TypeInv /\ ForkInv /\ RankInv /\ GoneInv
<1>1. Init => Inv
  BY TypeInit, ForkInit, RankInit, GoneInit
<1>2. Inv /\ [Next]_vars => Inv'
  BY TypeStep, ForkStep, RankStep, GoneStep
<1>3. Inv => PendingChain
  BY NoFork, WithinPolicy DEF PendingChain, GoneInv
<1> HIDE DEF Inv
<1> QED BY <1>1, <1>2, <1>3, PTL DEF Spec

-----------------------------------------------------------------------------
(* The user's signature, from the browser's end and from the server's      *)
(* (UserSigning).  An instance's invariants are stated over this module's  *)
(* own operators.                                                          *)
(* The wallet's own addresses are among its scripts. *)
LEMMA AccountIsOwn ==
  ASSUME NEW w \in Browser \cup Dev
  PROVE  W!Account(w).payments \in W!Scripts(w) /\ W!Account(w).ordinals \in W!Scripts(w)
<1> DEFINE addrs == Addresses[w]
           taproot == {i \in DOMAIN addrs : addrs[i].format = "taproot"}
           payment == DOMAIN addrs \ taproot
           find(S) == addrs[CHOOSE i \in S : \A j \in S : i <= j].script
<1>1. DOMAIN addrs \in SUBSET Nat /\ DOMAIN addrs # {}
  <2>1. addrs \in Seq([script : STRING, format : STRING]) /\ addrs # <<>>
    BY WalletAssumption
  <2> HIDE DEF addrs
  <2>2. DOMAIN addrs = 1 .. Len(addrs) /\ Len(addrs) \in Nat /\ Len(addrs) # 0
    BY <2>1
  <2> QED BY <2>2
<1>2. ASSUME NEW S \in SUBSET DOMAIN addrs, S # {}
      PROVE  find(S) \in W!Scripts(w)
  <2>1. \E n \in S : \A m \in S : n <= m
    BY <1>1, <1>2, LeastNat
  <2>2. (CHOOSE i \in S : \A j \in S : i <= j) \in S
    BY <2>1
  <2> QED BY <2>2 DEF W!Scripts
<1>3. payment # {} \/ taproot # {}
  BY <1>1
<1>4. W!Account(w) = [payments |-> find(IF payment # {} THEN payment ELSE taproot),
                      ordinals |-> find(IF taproot # {} THEN taproot ELSE payment)]
  BY DEF W!Account, W!splitAddresses
<1>5. find(IF payment # {} THEN payment ELSE taproot) \in W!Scripts(w)
  <2>1. CASE payment # {}
    BY <2>1, <1>2
  <2>2. CASE payment = {}
    BY <2>2, <1>2, <1>3
  <2> QED BY <2>1, <2>2
<1>6. find(IF taproot # {} THEN taproot ELSE payment) \in W!Scripts(w)
  <2>1. CASE taproot # {}
    BY <2>1, <1>2
  <2>2. CASE taproot = {}
    BY <2>2, <1>2, <1>3
  <2> QED BY <2>1, <2>2
<1> HIDE DEF find, payment, taproot
<1> QED BY <1>4, <1>5, <1>6

(* What a silent reconnection is, and what stops one. *)
Reconnection == [w : Browser, live : BOOLEAN]
LEMMA Stopped ==
  \A s \in Reconnection : /\ [s EXCEPT !.live = FALSE] \in Reconnection
                          /\ [s EXCEPT !.live = FALSE].live = FALSE
  BY DEF Reconnection
LEMMA Started ==
  \A w \in Browser : \A s : s = [w |-> w, live |-> TRUE] => s \in Reconnection /\ s.w = w /\ s.live
  BY DEF Reconnection
LEMMA SameReconnection ==
  ASSUME NEW s \in Reconnection, NEW r \in Reconnection, s.w = r.w, s.live, r.live
  PROVE  s = r
  BY DEF Reconnection

(* What the connection, the storage and the silent reconnections agree on. *)
ConnOK ==
  /\ regtest \in BOOLEAN
  /\ {conn, stored} \subseteq W!Wallet \cup {""} /\ asked \subseteq W!Wallet
  /\ test \in Dev \cup {""} /\ vault \in 1 .. MaxVault
  /\ chosen = stored
  /\ conn # "" => conn = stored
  /\ regtest => silent = {}
  /\ silent \subseteq Reconnection
  /\ \A s \in silent : s.live => conn = "" /\ s.w = stored /\ s.w # ""

LEMMA ConnInit == W!Init => ConnOK
<1> SUFFICES ASSUME W!Init PROVE ConnOK
  OBVIOUS
<1>1. 1 \in 1 .. MaxVault
  <2>1. MaxVault \in Nat /\ MaxVault # 0
    BY WalletAssumption
  <2> QED BY <2>1
<1>2. \A s \in silent : s = [w |-> stored, live |-> TRUE] /\ stored # "" /\ ~regtest
  BY DEF W!Init
<1>3. \A s \in silent : s \in Reconnection /\ s.w = stored /\ s.w # ""
  <2>1. stored # "" /\ ~regtest => stored \in Browser
    BY DEF W!Init, W!Wallet
  <2> QED BY <1>2, <2>1, Started
<1> QED BY <1>1, <1>2, <1>3 DEF W!Init, ConnOK, W!Wallet

LEMMA Below == \A m \in Nat : \A v \in 1 .. m : v < m => v + 1 \in 1 .. m
  OBVIOUS

LEMMA ConnStep ==
  ASSUME ConnOK, [W!Next]_W!vars
  PROVE  ConnOK'
<1> USE DEF ConnOK, W!Wallet
<1> "" \notin W!Wallet
  BY WalletAssumption
<1>1. ASSUME NEW w \in W!Wallet, W!Ask(w) PROVE ConnOK'
  BY <1>1 DEF W!Ask
<1>2. ASSUME NEW w \in W!Wallet, W!Connected(w) PROVE ConnOK'
  <2>1. CASE conn = w
    BY <1>2, <2>1 DEF W!Connected
  <2>2. CASE conn # w
    <3>1. \A s \in silent' : s \in Reconnection /\ ~s.live
      <4>1. w # ""
        OBVIOUS
      <4>2. silent' = {[s EXCEPT !.live = FALSE] : s \in silent}
        BY <1>2, <2>2, <4>1 DEF W!Connected, W!Reconnect
      <4>3. silent \subseteq Reconnection
        OBVIOUS
      <4> QED BY <4>2, <4>3, Stopped, Zenon
    <3>2. regtest' => silent' = {}
      BY <1>2, <2>2 DEF W!Connected
    <3> QED BY <1>2, <3>1, <3>2 DEF W!Connected
  <2> QED BY <2>1, <2>2
<1>3. ASSUME NEW w \in W!Wallet, W!ConnectedDev(w) PROVE ConnOK'
  BY <1>3 DEF W!ConnectedDev, W!installDevWallet
<1>4. ASSUME NEW w \in W!Wallet, W!Refused(w) PROVE ConnOK'
  BY <1>4 DEF W!Refused
<1>5. CASE W!disconnect
  <2>1. \A s \in silent' : s \in Reconnection /\ ~s.live
    <3>1. silent' = {[s EXCEPT !.live = FALSE] : s \in silent}
      BY <1>5 DEF W!disconnect, W!Reconnect
    <3>2. silent \subseteq Reconnection
      OBVIOUS
    <3> QED BY <3>1, <3>2, Stopped, Zenon
  <2>2. regtest' => silent' = {}
    BY <1>5 DEF W!disconnect, W!Reconnect
  <2> QED BY <1>5, <2>1, <2>2 DEF W!disconnect
<1>6. CASE W!Reload
  <2>1. \A s \in silent' : s = [w |-> stored, live |-> TRUE] /\ stored # "" /\ ~regtest
    BY <1>6 DEF W!Reload
  <2>2. \A s \in silent' : s \in Reconnection /\ s.w = stored /\ s.w # ""
    BY <2>1, Started
  <2> QED BY <1>6, <2>1, <2>2 DEF W!Reload
<1>7. ASSUME NEW s \in silent, W!Silent(s) PROVE ConnOK'
  <2>1. \A r \in silent \ {s} : s.live => ~r.live
    <3> SUFFICES ASSUME NEW r \in silent, r # s, s.live, r.live PROVE FALSE
      OBVIOUS
    <3> QED BY SameReconnection
  <2>2. silent' \subseteq silent /\ (\A r \in silent' : r # s)
    BY <1>7 DEF W!Silent
  <2>3. CASE s.live
    BY <1>7, <2>1, <2>2, <2>3 DEF W!Silent
  <2>4. CASE ~s.live
    BY <1>7, <2>2, <2>4 DEF W!Silent
  <2> QED BY <2>3, <2>4
<1>8. CASE \/ \E op \in DOMAIN W!Flow : W!Start(op)
           \/ W!Confirm \/ W!Quote \/ W!Call \/ W!Build \/ W!signPsbt \/ W!signBip322
           \/ W!Submit \/ W!Fails
  <2>1. UNCHANGED <<W!wallets, vault>>
    BY <1>8, Zenon DEF W!Start, W!Confirm, W!Quote, W!Call, W!Build, W!signPsbt, W!signBip322,
              W!Submit, W!Fails
  <2> QED BY <2>1 DEF W!wallets
<1>9. CASE W!VaultMoves
  <2>1. MaxVault \in Nat
    BY WalletAssumption
  <2>2. vault' \in 1 .. MaxVault
    <3>1. vault \in 1 .. MaxVault
      OBVIOUS
    <3> HIDE DEF ConnOK
    <3>2. vault < MaxVault /\ vault' = vault + 1
      BY <1>9 DEF W!VaultMoves
    <3> QED BY <2>1, <3>1, <3>2, Below, Zenon
  <2>3. UNCHANGED W!wallets
    BY <1>9 DEF W!VaultMoves
  <2> QED BY <2>2, <2>3 DEF W!wallets
<1>10. CASE UNCHANGED W!vars
  BY <1>10 DEF W!vars
<1> QED
  BY <1>1, <1>2, <1>3, <1>4, <1>5, <1>6, <1>7, <1>8, <1>9, <1>10 DEF W!Next

-----------------------------------------------------------------------------
(* The flow under way.  *)
JobType == [op : DOMAIN W!Flow, step : Nat \ {0}, by : Browser \cup Dev,
            quote : Nat, built : Nat, signed : SUBSET STRING]
StepIs(j, x) == j.step <= Len(W!Flow[j.op]) /\ W!Flow[j.op][j.step] = x
SignedOK(j, reg) ==
  /\ j.signed \cap {"vault", "other"} = {}
  /\ ~reg => j.signed = W!Wanted(j)

(* A buy past its build is on the state it was quoted on; what is about to *)
(* be submitted is signed as it must be.                                   *)
JobOK(j, reg) ==
  /\ j \in JobType
  /\ j.by \in (IF reg THEN Dev ELSE Browser)
  /\ j.op = "buy" /\ j.step >= 4 => j.built = j.quote
  /\ StepIs(j, "submit") => SignedOK(j, reg)
JobInv == job = {} \/ \E j \in JobType : job = {j} /\ JobOK(j, regtest)

(* The order of the calls: only a signature comes before a submission, a   *)
(* review is confirmed second, and a buy is quoted first and built third.  *)
LEMMA FlowShape ==
  ASSUME NEW op \in DOMAIN W!Flow, NEW k \in Nat \ {0}, k <= Len(W!Flow[op])
  PROVE  /\ k + 1 <= Len(W!Flow[op]) /\ W!Flow[op][k + 1] = "submit" =>
              W!Flow[op][k] = IF op \in {"list", "cancel"} THEN "signBip322" ELSE "signPsbt"
         /\ W!Flow[op][k] = "signPsbt" => op \notin {"list", "cancel"}
         /\ W!Flow[op][k] = "confirm" => k = 2
         /\ W!Flow[op][1] # "submit"
         /\ op = "buy" => /\ W!Flow[op][k] = "build" <=> k = 3
                          /\ W!Flow[op][k] = "quote" <=> k = 1
<1> USE DEF W!Flow, W!tradeFlow, W!launchFlow, W!send, W!sendTokens, W!list, W!createListing,
            W!buyAsk, W!buyListing, W!sellerSign, W!cancel
<1>1. CASE op = "buy"
  BY <1>1
<1>8. CASE op = "redeem"
  BY <1>8
<1>2. CASE op = "launch"
  BY <1>2
<1>3. CASE op = "send"
  BY <1>3
<1>4. CASE op = "list"
  BY <1>4
<1>5. CASE op = "fill"
  BY <1>5
<1>6. CASE op = "sell"
  BY <1>6
<1>7. CASE op = "cancel"
  BY <1>7
<1> QED BY <1>1, <1>2, <1>3, <1>4, <1>5, <1>6, <1>7, <1>8


LEMMA FlowLen == \A op \in DOMAIN W!Flow : Len(W!Flow[op]) \in Nat
  BY DEF W!Flow, W!tradeFlow, W!launchFlow, W!send, W!sendTokens, W!list, W!createListing,
         W!buyAsk, W!buyListing, W!sellerSign, W!cancel

(* What the wallet of the click signs is what the server wants signed. *)
LEMMA AdapterSignsOwn ==
  ASSUME NEW w \in Browser, NEW op, NEW S, S = W!Inputs(op, w)
  PROVE  /\ W!AdapterSigns(w, S) = S \ {"vault", "other"}
         /\ W!AdapterSigns(w, S) \cap {"vault", "other"} = {}
<1> DEFINE p == W!Account(w).payments
           o == W!Account(w).ordinals
<1>1. p \in W!Scripts(w) /\ o \in W!Scripts(w)
  BY AccountIsOwn
<1>2. W!Scripts(w) \cap {"vault", "other"} = {}
  BY WalletAssumption
<1>3. S \subseteq {"vault", "other", p, o}
  BY DEF W!Inputs
<1>4. W!AdapterSigns(w, S) = S \cap W!Scripts(w) \/ W!AdapterSigns(w, S) = S \cap {p, o}
  BY DEF W!AdapterSigns, W!inputsOwnedBy
<1> HIDE DEF p, o
<1> QED BY <1>1, <1>2, <1>3, <1>4

LEMMA DevSignsOwn ==
  ASSUME NEW w \in Dev, NEW S
  PROVE  W!DevSigns(w, S) \cap {"vault", "other"} = {}
<1>1. W!Scripts(w) \cap {"vault", "other"} = {}
  BY WalletAssumption
<1> QED BY <1>1 DEF W!DevSigns

(* Scripts are strings. *)
LEMMA ScriptStrings ==
  ASSUME NEW w \in Browser \cup Dev
  PROVE  W!Scripts(w) \subseteq STRING
<1> DEFINE addrs == Addresses[w]
<1>1. addrs \in Seq([script : STRING, format : STRING])
  BY WalletAssumption
<1>2. W!Scripts(w) = {addrs[i].script : i \in DOMAIN addrs}
  BY DEF W!Scripts
<1> HIDE DEF addrs
<1>3. \A i \in DOMAIN addrs : addrs[i] \in [script : STRING, format : STRING]
  <2>1. PICK T : T = [script : STRING, format : STRING]
    OBVIOUS
  <2>2. addrs \in Seq(T)
    BY <1>1, <2>1
  <2>3. \A i \in DOMAIN addrs : addrs[i] \in T
    BY <2>2
  <2> QED BY <2>1, <2>3
<1>4. \A i \in DOMAIN addrs : addrs[i].script \in STRING
  BY <1>3
<1> QED BY <1>2, <1>4


LEMMA JobInit == W!Init => JobInv
  BY DEF W!Init, JobInv

LEMMA TheJob ==
  ASSUME NEW j, job = {j}
  PROVE  /\ W!Job = j
         /\ \A x : W!At(x) <=> StepIs(j, x)
         /\ job # {}
<1>1. W!Job = j
  BY DEF W!Job
<1> QED BY <1>1 DEF W!At, StepIs

(* One call later. *)
Later(j, k) == k \in JobType /\ k.op = j.op /\ k.step = j.step + 1
LEMMA LaterOK ==
  ASSUME NEW reg \in BOOLEAN, NEW j \in JobType, NEW k, JobOK(j, reg), Later(j, k),
         j.step <= Len(W!Flow[j.op]),
         k.by \in (IF reg THEN Dev ELSE Browser),
         j.op = "buy" /\ j.step >= 3 => k.built = k.quote,
         StepIs(j, "signPsbt") \/ StepIs(j, "signBip322") => SignedOK(k, reg)
  PROVE  JobOK(k, reg)
<1>1. j.op \in DOMAIN W!Flow /\ j.step \in Nat \ {0}
  BY DEF JobType
<1>2. StepIs(k, "submit") => StepIs(j, "signPsbt") \/ StepIs(j, "signBip322")
  BY <1>1, FlowShape DEF StepIs, Later
<1>3. k.op = "buy" /\ k.step >= 4 => k.built = k.quote
  BY <1>1 DEF Later
<1> QED BY <1>2, <1>3 DEF JobOK, Later

LEMMA SetStep ==
  ASSUME NEW j \in JobType, NEW v \in Nat \ {0}, NEW m, m = [j EXCEPT !.step = v]
  PROVE  /\ m \in JobType
         /\ m.step = v
         /\ m.op = j.op
         /\ m.by = j.by
         /\ m.quote = j.quote
         /\ m.built = j.built
         /\ m.signed = j.signed
  BY DEF JobType

LEMMA SetBy ==
  ASSUME NEW j \in JobType, NEW v \in Browser \cup Dev, NEW m, m = [j EXCEPT !.by = v]
  PROVE  /\ m \in JobType
         /\ m.by = v
         /\ m.op = j.op
         /\ m.step = j.step
         /\ m.quote = j.quote
         /\ m.built = j.built
         /\ m.signed = j.signed
  BY DEF JobType

LEMMA SetQuote ==
  ASSUME NEW j \in JobType, NEW v \in Nat, NEW m, m = [j EXCEPT !.quote = v]
  PROVE  /\ m \in JobType
         /\ m.quote = v
         /\ m.op = j.op
         /\ m.step = j.step
         /\ m.by = j.by
         /\ m.built = j.built
         /\ m.signed = j.signed
  BY DEF JobType

LEMMA SetBuilt ==
  ASSUME NEW j \in JobType, NEW v \in Nat, NEW m, m = [j EXCEPT !.built = v]
  PROVE  /\ m \in JobType
         /\ m.built = v
         /\ m.op = j.op
         /\ m.step = j.step
         /\ m.by = j.by
         /\ m.quote = j.quote
         /\ m.signed = j.signed
  BY DEF JobType

LEMMA SetSigned ==
  ASSUME NEW j \in JobType, NEW v \in SUBSET STRING, NEW m, m = [j EXCEPT !.signed = v]
  PROVE  /\ m \in JobType
         /\ m.signed = v
         /\ m.op = j.op
         /\ m.step = j.step
         /\ m.by = j.by
         /\ m.quote = j.quote
         /\ m.built = j.built
  BY DEF JobType

LEMMA Reviewed ==
  ASSUME NEW j \in JobType
  PROVE  \A k, l, m : /\ k = [j EXCEPT !.step = 2]
                      /\ l = [k EXCEPT !.built = 0]
                      /\ m = [l EXCEPT !.signed = {}]
                      => m \in JobType /\ m.op = j.op /\ m.step = 2 /\ m.by = j.by
<1>1. \A k : k = [j EXCEPT !.step = 2] => k \in JobType /\ k.op = j.op /\ k.step = 2 /\ k.by = j.by
  BY SetStep
<1>2. \A k \in JobType : \A l : l = [k EXCEPT !.built = 0] =>
        l \in JobType /\ l.op = k.op /\ l.step = k.step /\ l.by = k.by
  BY SetBuilt
<1>3. \A l \in JobType : \A m : m = [l EXCEPT !.signed = {}] =>
        m \in JobType /\ m.op = l.op /\ m.step = l.step /\ m.by = l.by
  BY DEF JobType
<1>4. TAKE k, l, m
<1>5. HAVE /\ k = [j EXCEPT !.step = 2]
           /\ l = [k EXCEPT !.built = 0]
           /\ m = [l EXCEPT !.signed = {}]
<1>6. k \in JobType /\ k.op = j.op /\ k.step = 2 /\ k.by = j.by
  BY <1>1, <1>5, Zenon
<1>7. l \in JobType /\ l.op = k.op /\ l.step = k.step /\ l.by = k.by
  BY <1>2, <1>5, <1>6, Zenon
<1>8. m \in JobType /\ m.op = l.op /\ m.step = l.step /\ m.by = l.by
  BY <1>3, <1>5, <1>7, Zenon
<1> QED BY <1>6, <1>7, <1>8, Zenon

(* What an error leaves: a review to confirm again, or nothing. *)
LEMMA AbandonOK ==
  ASSUME NEW j \in JobType, job = {j}, JobOK(j, regtest), W!Abandon, UNCHANGED regtest,
         j.step - 1 <= Len(W!Flow[j.op])
  PROVE  JobInv'
<1>1. W!Job = j
  BY TheJob
<1>2. CASE ~\E k \in 1 .. (j.step - 1) : W!Flow[j.op][k] = "confirm"
  BY <1>1, <1>2 DEF W!Abandon, JobInv
<1>3. CASE \E k \in 1 .. (j.step - 1) : W!Flow[j.op][k] = "confirm"
  <2>1. PICK k \in 1 .. (j.step - 1) : W!Flow[j.op][k] = "confirm"
    BY <1>3
  <2>2. j.op \in DOMAIN W!Flow /\ j.step \in Nat \ {0}
    BY DEF JobType
  <2>3. k \in Nat \ {0} /\ k <= j.step - 1
    BY <2>2
  <2>5. Len(W!Flow[j.op]) \in Nat
    BY <2>2, FlowLen
  <2>6. k <= Len(W!Flow[j.op])
    BY <2>2, <2>3, <2>5
  <2>7. k = 2 /\ W!Flow[j.op][2] = "confirm"
    BY <2>1, <2>2, <2>3, <2>6, FlowShape
  <2>8. PICK k1 : k1 = [j EXCEPT !.step = 2]
    OBVIOUS
  <2>13. PICK k2 : k2 = [k1 EXCEPT !.built = 0]
    OBVIOUS
  <2>14. PICK m : m = [k2 EXCEPT !.signed = {}]
    OBVIOUS
  <2>9. m \in JobType /\ m.op = j.op /\ m.step = 2 /\ m.by = j.by
    <3>1. \A k0, l0, m0 : /\ k0 = [j EXCEPT !.step = 2]
                          /\ l0 = [k0 EXCEPT !.built = 0]
                          /\ m0 = [l0 EXCEPT !.signed = {}]
                          => m0 \in JobType /\ m0.op = j.op /\ m0.step = 2 /\ m0.by = j.by
      BY Reviewed
    <3> QED BY <2>8, <2>13, <2>14, <3>1, Zenon
  <2>10. ~StepIs(m, "submit")
    BY <2>7, <2>9 DEF StepIs
  <2>11. JobOK(m, regtest)
    BY <2>9, <2>10 DEF JobOK
  <2>12. job' = {m}
    BY <1>1, <1>3, <2>8, <2>13, <2>14, Zenon DEF W!Abandon
  <2> QED BY <2>9, <2>11, <2>12 DEF JobInv
<1> QED BY <1>2, <1>3

LEMMA JobStep ==
  ASSUME ConnOK, JobInv, [W!Next]_W!vars
  PROVE  JobInv'
<1> DEFINE Own == IF regtest THEN Dev ELSE Browser
<1>0. /\ regtest \in BOOLEAN /\ vault \in Nat /\ test \in Dev \cup {""}
      /\ conn # "" => conn \in Own
  <2>1. vault \in 1 .. MaxVault /\ MaxVault \in Nat
    BY WalletAssumption DEF ConnOK
  <2>2. vault \in Nat
    BY <2>1
  <2> QED BY <2>2 DEF ConnOK, W!Wallet
<1>a. Own \subseteq Browser \cup Dev
  OBVIOUS
<1>1. CASE UNCHANGED <<job, regtest>>
  BY <1>1 DEF JobInv
<1>2. CASE job' = {} /\ UNCHANGED regtest
  BY <1>2 DEF JobInv
<1>3. ASSUME NEW op \in DOMAIN W!Flow, W!Start(op) PROVE JobInv'
  <2>1. PICK j : j = [op |-> op, step |-> 1, by |-> conn, quote |-> 0,
                      built |-> IF op = "sell" THEN vault ELSE 0, signed |-> {}]
    OBVIOUS
  <2>2. conn \in Own /\ job' = {j} /\ UNCHANGED regtest
    BY <1>0, <1>3, <2>1 DEF W!Start, W!wallets
  <2>3. (IF op = "sell" THEN vault ELSE 0) \in Nat /\ conn \in Browser \cup Dev
    BY <1>0, <1>a, <2>2
  <2>4. j \in JobType /\ j.op = op /\ j.step = 1 /\ j.by = conn
    BY <2>1, <2>3 DEF JobType
  <2>5. ~StepIs(j, "submit")
    BY <2>4, FlowShape, FlowLen DEF StepIs
  <2>6. JobOK(j, regtest)
    BY <2>2, <2>4, <2>5 DEF JobOK
  <2> QED BY <2>2, <2>4, <2>6 DEF JobInv
<1>4. CASE \/ W!Confirm \/ W!Quote \/ W!Call \/ W!Build \/ W!signPsbt \/ W!signBip322
           \/ W!Submit \/ W!Fails
  <2>1. job # {}
    BY <1>4 DEF W!Confirm, W!Quote, W!Call, W!Build, W!signPsbt, W!signBip322, W!Submit, W!Fails,
                W!At, W!Busy
  <2>2. PICK j \in JobType : job = {j} /\ JobOK(j, regtest)
    BY <2>1 DEF JobInv
  <2>0. PICK v \in Nat : v = vault
    BY <1>0
  <2>3. W!Job = j /\ \A x : W!At(x) <=> StepIs(j, x)
    BY <2>2, TheJob
  <2>4. /\ j.op \in DOMAIN W!Flow /\ j.step \in Nat \ {0} /\ j.by \in Own
        /\ Len(W!Flow[j.op]) \in Nat
    BY <2>2, FlowLen DEF JobType, JobOK
  <2>5. j.step <= Len(W!Flow[j.op])
    BY <1>4, <2>3, Zenon DEF W!Confirm, W!Quote, W!Call, W!Build, W!signPsbt, W!signBip322,
                W!Submit, W!Fails, StepIs, W!Busy
  <2>6. UNCHANGED <<regtest, vault>>
    BY <1>4 DEF W!Confirm, W!Quote, W!Call, W!Build, W!signPsbt, W!signBip322, W!Submit, W!Fails,
                W!wallets
  <2>7. W!Abandon => JobInv'
    BY <2>2, <2>4, <2>5, <2>6, AbandonOK
  <2>8. PICK k : k = [j EXCEPT !.step = j.step + 1]
    OBVIOUS
  <2>9. /\ Later(j, k) /\ k.by = j.by /\ k.quote = j.quote /\ k.built = j.built
        /\ k.signed = j.signed
    <3>1. PICK n \in Nat \ {0} : n = j.step + 1
      BY <2>4
    <3>2. k = [j EXCEPT !.step = n]
      BY <2>8, <3>1
    <3> QED BY <3>1, <3>2, SetStep DEF Later
  <2>10. ASSUME NEW m, Later(j, m), job' = {m}, m.by \in Own,
                j.op = "buy" /\ j.step >= 3 => m.built = m.quote,
                StepIs(j, "signPsbt") \/ StepIs(j, "signBip322") => SignedOK(m, regtest)
         PROVE  JobInv'
    <3>1. JobOK(m, regtest)
      BY <1>0, <2>2, <2>5, <2>10, LaterOK
    <3> QED BY <2>6, <2>10, <3>1 DEF JobInv, Later
  <2>11. \A n \in Nat \ {0} : n <= Len(W!Flow[j.op]) =>
           /\ W!Flow[j.op][n] = "signPsbt" => j.op \notin {"list", "cancel"}
           /\ W!Flow[j.op][n] = "confirm" => n = 2
           /\ j.op = "buy" => /\ W!Flow[j.op][n] = "build" <=> n = 3
                              /\ W!Flow[j.op][n] = "quote" <=> n = 1
    BY <2>4, FlowShape
  <2>12. /\ StepIs(j, "signPsbt") => j.op \notin {"list", "cancel"}
         /\ StepIs(j, "confirm") => j.step = 2
         /\ j.op = "buy" => (StepIs(j, "build") <=> j.step = 3) /\ (StepIs(j, "quote") <=> j.step = 1)
    BY <2>4, <2>5, <2>11 DEF StepIs
  <2>13. CASE W!Confirm
    <3>1. PICK m : m = [k EXCEPT !.by = conn]
      OBVIOUS
    <3>2. StepIs(j, "confirm") /\ conn \in Own /\ job' = {m}
      BY <1>0, <2>3, <2>8, <2>13, <3>1 DEF W!Confirm
    <3>3. Later(j, m) /\ m.by = conn
      BY <1>a, <2>9, <3>1, <3>2, SetBy DEF Later
    <3>4. ~(StepIs(j, "signPsbt") \/ StepIs(j, "signBip322"))
      BY <3>2 DEF StepIs
    <3> QED BY <2>10, <2>12, <3>2, <3>3, <3>4
  <2>14. CASE W!Quote
    <3>1. PICK m : m = [k EXCEPT !.quote = v]
      OBVIOUS
    <3>2. StepIs(j, "quote") /\ job' = {m}
      BY <2>0, <2>3, <2>8, <2>14, <3>1 DEF W!Quote
    <3>3. Later(j, m) /\ m.by = j.by
      BY <2>9, <3>1, SetQuote DEF Later
    <3>4. ~(StepIs(j, "signPsbt") \/ StepIs(j, "signBip322"))
      BY <3>2 DEF StepIs
    <3> QED BY <2>4, <2>10, <2>12, <3>2, <3>3, <3>4
  <2>15. CASE W!Call
    <3>1. \E x \in {"prepare", "portfolio", "reserve", "verify", "finalize"} : StepIs(j, x)
      BY <2>3, <2>15 DEF W!Call
    <3>2. job' = {k}
      BY <2>3, <2>8, <2>15 DEF W!Call, W!Advance
    <3>3. ~(StepIs(j, "signPsbt") \/ StepIs(j, "signBip322")) /\ ~StepIs(j, "build")
      BY <3>1 DEF StepIs
    <3>4. j.op = "buy" /\ j.step >= 3 => k.built = k.quote
      BY <2>2, <2>4, <2>9, <2>12, <3>3 DEF JobOK
    <3> QED BY <2>4, <2>9, <2>10, <3>2, <3>3, <3>4
  <2>16. CASE W!Build
    <3>1. CASE j.op = "buy" /\ j.quote # vault
      BY <2>3, <2>7, <2>16, <3>1 DEF W!Build
    <3>2. CASE ~(j.op = "buy" /\ j.quote # vault)
      <4>1. PICK m : m = [k EXCEPT !.built = v]
        OBVIOUS
      <4>2. StepIs(j, "build") /\ job' = {m}
        BY <2>0, <2>3, <2>8, <2>16, <3>2, <4>1 DEF W!Build
      <4>3. Later(j, m) /\ m.by = j.by /\ m.built = v /\ m.quote = j.quote
        BY <2>9, <4>1, SetBuilt DEF Later
      <4>4. ~(StepIs(j, "signPsbt") \/ StepIs(j, "signBip322"))
        BY <4>2 DEF StepIs
      <4> QED BY <2>0, <2>4, <2>10, <3>2, <4>2, <4>3, <4>4
    <3> QED BY <3>1, <3>2
  <2>17. CASE W!signPsbt
    <3> DEFINE inputs == W!Inputs(j.op, j.by)
    <3>1. StepIs(j, "signPsbt")
      BY <2>3, <2>17 DEF W!signPsbt
    <3>2. CASE W!Abandon
      BY <2>7, <3>2
    <3>3. ASSUME NEW sig, job' = {[k EXCEPT !.signed = sig]}, sig \in SUBSET STRING,
                 sig \cap {"vault", "other"} = {},
                 ~regtest => sig = inputs \ {"vault", "other"}
          PROVE  JobInv'
      <4>1. PICK m : m = [k EXCEPT !.signed = sig]
        OBVIOUS
      <4>2. /\ Later(j, m) /\ m.by = j.by /\ m.built = j.built /\ m.quote = j.quote
            /\ m.signed = sig
        BY <2>9, <3>3, <4>1, SetSigned DEF Later
      <4>3. W!Wanted(m) = inputs \ {"vault", "other"}
        BY <2>12, <3>1, <4>2 DEF W!Wanted, Later
      <4>4. SignedOK(m, regtest)
        BY <3>3, <4>2, <4>3 DEF SignedOK
      <4>5. j.op = "buy" /\ j.step >= 3 => m.built = m.quote
        <5>1. ~StepIs(j, "build")
          BY <3>1 DEF StepIs
        <5> QED BY <2>2, <2>4, <2>12, <4>2, <5>1 DEF JobOK
      <4> HIDE DEF inputs
      <4> QED BY <2>4, <2>10, <3>3, <4>1, <4>2, <4>4, <4>5
    <3>4. CASE regtest /\ ~W!Abandon
      <4>1. test \in Dev /\ job' = {[k EXCEPT !.signed = W!DevSigns(test, inputs)]}
        BY <1>0, <2>3, <2>8, <2>17, <3>4 DEF W!signPsbt
      <4>2. W!DevSigns(test, inputs) \in SUBSET STRING
        BY <4>1, ScriptStrings DEF W!DevSigns
      <4>3. W!DevSigns(test, inputs) \cap {"vault", "other"} = {}
        BY <4>1, DevSignsOwn
      <4> HIDE DEF inputs
      <4> QED BY <3>3, <3>4, <4>1, <4>2, <4>3
    <3>5. CASE ~regtest /\ ~W!Abandon
      <4>1. j.by \in Browser /\ job' = {[k EXCEPT !.signed = W!AdapterSigns(j.by, inputs)]}
        BY <1>0, <2>3, <2>4, <2>8, <2>17, <3>5 DEF W!signPsbt
      <4>2. /\ W!AdapterSigns(j.by, inputs) = inputs \ {"vault", "other"}
            /\ W!AdapterSigns(j.by, inputs) \cap {"vault", "other"} = {}
        BY <4>1, AdapterSignsOwn
      <4>3. inputs \ {"vault", "other"} \in SUBSET STRING
        <5>1. inputs \subseteq {"vault", "other", W!Account(j.by).payments, W!Account(j.by).ordinals}
          BY DEF W!Inputs
        <5>2. W!Account(j.by).payments \in STRING /\ W!Account(j.by).ordinals \in STRING
          BY <4>1, AccountIsOwn, ScriptStrings
        <5> HIDE DEF inputs
        <5> QED BY <5>1, <5>2
      <4> HIDE DEF inputs
      <4> QED BY <3>3, <3>5, <4>1, <4>2, <4>3
    <3> QED BY <1>0, <3>2, <3>4, <3>5
  <2>18. CASE W!signBip322
    <3>1. StepIs(j, "signBip322")
      BY <2>3, <2>18 DEF W!signBip322
    <3>2. CASE W!Abandon
      BY <2>7, <3>2
    <3>3. CASE ~W!Abandon
      <4>1. PICK w : w = IF regtest THEN test ELSE j.by
        OBVIOUS
      <4>2. w \in Own /\ job' = {[k EXCEPT !.signed = {W!Account(w).ordinals}]}
        BY <1>0, <2>3, <2>4, <2>8, <2>18, <3>3, <4>1 DEF W!signBip322
      <4>3. PICK o : o = W!Account(w).ordinals
        OBVIOUS
      <4>4. o \in W!Scripts(w) /\ w \in Browser \cup Dev
        BY <1>a, <4>2, <4>3, AccountIsOwn
      <4>5. o \in STRING /\ o \notin {"vault", "other"}
        BY <4>4, ScriptStrings, WalletAssumption
      <4>6. PICK sig : sig = {o} /\ sig \in SUBSET STRING
        BY <4>5
      <4>7. PICK m : m = [k EXCEPT !.signed = sig]
        OBVIOUS
      <4>8. /\ Later(j, m) /\ m.by = j.by /\ m.built = j.built /\ m.quote = j.quote
            /\ m.signed = sig
        BY <2>9, <4>6, <4>7, SetSigned DEF Later
      <4>9. job' = {m}
        BY <4>2, <4>3, <4>6, <4>7
      <4>10. j.op = "buy" /\ j.step >= 3 => m.built = m.quote
        <5>1. ~StepIs(j, "build")
          BY <3>1 DEF StepIs
        <5> QED BY <2>2, <2>4, <2>12, <4>8, <5>1 DEF JobOK
      <4>11. StepIs(m, "submit") => SignedOK(m, regtest)
        <5>1. StepIs(m, "submit") => j.op \in {"list", "cancel"}
          BY <2>4, <2>5, <3>1, <4>8, FlowShape DEF StepIs, Later
        <5>2. j.op \in {"list", "cancel"} => W!Wanted(m) = {W!Account(j.by).ordinals}
          BY <4>8 DEF W!Wanted, Later
        <5> QED BY <4>1, <4>3, <4>5, <4>6, <4>8, <5>1, <5>2 DEF SignedOK
      <4>12. JobOK(m, regtest)
        BY <2>4, <4>8, <4>10, <4>11 DEF JobOK, Later
      <4> QED BY <2>6, <4>8, <4>9, <4>12 DEF JobInv, Later
    <3> QED BY <3>2, <3>3
  <2>19. CASE W!Submit
    <3>1. StepIs(j, "submit")
      BY <2>3, <2>19 DEF W!Submit
    <3>2. CASE W!Abandon
      BY <2>7, <3>2
    <3>3. CASE ~W!Abandon
      <4>1. job' = {k}
        BY <2>3, <2>8, <2>19, <3>3 DEF W!Submit, W!Advance
      <4>2. ~(StepIs(j, "signPsbt") \/ StepIs(j, "signBip322")) /\ ~StepIs(j, "build")
        BY <3>1 DEF StepIs
      <4>3. j.op = "buy" /\ j.step >= 3 => k.built = k.quote
        BY <2>2, <2>4, <2>9, <2>12, <4>2 DEF JobOK
      <4> QED BY <2>4, <2>9, <2>10, <4>1, <4>2, <4>3
    <3> QED BY <3>2, <3>3
  <2>20. CASE W!Fails
    BY <2>7, <2>20 DEF W!Fails
  <2> QED BY <1>4, <2>13, <2>14, <2>15, <2>16, <2>17, <2>18, <2>19, <2>20
<1>5. CASE UNCHANGED W!vars
  BY <1>1, <1>5 DEF W!vars
<1>6. CASE \E w \in W!Wallet : W!Ask(w) \/ W!Connected(w) \/ W!ConnectedDev(w) \/ W!Refused(w)
  BY <1>1, <1>6 DEF W!Ask, W!Connected, W!ConnectedDev, W!Refused
<1>7. CASE W!disconnect \/ (\E s \in silent : W!Silent(s)) \/ W!VaultMoves
  BY <1>1, <1>7 DEF W!disconnect, W!Silent, W!VaultMoves, W!wallets
<1>8. CASE W!Reload
  BY <1>2, <1>8 DEF W!Reload
<1> QED BY <1>3, <1>4, <1>5, <1>6, <1>7, <1>8 DEF W!Next

(* An instance counts with its own copy of the operator. *)
LEMMA SameCardinality ==
  \A S : W!Cardinality(S) = Cardinality(S) /\ G!Cardinality(S) = Cardinality(S)
  BY DEF W!Cardinality, Cardinality, G!Cardinality

(* What the invariants say to the user. *)
LEMMA SessionSafe ==
  ASSUME ConnOK, JobInv
  PROVE  W!TypeOK /\ W!ChosenStands /\ W!SignedBuyIsReviewed /\ W!SignedIsOwn
<1>1. W!ChosenStands
  BY DEF ConnOK, W!ChosenStands
<1>2. ASSUME NEW j \in JobType, job = {j}, JobOK(j, regtest), W!At("submit")
      PROVE  /\ W!Job.op = "buy" => W!Job.built = W!Job.quote
             /\ W!Job.signed \cap {"vault", "other"} = {}
             /\ ~regtest => W!Job.signed = W!Wanted(W!Job)
  <2>1. W!Job = j /\ StepIs(j, "submit")
    BY <1>2, TheJob
  <2>2. j.op \in DOMAIN W!Flow /\ j.step \in Nat \ {0}
    BY DEF JobType
  <2>3. j.op = "buy" => j.step >= 4
    <3>1. SUFFICES ASSUME j.op = "buy" PROVE j.step >= 4
      OBVIOUS
    <3>2. W!Flow["buy"][j.step] = "submit"
      BY <2>1, <3>1 DEF StepIs
    <3>3. W!Flow["buy"] = <<"quote", "confirm", "build", "verify", "signPsbt", "submit">>
      BY DEF W!Flow, W!tradeFlow
    <3> QED BY <2>2, <3>2, <3>3
  <2> QED BY <1>2, <2>1, <2>3 DEF JobOK, SignedOK
<1>3. W!SignedBuyIsReviewed /\ W!SignedIsOwn
  <2>1. job = {} => ~W!At("submit")
    BY DEF W!At
  <2> QED BY <1>2, <2>1 DEF JobInv, W!SignedBuyIsReviewed, W!SignedIsOwn
<1>4. W!TypeOK
  <2>1. Cardinality(job) <= 1
    <3>1. \E j : job \subseteq {j}
      BY DEF JobInv
    <3> QED BY <3>1, AtMostOne
  <2>2. Cardinality({s \in silent : s.live}) <= (IF conn = "" THEN 1 ELSE 0)
    <3>1. CASE \A s \in silent : ~s.live
      <4>1. {s \in silent : s.live} = {}
        BY <3>1
      <4>2. Cardinality({s \in silent : s.live}) = 0
        BY <4>1, FS_EmptySet, Zenon
      <4> QED BY <4>2
    <3>2. CASE \E s \in silent : s.live
      <4>1. PICK r \in silent : r.live
        BY <3>2
      <4>2. {s \in silent : s.live} \subseteq {r}
        BY <4>1, SameReconnection DEF ConnOK
      <4>3. Cardinality({s \in silent : s.live}) <= 1
        BY <4>2, AtMostOne
      <4>4. conn = ""
        BY <4>1 DEF ConnOK
      <4> QED BY <4>3, <4>4
    <3> QED BY <3>1, <3>2
  <2>3. /\ {conn, stored, chosen} \subseteq W!Wallet \cup {""} /\ asked \subseteq W!Wallet
        /\ test \in Dev \cup {""} /\ vault \in 1 .. MaxVault
    BY DEF ConnOK
  <2>4. W!Cardinality(job) <= 1
    BY <2>1, SameCardinality, Zenon
  <2>5. W!Cardinality({s \in silent : s.live}) <= (IF conn = "" THEN 1 ELSE 0)
    BY <2>2, SameCardinality, Zenon
  <2> QED BY <2>3, <2>4, <2>5, Zenon DEF W!TypeOK
<1> QED BY <1>1, <1>3, <1>4

(* However the user connects, disconnects, reloads and clicks, however     *)
(* late a silent reconnection answers and whatever is refused meanwhile,   *)
(* the wallet in use is the one last chosen, a buy is submitted only on    *)
(* the vault state reviewed, and what is submitted is signed on the        *)
(* wallet's own inputs and on every one of them.                           *)
THEOREM WalletSessionSafe ==
  W!Spec => [](W!TypeOK /\ W!ChosenStands /\ W!SignedBuyIsReviewed /\ W!SignedIsOwn)
<1>1. W!Init => ConnOK /\ JobInv
  BY ConnInit, JobInit
<1>2. ConnOK /\ JobInv /\ [W!Next]_W!vars => (ConnOK /\ JobInv)'
  BY ConnStep, JobStep
<1>3. ConnOK /\ JobInv => W!TypeOK /\ W!ChosenStands /\ W!SignedBuyIsReviewed /\ W!SignedIsOwn
  BY SessionSafe
<1> QED BY <1>1, <1>2, <1>3, PTL DEF W!Spec

-----------------------------------------------------------------------------
(* Signatures: a fill as its PSBT passes from hand to hand, and letters.   *)
(* A coin to be spent: an output of a supported kind and what a PSBT says  *)
(* of it before anyone signs.                                              *)
IsScript(s) == s = G!Script(s.kind, s.key)
Unsigned(i) == i.partialSig = <<>> /\ i.tapSig = <<>> /\ i.final = <<>>
IsInput(i) ==
  i = [script |-> i.script, redeem |-> i.redeem, tapKey |-> i.tapKey,
       partialSig |-> i.partialSig, tapSig |-> i.tapSig, final |-> i.final]
Ready(i) ==
  /\ IsInput(i) /\ Unsigned(i) /\ IsScript(i.script)
  /\ \/ i.script.kind = "p2wpkh"
     \/ i.script.kind = "p2sh-p2wpkh" /\ i.redeem = <<G!Script("p2wpkh", i.script.key)>>
     \/ i.script.kind = "p2tr"

LEMMA BuiltInput ==
  ASSUME NEW s, NEW pub, IsScript(s), G!spendKindOf(s) # "null", G!CanBuildInput(s, pub),
         NEW i, i = G!psbtInputFor(s, pub)
  PROVE  Ready(i) /\ i.script = s /\ G!Signable(i)
<1>0. s.kind \in {"p2wpkh", "p2tr", "p2sh-p2wpkh"}
  BY DEF G!spendKindOf
<1>1. CASE s.kind = "p2wpkh"
  <2>1. i = G!Input(s)
    BY <1>1 DEF G!psbtInputFor
  <2> QED BY <1>1, <2>1 DEF G!Input, Ready, IsInput, Unsigned, G!Signable
<1>2. CASE s.kind = "p2sh-p2wpkh"
  <2>1. <<G!Script("p2sh-p2wpkh", pub[1].key)>> = <<s>>
    BY <1>2 DEF G!CanBuildInput, G!scriptForKind
  <2>2. pub[1].key = s.key
    BY <2>1 DEF G!Script
  <2>3. i = [G!Input(s) EXCEPT !.redeem = <<G!Script("p2wpkh", s.key)>>]
    BY <1>2, <2>2 DEF G!psbtInputFor
  <2> QED BY <1>2, <2>3 DEF G!Input, Ready, IsInput, Unsigned, G!Signable
<1>3. CASE s.kind = "p2tr"
  <2>1. i = [G!Input(s) EXCEPT !.tapKey = <<G!xOnly(pub[1])>>]
    BY <1>3 DEF G!psbtInputFor
  <2> QED BY <1>3, <2>1 DEF G!Input, Ready, IsInput, Unsigned, G!Signable
<1> QED BY <1>0, <1>1, <1>2, <1>3

(* What is read back of an input someone signed.                           *)
LEMMA ReadBack ==
  ASSUME NEW i, Ready(i), NEW g, NEW k, NEW b, k = G!Pub(k.key, k.bytes),
         b \in BOOLEAN, NEW j, j = G!unfinalizeKeyInputs(G!Signed(i, g, k, b))
  PROVE  /\ j.script = i.script
         /\ i.script.kind # "p2tr" => /\ j.partialSig = <<[pub |-> k, sig |-> g]>>
                                      /\ j.tapSig = <<>>
                                      /\ i.script.kind = "p2wpkh" \/ j.redeem \in {i.redeem, <<G!Script("p2wpkh", k.key)>>}
         /\ i.script.kind = "p2tr" => \/ j.tapSig = <<>>
                                      \/ j.tapSig = <<g>>
         /\ i.script.kind = "p2tr" /\ g.bytes \in {64, 65} => j.tapSig = <<g>>
<1>1. PICK f : f = G!Signed(i, g, k, b)
  OBVIOUS
<1>2. j = G!unfinalizeKeyInputs(f)
  BY <1>1
<1>3. CASE i.script.kind = "p2tr" /\ b
  <2>1. f = [G!Input(i.script) EXCEPT !.final = <<[sig |-> g]>>]
    BY <1>1, <1>3, Zenon DEF G!Signed
  <2>2. f.final = <<[sig |-> g]>> /\ f.partialSig = <<>> /\ f.tapSig = <<>> /\ f.script = i.script
    BY <2>1 DEF G!Input
  <2>3. Len(f.final) = 1 /\ f.final # <<>> /\ f.final[1].sig = g
    <3>1. PICK x : x = [sig |-> g]
      OBVIOUS
    <3>2. f.final = <<x>> /\ x.sig = g
      BY <2>2, <3>1
    <3> QED BY <3>2
  <2>4. G!spendKindOf(f.script) = "p2tr"
    BY <1>3, <2>2 DEF G!spendKindOf
  <2>5. CASE g.bytes \in {64, 65}
    <3>1. j = [f EXCEPT !.final = <<>>, !.tapSig = <<g>>]
      BY <1>2, <2>2, <2>3, <2>4, <2>5 DEF G!unfinalizeKeyInputs
    <3> QED BY <1>3, <2>1, <2>2, <3>1 DEF G!Input
  <2>6. CASE g.bytes \notin {64, 65}
    <3>1. j = f
      BY <1>2, <2>2, <2>3, <2>4, <2>6 DEF G!unfinalizeKeyInputs
    <3> QED BY <1>3, <2>6, <2>2, <3>1
  <2> QED BY <2>5, <2>6
<1>4. CASE i.script.kind = "p2tr" /\ ~b
  <2>1. f = [i EXCEPT !.tapSig = <<g>>]
    BY <1>1, <1>4 DEF G!Signed
  <2>2. f.tapSig = <<g>> /\ f.script = i.script
    BY <2>1 DEF Ready, IsInput
  <2>3. j = f
    BY <1>2, <2>2 DEF G!unfinalizeKeyInputs
  <2> QED BY <1>4, <2>2, <2>3
<1>5. CASE i.script.kind # "p2tr" /\ b
  <2>1. f = [G!Input(i.script) EXCEPT !.final = <<[sig |-> g], [pub |-> k]>>]
    BY <1>1, <1>5 DEF G!Signed
  <2>2. f.final = <<[sig |-> g], [pub |-> k]>> /\ f.partialSig = <<>> /\ f.tapSig = <<>> /\ f.script = i.script
    BY <2>1 DEF G!Input
  <2>3. Len(f.final) = 2 /\ f.final # <<>> /\ f.final[1].sig = g /\ f.final[2].pub = k
    <3>1. PICK x : x = [sig |-> g]
      OBVIOUS
    <3>2. PICK y : y = [pub |-> k]
      OBVIOUS
    <3>3. f.final = <<x, y>> /\ x.sig = g /\ y.pub = k
      BY <2>2, <3>1, <3>2
    <3> QED BY <3>3
  <2>4. G!spendKindOf(f.script) = i.script.kind /\ i.script.kind \in {"p2wpkh", "p2sh-p2wpkh"}
    BY <1>5, <2>2 DEF G!spendKindOf, Ready
  <2>5. j = [f EXCEPT !.final = <<>>, !.partialSig = <<[pub |-> k, sig |-> g]>>,
                      !.redeem = IF i.script.kind = "p2wpkh" THEN @ ELSE <<G!Script("p2wpkh", k.key)>>]
    BY <1>2, <2>2, <2>3, <2>4 DEF G!unfinalizeKeyInputs
  <2> QED BY <1>5, <2>1, <2>2, <2>4, <2>5 DEF G!Input
<1>6. CASE i.script.kind # "p2tr" /\ ~b
  <2>1. f = [i EXCEPT !.partialSig = <<[pub |-> k, sig |-> g]>>]
    BY <1>1, <1>6 DEF G!Signed
  <2>2. f.partialSig = <<[pub |-> k, sig |-> g]>> /\ f.script = i.script /\ f.tapSig = <<>> /\ f.redeem = i.redeem
    BY <2>1 DEF Ready, IsInput, Unsigned
  <2>3. j = f
    BY <1>2, <2>2 DEF G!unfinalizeKeyInputs
  <2> QED BY <1>6, <2>2, <2>3
<1> QED BY <1>3, <1>4, <1>5, <1>6

(* A signature taken is by the output's key, over the transaction, and     *)
(* commits to every output; 64 bytes is the default type.                  *)
LEMMA TakenSignature ==
  ASSUME NEW i, Ready(i), NEW g, g.bytes = 64 => g.type = "DEFAULT",
         NEW k, k = G!Pub(k.key, k.bytes), NEW b \in BOOLEAN, NEW tx,
         NEW j, j = G!unfinalizeKeyInputs(G!Signed(i, g, k, b)), G!checkSpendSignature(j, tx) = "ok"
  PROVE  g.by = i.script.key /\ g.over.tx = tx /\ g.type \in {"ALL", "DEFAULT"}
<1>1. /\ j.script = i.script
      /\ i.script.kind # "p2tr" => j.partialSig = <<[pub |-> k, sig |-> g]>>
      /\ i.script.kind = "p2tr" => j.tapSig = <<>> \/ j.tapSig = <<g>>
  BY ReadBack
<1>2. CASE i.script.kind = "p2tr"
  <2>1. j.tapSig # <<>> /\ j.tapSig[1].bytes \in {64, 65}
        /\ ~(j.tapSig[1].bytes = 65 /\ j.tapSig[1].type # "ALL")
        /\ G!Verifies(j.tapSig[1], tx, j.script, j.script.key)
    BY <1>1, <1>2 DEF G!checkSpendSignature
  <2>2. j.tapSig[1] = g
    BY <1>1, <1>2, <2>1
  <2> QED BY <1>1, <2>1, <2>2 DEF G!Verifies
<1>3. CASE i.script.kind # "p2tr"
  <2>1. PICK x : x = [pub |-> k, sig |-> g]
    OBVIOUS
  <2>2. j.partialSig = <<x>> /\ x.sig = g /\ x.pub = k
    BY <1>1, <1>3, <2>1
  <2>3. j.partialSig[1].sig.type = "ALL" /\ G!validateSignaturesOfInput(j, tx)
    BY <1>1, <1>3, <2>2 DEF G!checkSpendSignature
  <2>4. 1 \in DOMAIN j.partialSig /\ j.partialSig[1] = x
    BY <2>2
  <2>5. G!Verifies(g, tx, G!Script("p2wpkh", i.script.key), k.key) /\ k.key = i.script.key
    BY <1>1, <2>2, <2>3, <2>4 DEF G!validateSignaturesOfInput
  <2>6. g.type = "ALL"
    BY <2>2, <2>3, <2>4
  <2> QED BY <2>5, <2>6 DEF G!Verifies
<1> QED BY <1>2, <1>3

(* An input whose signature is taken is signed, and the network takes it.  *)
NetworkTakes(i, tx) ==
  /\ G!IsSigned(i)
  /\ IF i.script.kind = "p2tr" THEN G!Verifies(i.tapSig[1], tx, i.script, i.script.key)
     ELSE G!validateSignaturesOfInput(i, tx)
LEMMA TakenIsFinal ==
  ASSUME NEW i, NEW tx, G!checkSpendSignature(i, tx) = "ok"
  PROVE  NetworkTakes(i, tx)
<1>1. CASE i.script.kind = "p2tr"
  BY <1>1 DEF G!checkSpendSignature, NetworkTakes, G!IsSigned
<1>2. CASE i.script.kind # "p2tr"
  BY <1>2 DEF G!checkSpendSignature, NetworkTakes, G!IsSigned
<1> QED BY <1>1, <1>2

(* What the output's key signs as it is asked is taken.                    *)
LEMMA AskedIsTaken ==
  ASSUME NEW i, Ready(i), NEW b \in BOOLEAN
  PROVE  G!checkSpendSignature(G!unfinalizeKeyInputs(G!Asked(i, i.script.key, b)), G!Tx) = "ok"
<1>1. PICK k : k = G!Pub(i.script.key, 33)
  OBVIOUS
<1>2. k = G!Pub(k.key, k.bytes) /\ k.key = i.script.key
  BY <1>1 DEF G!Pub
<1>3. PICK g : g = G!SignatureOn(i, G!Tx, i.script.key, IF i.script.kind = "p2tr" THEN "DEFAULT" ELSE "ALL")
  OBVIOUS
<1>4. PICK j : j = G!unfinalizeKeyInputs(G!Signed(i, g, k, b))
  OBVIOUS
<1>5. j = G!unfinalizeKeyInputs(G!Asked(i, i.script.key, b))
  BY <1>1, <1>3, <1>4, Zenon DEF G!Asked
<1>6. /\ j.script = i.script
      /\ i.script.kind # "p2tr" => /\ j.partialSig = <<[pub |-> k, sig |-> g]>>
                                   /\ i.script.kind = "p2wpkh" \/ j.redeem \in {i.redeem, <<G!Script("p2wpkh", k.key)>>}
      /\ i.script.kind = "p2tr" /\ g.bytes \in {64, 65} => j.tapSig = <<g>>
  BY <1>2, <1>4, ReadBack
<1>7. CASE i.script.kind = "p2tr"
  <2>1. g = G!Sig(i.script.key, G!Tx, i.script, "DEFAULT", 64)
    BY <1>3, <1>7 DEF G!SignatureOn
  <2>2. g.bytes = 64 /\ g.type = "DEFAULT" /\ G!Verifies(g, G!Tx, i.script, i.script.key)
    BY <2>1 DEF G!Sig, G!Verifies
  <2>3. j.tapSig = <<g>> /\ j.tapSig # <<>> /\ j.tapSig[1] = g
    <3>1. j.tapSig = <<g>>
      BY <1>6, <1>7, <2>2, Zenon
    <3> QED BY <3>1
  <2>4. G!spendKindOf(j.script) # "null"
    BY <1>6, <1>7 DEF G!spendKindOf
  <2>5. G!checkSpendSignature(j, G!Tx) = "ok"
    BY <1>6, <1>7, <2>2, <2>3, <2>4 DEF G!checkSpendSignature
  <2> QED BY <1>5, <2>5
<1>8. CASE i.script.kind # "p2tr"
  <2>1. g = G!Sig(i.script.key, G!Tx, G!Script("p2wpkh", i.script.key), "ALL", 71)
    BY <1>3, <1>8 DEF G!SignatureOn
  <2>2. g.type = "ALL" /\ G!Verifies(g, G!Tx, G!Script("p2wpkh", i.script.key), i.script.key)
    BY <2>1 DEF G!Sig, G!Verifies
  <2>3. PICK x : x = [pub |-> k, sig |-> g]
    OBVIOUS
  <2>4. j.partialSig = <<x>> /\ x.sig = g /\ x.pub = k
    BY <1>6, <1>8, <2>3
  <2>5. i.script.kind \in {"p2wpkh", "p2sh-p2wpkh"} /\ G!spendKindOf(j.script) # "null"
    BY <1>6, <1>8 DEF G!spendKindOf, Ready
  <2>6. i.script.kind = "p2wpkh" \/ j.redeem = <<G!Script("p2wpkh", i.script.key)>>
    BY <1>2, <1>6, <1>8 DEF Ready
  <2>7. G!validateSignaturesOfInput(j, G!Tx)
    BY <1>2, <1>6, <2>2, <2>4, <2>6 DEF G!validateSignaturesOfInput
  <2>8. G!checkSpendSignature(j, G!Tx) = "ok"
    BY <1>6, <1>8, <2>2, <2>4, <2>5, <2>6, <2>7 DEF G!checkSpendSignature
  <2> QED BY <1>5, <2>8
<1> QED BY <1>7, <1>8

LEMMA SignedForm ==
  ASSUME NEW i, IsInput(i), NEW g, NEW k, NEW b \in BOOLEAN, NEW f, f = G!Signed(i, g, k, b)
  PROVE  IsInput(f) /\ f.script = i.script
<1>1. CASE b
  <2>1. PICK w : w = IF i.script.kind = "p2tr" THEN <<[sig |-> g]>> ELSE <<[sig |-> g], [pub |-> k]>>
    OBVIOUS
  <2>2. f = [G!Input(i.script) EXCEPT !.final = w]
    BY <1>1, <2>1, Zenon DEF G!Signed
  <2> QED BY <2>2 DEF G!Input, IsInput
<1>2. CASE ~b /\ i.script.kind = "p2tr"
  <2>1. PICK w : w = <<g>>
    OBVIOUS
  <2>2. f = [i EXCEPT !.tapSig = w]
    BY <1>2, <2>1 DEF G!Signed
  <2> QED BY <2>2 DEF IsInput
<1>3. CASE ~b /\ i.script.kind # "p2tr"
  <2>1. PICK w : w = <<[pub |-> k, sig |-> g]>>
    OBVIOUS
  <2>2. f = [i EXCEPT !.partialSig = w]
    BY <1>3, <2>1 DEF G!Signed
  <2> QED BY <2>2 DEF IsInput
<1> QED BY <1>1, <1>2, <1>3

(* The PSBT a party gets back: the input it does not sign is as it was,    *)
(* blank, or signed by someone.                                            *)
KeptInput(i, j, m) ==
  \/ j = i
  \/ j = G!Input(i.script)
  \/ \E g \in m : j = G!Signed(i, g, G!Pub(i.script.key, 33), FALSE)
LEMMA KeptForm ==
  ASSUME DOMAIN psbt = {1, 2}, NEW n \in {1, 2}, NEW q \in G!Kept(n)
  PROVE  /\ DOMAIN q = {1, 2}
         /\ \A m \in {1, 2} : m # n => q[m] = psbt[m]
         /\ KeptInput(psbt[n], q[n], made)
<1>1. CASE q = psbt
  BY <1>1 DEF KeptInput
<1>2. CASE q = [psbt EXCEPT ![n] = G!Input(@.script)]
  <2>1. PICK x : x = G!Input(psbt[n].script)
    OBVIOUS
  <2>2. q = [psbt EXCEPT ![n] = x]
    BY <1>2, <2>1, Zenon
  <2>3. q[n] = x /\ DOMAIN q = {1, 2} /\ \A m \in {1, 2} : m # n => q[m] = psbt[m]
    BY <2>2
  <2> QED BY <2>1, <2>3 DEF KeptInput
<1>3. ASSUME NEW g \in made, q = G!Returns(psbt, n, g, psbt[n].script.key, FALSE)
      PROVE  /\ DOMAIN q = {1, 2}
             /\ \A m \in {1, 2} : m # n => q[m] = psbt[m]
             /\ KeptInput(psbt[n], q[n], made)
  <2>1. PICK x : x = G!Signed(psbt[n], g, G!Pub(psbt[n].script.key, 33), FALSE)
    OBVIOUS
  <2>2. q = [psbt EXCEPT ![n] = x]
    BY <1>3, <2>1, Zenon DEF G!Returns
  <2>3. q[n] = x /\ DOMAIN q = {1, 2} /\ \A m \in {1, 2} : m # n => q[m] = psbt[m]
    BY <2>2
  <2> QED BY <2>1, <2>3 DEF KeptInput
<1>4. \/ q = psbt
      \/ q = [psbt EXCEPT ![n] = G!Input(@.script)]
      \/ \E g \in made : q = G!Returns(psbt, n, g, psbt[n].script.key, FALSE)
  BY Zenon DEF G!Kept
<1> QED BY <1>1, <1>2, <1>3, <1>4

LEMMA KeptScript ==
  ASSUME NEW i, IsInput(i), NEW j, NEW m, KeptInput(i, j, m)
  PROVE  IsInput(j) /\ j.script = i.script
<1>1. CASE j = i
  BY <1>1
<1>2. CASE j = G!Input(i.script)
  BY <1>2 DEF G!Input, IsInput
<1>3. ASSUME NEW g \in m, j = G!Signed(i, g, G!Pub(i.script.key, 33), FALSE)
      PROVE  IsInput(j) /\ j.script = i.script
  <2>1. PICK b \in BOOLEAN : b = FALSE
    OBVIOUS
  <2>2. PICK k : k = G!Pub(i.script.key, 33)
    OBVIOUS
  <2>3. j = G!Signed(i, g, k, b)
    BY <1>3, <2>1, <2>2, Zenon
  <2> QED BY <2>3, SignedForm
<1> QED BY <1>1, <1>2, <1>3 DEF KeptInput

(* A seller's input left unsigned can still be signed.                     *)
LEMMA KeptUnsigned ==
  ASSUME NEW i, Ready(i), i.script.kind \in {"p2wpkh", "p2tr"}, NEW j, NEW m, KeptInput(i, j, m),
         ~G!IsSigned(G!unfinalizeKeyInputs(j))
  PROVE  Ready(j) /\ j.script = i.script
<1>1. CASE j = i
  BY <1>1
<1>2. CASE j = G!Input(i.script)
  BY <1>2, Zenon DEF G!Input, IsInput, Ready, Unsigned
<1>3. ASSUME NEW g \in m, j = G!Signed(i, g, G!Pub(i.script.key, 33), FALSE)
      PROVE  FALSE
  <2>1. PICK w : w = IF i.script.kind = "p2tr" THEN <<g>> ELSE <<[pub |-> G!Pub(i.script.key, 33), sig |-> g]>>
    OBVIOUS
  <2>2. w # <<>>
    <3>1. PICK x : x = [pub |-> G!Pub(i.script.key, 33), sig |-> g]
      OBVIOUS
    <3>2. w = <<g>> \/ w = <<x>>
      BY <2>1, <3>1
    <3> QED BY <3>2
  <2>3. j = [i EXCEPT !.tapSig = w] \/ j = [i EXCEPT !.partialSig = w]
    BY <1>3, <2>1 DEF G!Signed
  <2>4. j.tapSig # <<>> \/ j.partialSig # <<>>
    BY <2>2, <2>3 DEF Ready, IsInput
  <2>5. G!unfinalizeKeyInputs(j) = j
    BY <2>4 DEF G!unfinalizeKeyInputs
  <2> QED BY <2>4, <2>5 DEF G!IsSigned
<1> QED BY <1>1, <1>2, <1>3 DEF KeptInput

(* Where the fill's PSBT stands.                                           *)
FillInv ==
  /\ order \in Orders
  /\ stage \in {"none", "built", "buyerSigned", "sellerSigned", "final"}
  /\ \A g \in made : g.bytes = 64 => g.type = "DEFAULT"
  /\ stage # "none" => DOMAIN psbt = {1, 2}
  /\ stage \in {"built", "buyerSigned"} => Ready(psbt[1]) /\ psbt[1].script.kind \in {"p2wpkh", "p2tr"}
  /\ stage = "built" => Ready(psbt[2]) /\ G!Signable(psbt[1]) /\ G!Signable(psbt[2])
  /\ stage = "buyerSigned" => /\ IsInput(psbt[2])
                              /\ G!checkSpendSignature(G!unfinalizeKeyInputs(psbt[2]), G!Tx) = "ok"
  /\ G!PartiesSigned

LEMMA FillInit == G!Init => FillInv
  BY DEF G!Init, FillInv, G!PartiesSigned

LEMMA FillBuild ==
  ASSUME FillInv, NEW f \in Funds, G!Build(f)
  PROVE  FillInv'
<1>1. PICK x : x = G!psbtInputFor(order.token, order.publicKey)
  OBVIOUS
<1>2. PICK y : y = G!psbtInputFor(f.script, f.publicKey)
  OBVIOUS
<1>3. psbt' = <<x, y>> /\ stage' = "built" /\ order' = order /\ made' = made
  BY <1>1, <1>2 DEF G!Build
<1>4. IsScript(order.token) /\ IsScript(f.script)
  BY ListingAssumption DEF FillInv, IsScript
<1>5. /\ G!spendKindOf(order.token) # "null" /\ G!CanBuildInput(order.token, order.publicKey)
      /\ G!spendKindOf(f.script) # "null" /\ G!CanBuildInput(f.script, f.publicKey)
      /\ order.token.kind \in {"p2wpkh", "p2tr"}
  BY DEF G!Build, G!KeyControls, G!validateListingShape
<1>6. Ready(x) /\ x.script = order.token /\ G!Signable(x)
  BY <1>1, <1>4, <1>5, BuiltInput
<1>7. Ready(y) /\ G!Signable(y)
  BY <1>2, <1>4, <1>5, BuiltInput
<1>8. DOMAIN psbt' = {1, 2} /\ psbt'[1] = x /\ psbt'[2] = y
  BY <1>3
<1>9. G!PartiesSigned'
  BY <1>3 DEF G!PartiesSigned
<1> QED BY <1>3, <1>5, <1>6, <1>7, <1>8, <1>9 DEF FillInv

LEMMA FillSign ==
  ASSUME FillInv, NEW n \in 1 .. 2, NEW key \in G!Key, NEW type \in {"ALL", "DEFAULT", "SINGLE"},
         G!Sign(n, key, type)
  PROVE  FillInv'
<1>1. PICK g : g = G!SignatureOn(psbt[n], G!Tx, key, type)
  OBVIOUS
<1>2. made' = made \cup {g} /\ stage' = stage /\ order' = order /\ psbt' = psbt
  BY <1>1 DEF G!Sign
<1>3. g.bytes = 64 => g.type = "DEFAULT"
  BY <1>1 DEF G!SignatureOn, G!Sig
<1>4. G!Tx' = G!Tx
  BY <1>2 DEF G!Tx
<1>5. G!PartiesSigned'
  <2>1. \A m : G!CommitsToAll(m) => G!CommitsToAll(m)'
    BY <1>2, <1>4 DEF G!CommitsToAll
  <2> QED BY <1>2, <2>1 DEF FillInv, G!PartiesSigned
<1> QED BY <1>2, <1>3, <1>4, <1>5 DEF FillInv

LEMMA ReturnsForm ==
  ASSUME NEW q, DOMAIN q = {1, 2}, NEW n \in {1, 2}, NEW g, NEW key, NEW b \in BOOLEAN, NEW p,
         p = G!Returns(q, n, g, key, b)
  PROVE  /\ DOMAIN p = {1, 2} /\ \A m \in {1, 2} : m # n => p[m] = q[m]
         /\ p[n] = G!Signed(q[n], g, G!Pub(key, 33), b)
         /\ \A m \in {1, 2} : G!parsePsbt(p)[m] = G!unfinalizeKeyInputs(p[m])
<1>1. PICK x : x = G!Signed(q[n], g, G!Pub(key, 33), b)
  OBVIOUS
<1>2. p = [q EXCEPT ![n] = x]
  BY <1>1, Zenon DEF G!Returns
<1>3. DOMAIN p = {1, 2} /\ p[n] = x /\ \A m \in {1, 2} : m # n => p[m] = q[m]
  BY <1>2
<1>4. \A m \in {1, 2} : G!parsePsbt(p)[m] = G!unfinalizeKeyInputs(p[m])
  BY <1>3 DEF G!parsePsbt
<1> QED BY <1>1, <1>3, <1>4

LEMMA FillBuyer ==
  ASSUME FillInv, NEW g \in made, NEW key \in G!Key, NEW b \in BOOLEAN, NEW q \in G!Kept(1),
         G!SubmitBuyer(G!Returns(q, 2, g, key, b))
  PROVE  FillInv'
<1>1. PICK p : p = G!Returns(q, 2, g, key, b)
  OBVIOUS
<1>2. G!SubmitBuyer(p)
  BY <1>1, Zenon
<1>3. /\ stage = "built" /\ stage' = "buyerSigned" /\ psbt' = p
      /\ order' = order /\ made' = made /\ G!Tx' = G!Tx
  BY <1>2 DEF G!SubmitBuyer, G!Tx
<1>4. DOMAIN psbt = {1, 2} /\ Ready(psbt[1]) /\ Ready(psbt[2])
      /\ psbt[1].script.kind \in {"p2wpkh", "p2tr"}
  BY <1>3 DEF FillInv
<1>5. DOMAIN q = {1, 2} /\ q[2] = psbt[2] /\ KeptInput(psbt[1], q[1], made)
  BY <1>4, KeptForm
<1>6. /\ DOMAIN p = {1, 2} /\ p[1] = q[1] /\ p[2] = G!Signed(psbt[2], g, G!Pub(key, 33), b)
      /\ G!parsePsbt(p)[1] = G!unfinalizeKeyInputs(p[1])
      /\ G!parsePsbt(p)[2] = G!unfinalizeKeyInputs(p[2])
  BY <1>1, <1>5, ReturnsForm
<1>7. Ready(p[1]) /\ p[1].script = psbt[1].script
  BY <1>2, <1>4, <1>5, <1>6, KeptUnsigned DEF G!SubmitBuyer
<1>8. IsInput(p[2]) /\ p[2].script = psbt[2].script
  BY <1>4, <1>6, SignedForm DEF Ready
<1>9. PICK k : k = G!Pub(key, 33)
  OBVIOUS
<1>10. k = G!Pub(k.key, k.bytes)
  BY <1>9 DEF G!Pub
<1>11. PICK j : j = G!unfinalizeKeyInputs(G!Signed(psbt[2], g, k, b))
  OBVIOUS
<1>12. j = G!parsePsbt(p)[2] /\ G!checkSpendSignature(j, G!Tx) = "ok"
  BY <1>2, <1>6, <1>9, <1>11 DEF G!SubmitBuyer
<1>13. g.by = psbt[2].script.key /\ g.over.tx = G!Tx /\ g.type \in {"ALL", "DEFAULT"}
  <2>1. g.bytes = 64 => g.type = "DEFAULT"
    BY DEF FillInv
  <2>2. PICK i, tx : i = psbt[2] /\ tx = G!Tx
    OBVIOUS
  <2>3. j = G!unfinalizeKeyInputs(G!Signed(i, g, k, b)) /\ G!checkSpendSignature(j, tx) = "ok" /\ Ready(i)
    BY <1>4, <1>11, <1>12, <2>2
  <2>4. g.by = i.script.key /\ g.over.tx = tx /\ g.type \in {"ALL", "DEFAULT"}
    BY <1>10, <2>1, <2>3, TakenSignature
  <2> QED BY <2>2, <2>4
<1>14. G!CommitsToAll(2)'
  BY <1>3, <1>8, <1>13 DEF G!CommitsToAll
<1>15. G!PartiesSigned'
  <2>1. ~G!IsSigned(G!parsePsbt(psbt')[1])
    BY <1>2, <1>3 DEF G!SubmitBuyer
  <2>2. ~G!IsSigned(G!parsePsbt(psbt)[1])'
    BY <2>1
  <2> QED BY <1>3, <1>14, <2>2 DEF G!PartiesSigned
<1>16. G!checkSpendSignature(G!unfinalizeKeyInputs(p[2]), G!Tx) = "ok"
  BY <1>6, <1>12
<1> QED BY <1>3, <1>4, <1>6, <1>7, <1>8, <1>15, <1>16 DEF FillInv

LEMMA FillSeller ==
  ASSUME FillInv, NEW g \in made, NEW key \in G!Key, NEW b \in BOOLEAN, NEW q \in G!Kept(2),
         G!SubmitSeller(G!Returns(q, 1, g, key, b))
  PROVE  FillInv'
<1>1. PICK p : p = G!Returns(q, 1, g, key, b)
  OBVIOUS
<1>2. G!SubmitSeller(p)
  BY <1>1, Zenon
<1>3. /\ stage = "buyerSigned" /\ stage' = "sellerSigned" /\ psbt' = p
      /\ order' = order /\ made' = made /\ G!Tx' = G!Tx
  BY <1>2 DEF G!SubmitSeller, G!Tx
<1>4. DOMAIN psbt = {1, 2} /\ Ready(psbt[1]) /\ IsInput(psbt[2]) /\ G!CommitsToAll(2)
  BY <1>3 DEF FillInv, G!PartiesSigned
<1>5. DOMAIN q = {1, 2} /\ q[1] = psbt[1] /\ KeptInput(psbt[2], q[2], made)
  BY <1>4, KeptForm
<1>6. /\ DOMAIN p = {1, 2} /\ p[2] = q[2] /\ p[1] = G!Signed(psbt[1], g, G!Pub(key, 33), b)
      /\ G!parsePsbt(p)[1] = G!unfinalizeKeyInputs(p[1])
  BY <1>1, <1>5, ReturnsForm
<1>7. p[2].script = psbt[2].script
  BY <1>4, <1>5, <1>6, KeptScript
<1>8. IsInput(p[1]) /\ p[1].script = psbt[1].script
  BY <1>4, <1>6, SignedForm DEF Ready
<1>9. PICK k : k = G!Pub(key, 33)
  OBVIOUS
<1>10. k = G!Pub(k.key, k.bytes)
  BY <1>9 DEF G!Pub
<1>11. PICK j : j = G!unfinalizeKeyInputs(G!Signed(psbt[1], g, k, b))
  OBVIOUS
<1>12. j = G!parsePsbt(p)[1] /\ G!checkSpendSignature(j, G!Tx) = "ok"
  BY <1>2, <1>6, <1>9, <1>11 DEF G!SubmitSeller
<1>13. g.by = psbt[1].script.key /\ g.over.tx = G!Tx /\ g.type \in {"ALL", "DEFAULT"}
  <2>1. g.bytes = 64 => g.type = "DEFAULT"
    BY DEF FillInv
  <2>2. PICK i, tx : i = psbt[1] /\ tx = G!Tx
    OBVIOUS
  <2>3. j = G!unfinalizeKeyInputs(G!Signed(i, g, k, b)) /\ G!checkSpendSignature(j, tx) = "ok" /\ Ready(i)
    BY <1>4, <1>11, <1>12, <2>2
  <2>4. g.by = i.script.key /\ g.over.tx = tx /\ g.type \in {"ALL", "DEFAULT"}
    BY <1>10, <2>1, <2>3, TakenSignature
  <2> QED BY <2>2, <2>4
<1>14. G!CommitsToAll(1)' /\ G!CommitsToAll(2)'
  BY <1>3, <1>4, <1>7, <1>8, <1>13 DEF G!CommitsToAll
<1>15. G!IsSigned(j) /\ G!IsSigned(G!parsePsbt(p)[2])
  BY <1>2, <1>12, TakenIsFinal DEF NetworkTakes, G!SubmitSeller
<1>16. G!PartiesSigned'
  <2>1. (G!IsSigned(G!parsePsbt(psbt)[1]) /\ G!IsSigned(G!parsePsbt(psbt)[2]))'
    BY <1>3, <1>12, <1>15
  <2> QED BY <1>3, <1>14, <2>1 DEF G!PartiesSigned
<1> QED BY <1>3, <1>4, <1>6, <1>16 DEF FillInv

LEMMA FillStep == FillInv /\ [G!Next]_G!vars => FillInv'
<1> SUFFICES ASSUME FillInv, [G!Next]_G!vars PROVE FillInv'
  OBVIOUS
<1>1. CASE UNCHANGED <<stage, order, psbt, made>>
  <2>1. G!PartiesSigned'
    BY <1>1 DEF FillInv, G!PartiesSigned, G!CommitsToAll, G!Tx
  <2> QED BY <1>1, <2>1 DEF FillInv, G!Tx
<1>2. CASE \E f \in Funds : G!Build(f)
  BY <1>2, FillBuild
<1>3. CASE \E n \in 1 .. 2, key \in G!Key, type \in {"ALL", "DEFAULT", "SINGLE"} : G!Sign(n, key, type)
  BY <1>3, FillSign
<1>4. ASSUME NEW g \in made, NEW key \in G!Key, NEW b \in BOOLEAN,
             \/ \E q \in G!Kept(1) : G!SubmitBuyer(G!Returns(q, 2, g, key, b))
             \/ \E q \in G!Kept(2) : G!SubmitSeller(G!Returns(q, 1, g, key, b))
      PROVE  FillInv'
  BY <1>4, FillBuyer, FillSeller, Zenon
<1>5. CASE G!Finalize
  <2>1. stage = "sellerSigned" /\ stage' = "final" /\ order' = order /\ psbt' = psbt /\ made' = made
    BY <1>5 DEF G!Finalize
  <2>2. G!CommitsToAll(1)' /\ G!CommitsToAll(2)'
    BY <2>1 DEF FillInv, G!PartiesSigned, G!CommitsToAll, G!Tx
  <2> QED BY <2>1, <2>2 DEF FillInv, G!PartiesSigned
<1>6. CASE UNCHANGED G!vars
  BY <1>1, <1>6 DEF G!vars
<1>7. ASSUME NEW script, NEW message, NEW key, NEW type, NEW bytes, NEW pub, NEW encoding,
             G!Present(script, message, key, type, bytes, pub, encoding)
      PROVE  FillInv'
  BY <1>1, <1>7 DEF G!Present
<1> QED BY <1>2, <1>3, <1>4, <1>5, <1>6, <1>7 DEF G!Next

(* The wallets that sign what they are asked to sign are served.           *)
LEMMA FillAccepted == FillInv => G!WalletsAccepted
<1> SUFFICES ASSUME FillInv PROVE G!WalletsAccepted
  OBVIOUS
<1>1. ASSUME stage = "built", NEW b \in BOOLEAN
      PROVE  /\ G!Signable(psbt[1]) /\ G!Signable(psbt[2])
             /\ G!checkSpendSignature(G!unfinalizeKeyInputs(G!Asked(psbt[2], psbt[2].script.key, b)), G!Tx) = "ok"
  <2>1. Ready(psbt[2]) /\ G!Signable(psbt[1]) /\ G!Signable(psbt[2])
    BY <1>1 DEF FillInv
  <2> QED BY <2>1, AskedIsTaken
<1>2. ASSUME stage = "buyerSigned", NEW b \in BOOLEAN,
             NEW p \in {[psbt EXCEPT ![1] = G!Asked(@, @.script.key, b)]}
      PROVE  G!checkSpendSignature(G!parsePsbt(p)[1], G!Tx) = "ok" /\ G!NetworkAccepts(G!parsePsbt(p), G!Tx)
  <2>1. DOMAIN psbt = {1, 2} /\ Ready(psbt[1])
        /\ G!checkSpendSignature(G!unfinalizeKeyInputs(psbt[2]), G!Tx) = "ok"
    BY <1>2 DEF FillInv
  <2>2. PICK x : x = G!Asked(psbt[1], psbt[1].script.key, b)
    OBVIOUS
  <2>3. p = [psbt EXCEPT ![1] = x]
    BY <1>2, <2>2, Zenon
  <2>4. DOMAIN p = {1, 2} /\ p[1] = x /\ p[2] = psbt[2]
    BY <2>1, <2>3
  <2>5. G!parsePsbt(p)[1] = G!unfinalizeKeyInputs(x) /\ G!parsePsbt(p)[2] = G!unfinalizeKeyInputs(psbt[2])
        /\ DOMAIN G!parsePsbt(p) = {1, 2}
    BY <2>4 DEF G!parsePsbt
  <2>6. G!checkSpendSignature(G!parsePsbt(p)[1], G!Tx) = "ok"
    BY <2>1, <2>2, <2>5, AskedIsTaken
  <2>7. NetworkTakes(G!parsePsbt(p)[1], G!Tx) /\ NetworkTakes(G!parsePsbt(p)[2], G!Tx)
    BY <2>1, <2>5, <2>6, TakenIsFinal
  <2>8. G!NetworkAccepts(G!parsePsbt(p), G!Tx)
    BY <2>5, <2>7 DEF G!NetworkAccepts, NetworkTakes
  <2> QED BY <2>6, <2>8
<1> QED BY <1>1, <1>2, Zenon DEF G!WalletsAccepted

(* A letter as it may be presented: a signature by some key over some      *)
(* message for some script, of the size of its type, alone or with a key.  *)
Size(script, type, bytes) ==
  /\ type = "ALL" => bytes = IF script.kind = "p2tr" THEN 65 ELSE 71
  /\ bytes = 64 => type = "DEFAULT"
  /\ bytes = 65 => script.kind = "p2tr"
Letter(s, g) ==
  /\ \E key, message, script, type, bytes :
        g = G!Sig(key, message, script, type, bytes) /\ Size(script, type, bytes)
  /\ \E encoding \in {"exact", "trailing"} :
       \/ s = [encoding |-> encoding, stack |-> <<[sig |-> g]>>]
       \/ \E n \in {32, 33} :
            s = [encoding |-> encoding, stack |-> <<[sig |-> g], [pub |-> G!Pub(Seller, n)]>>]
LetterInv == letter = <<>> \/ \E s, g : letter = <<s>> /\ Letter(s, g)

LEMMA PresentedLetter ==
  ASSUME NEW script, NEW message, NEW key, NEW type, NEW bytes, Size(script, type, bytes),
         NEW pub \in {<<>>, <<G!Pub(Seller, 32)>>, <<G!Pub(Seller, 33)>>},
         NEW encoding \in {"exact", "trailing"},
         G!Present(script, message, key, type, bytes, pub, encoding)
  PROVE  LetterInv'
<1>1. PICK g : g = G!Sig(key, message, script, type, bytes)
  OBVIOUS
<1>2. PICK x : x = [sig |-> g]
  OBVIOUS
<1>3. letter' = <<[encoding |-> encoding, stack |-> IF pub = <<>> THEN <<x>> ELSE <<x, [pub |-> pub[1]]>>]>>
  BY <1>1, <1>2, Zenon DEF G!Present
<1>4. \E k, m, z, t, n : g = G!Sig(k, m, z, t, n) /\ Size(z, t, n)
  BY <1>1
<1>5. CASE pub = <<>>
  <2>1. PICK s : s = [encoding |-> encoding, stack |-> <<x>>]
    OBVIOUS
  <2>2. letter' = <<s>>
    BY <1>3, <1>5, <2>1, Zenon
  <2>3. Letter(s, g)
    BY <1>2, <1>4, <2>1, Zenon DEF Letter
  <2> QED BY <2>2, <2>3 DEF LetterInv
<1>6. ASSUME NEW n \in {32, 33}, pub = <<G!Pub(Seller, n)>>
      PROVE  LetterInv'
  <2>1. PICK y : y = [pub |-> G!Pub(Seller, n)]
    OBVIOUS
  <2>2. pub # <<>> /\ pub[1] = G!Pub(Seller, n)
    <3>1. PICK k : k = G!Pub(Seller, n)
      OBVIOUS
    <3> QED BY <1>6, <3>1
  <2>3. PICK s : s = [encoding |-> encoding, stack |-> <<x, y>>]
    OBVIOUS
  <2>4. letter' = <<s>>
    BY <1>3, <2>1, <2>2, <2>3, Zenon
  <2>5. Letter(s, g)
    BY <1>2, <1>4, <2>1, <2>3, Zenon DEF Letter
  <2> QED BY <2>4, <2>5 DEF LetterInv
<1>7. pub = <<>> \/ \E n \in {32, 33} : pub = <<G!Pub(Seller, n)>>
  OBVIOUS
<1> QED BY <1>5, <1>6, <1>7

LEMMA LetterStep == LetterInv /\ [G!Next]_G!vars => LetterInv'
<1> SUFFICES ASSUME LetterInv, [G!Next]_G!vars PROVE LetterInv'
  OBVIOUS
<1>1. CASE UNCHANGED letter
  BY <1>1 DEF LetterInv
<1>2. ASSUME NEW f, G!Build(f) PROVE LetterInv'
  BY <1>1, <1>2 DEF G!Build
<1>3. ASSUME NEW n, NEW key, NEW type, G!Sign(n, key, type) PROVE LetterInv'
  BY <1>1, <1>3 DEF G!Sign
<1>4. ASSUME NEW p, G!SubmitBuyer(p) \/ G!SubmitSeller(p) PROVE LetterInv'
  BY <1>1, <1>4 DEF G!SubmitBuyer, G!SubmitSeller
<1>5. CASE G!Finalize
  BY <1>1, <1>5 DEF G!Finalize
<1>6. CASE UNCHANGED G!vars
  BY <1>1, <1>6 DEF G!vars
<1>7. ASSUME NEW script, NEW message, NEW key,
             NEW pub \in {<<>>, <<G!Pub(Seller, 32)>>, <<G!Pub(Seller, 33)>>},
             NEW encoding \in {"exact", "trailing"},
             \/ G!Present(script, message, key, "ALL", IF script.kind = "p2tr" THEN 65 ELSE 71, pub, encoding)
             \/ G!Present(script, message, key, "DEFAULT", 64, pub, encoding)
             \/ G!Present(script, message, key, "SINGLE", IF script.kind = "p2tr" THEN 65 ELSE 71, pub, encoding)
      PROVE  LetterInv'
  <2>1. PICK n : n = IF script.kind = "p2tr" THEN 65 ELSE 71
    OBVIOUS
  <2>2. PICK a, d, e : a = "ALL" /\ d = "DEFAULT" /\ e = "SINGLE"
    OBVIOUS
  <2>3. Size(script, a, n) /\ Size(script, d, 64) /\ Size(script, e, n)
    BY <2>1, <2>2 DEF Size
  <2>4. \/ G!Present(script, message, key, a, n, pub, encoding)
        \/ G!Present(script, message, key, d, 64, pub, encoding)
        \/ G!Present(script, message, key, e, n, pub, encoding)
    BY <1>7, <2>1, <2>2, Zenon
  <2> QED BY <2>3, <2>4, PresentedLetter
<1>8. CASE \E script \in G!Claimant, key \in G!Key, encoding \in {"exact", "trailing"},
              pub \in {<<>>, <<G!Pub(Seller, 32)>>, <<G!Pub(Seller, 33)>>} : \E message :
             \/ G!Present(script, message, key, "ALL", IF script.kind = "p2tr" THEN 65 ELSE 71, pub, encoding)
             \/ G!Present(script, message, key, "DEFAULT", 64, pub, encoding)
             \/ G!Present(script, message, key, "SINGLE", IF script.kind = "p2tr" THEN 65 ELSE 71, pub, encoding)
  <2>1. PICK script \in G!Claimant, key \in G!Key, encoding \in {"exact", "trailing"},
             pub \in {<<>>, <<G!Pub(Seller, 32)>>, <<G!Pub(Seller, 33)>>} : \E message :
             \/ G!Present(script, message, key, "ALL", IF script.kind = "p2tr" THEN 65 ELSE 71, pub, encoding)
             \/ G!Present(script, message, key, "DEFAULT", 64, pub, encoding)
             \/ G!Present(script, message, key, "SINGLE", IF script.kind = "p2tr" THEN 65 ELSE 71, pub, encoding)
    BY <1>8, Zenon
  <2>2. PICK message :
             \/ G!Present(script, message, key, "ALL", IF script.kind = "p2tr" THEN 65 ELSE 71, pub, encoding)
             \/ G!Present(script, message, key, "DEFAULT", 64, pub, encoding)
             \/ G!Present(script, message, key, "SINGLE", IF script.kind = "p2tr" THEN 65 ELSE 71, pub, encoding)
    BY <2>1, Zenon
  <2> QED BY <1>7, <2>2
<1>9. ASSUME NEW g \in made, NEW key \in G!Key, NEW b \in BOOLEAN,
             \/ \E p \in G!Kept(1) : G!SubmitBuyer(G!Returns(p, 2, g, key, b))
             \/ \E p \in G!Kept(2) : G!SubmitSeller(G!Returns(p, 1, g, key, b))
      PROVE  LetterInv'
  BY <1>4, <1>9, Zenon
<1> QED BY <1>2, <1>3, <1>9, <1>5, <1>6, <1>8, ZenonT(30) DEF G!Next

(* What a letter's stack is, and what of it is verified.                   *)
LEMMA LetterStack ==
  ASSUME NEW s, NEW g, Letter(s, g)
  PROVE  /\ s.encoding \in {"exact", "trailing"}
         /\ \/ s.stack = <<[sig |-> g]>>
            \/ \E n \in {32, 33} : s.stack = <<[sig |-> g], [pub |-> G!Pub(Seller, n)]>>
         /\ s = [encoding |-> s.encoding, stack |-> s.stack]
  BY DEF Letter

LEMMA VerifiedMessage ==
  ASSUME NEW s, NEW g, Letter(s, g), NEW script, NEW message, G!verifyBip322(script, message, s)
  PROVE  g.over.tx = message
<1>1. PICK x : x = [sig |-> g]
  OBVIOUS
<1>2. s.stack[1] = x
  <2>1. \/ s.stack = <<x>>
        \/ \E n \in {32, 33} : s.stack = <<x, [pub |-> G!Pub(Seller, n)]>>
    BY <1>1, LetterStack, Zenon
  <2> QED BY <2>1
<1>3. G!decodeWitness(s) = s.stack \/ G!decodeWitness(s) = <<>>
  BY DEF G!decodeWitness
<1>4. G!decodeWitness(s) # <<>>
  BY DEF G!verifyBip322
<1>5. \E key : G!Verifies(s.stack[1].sig, message, script, key)
  BY <1>3, <1>4 DEF G!verifyBip322
<1> QED BY <1>1, <1>2, <1>5 DEF G!Verifies

LEMMA LetterSignature ==
  ASSUME NEW s, NEW g, Letter(s, g), NEW script, NEW message, NEW key, G!Verifies(g, message, script, key)
  PROVE  /\ g = G!Sig(key, message, script, g.type, g.bytes)
         /\ Size(script, g.type, g.bytes)
<1>1. PICK k, m, z, t, n : g = G!Sig(k, m, z, t, n) /\ Size(z, t, n)
  BY Zenon DEF Letter
<1>2. g.by = k /\ g.over = [tx |-> m, script |-> z, type |-> t] /\ g.type = t /\ g.bytes = n
  BY <1>1 DEF G!Sig
<1>3. k = key /\ g.over = [tx |-> message, script |-> script, type |-> t]
  BY <1>2 DEF G!Verifies
<1>4. m = message /\ z = script
  BY <1>2, <1>3
<1> QED BY <1>1, <1>2, <1>3, <1>4

(* A stack, item by item. *)
LEMMA StackItems ==
  ASSUME NEW g, NEW x, x = [sig |-> g], NEW k, NEW y, y = [pub |-> k]
  PROVE  /\ Len(<<x>>) = 1 /\ Len(<<x, y>>) = 2 /\ <<x>>[1] = x /\ <<x, y>>[1] = x /\ <<x, y>>[2] = y
         /\ G!IsSig(x) /\ ~G!IsSig(y) /\ x.sig = g /\ y.pub = k
  BY DEF G!IsSig

LEMMA SegwitGenuine ==
  ASSUME NEW s, NEW g, Letter(s, g), NEW script, NEW message, script.kind = "p2wpkh"
  PROVE  G!verifyBip322(script, message, s) <=> s \in G!Genuine(script, message)
<1>0. PICK x : x = [sig |-> g]
  OBVIOUS
<1>1. G!Genuine(script, message) = {G!signBip322P2wpkh(script, message)}
  BY DEF G!Genuine
<1>2. PICK h : h = G!Sig(script.key, message, script, "ALL", 71)
  OBVIOUS
<1>3. PICK z : z = G!Pub(script.key, 33)
  OBVIOUS
<1>4. PICK a, c : a = [sig |-> h] /\ c = [pub |-> z]
  OBVIOUS
<1>5. G!signBip322P2wpkh(script, message) = [encoding |-> "exact", stack |-> <<a, c>>]
  BY <1>2, <1>3, <1>4, Zenon DEF G!signBip322P2wpkh
<1>6. ASSUME G!verifyBip322(script, message, s) PROVE s \in G!Genuine(script, message)
  <2>1. PICK q : q = G!decodeWitness(s)
    OBVIOUS
  <2>2. /\ Len(q) = 2 /\ q[2].pub.bytes = 33 /\ q[2].pub.key = script.key
        /\ q[1].sig.type = "ALL" /\ G!Verifies(q[1].sig, message, script, q[2].pub.key)
    BY <1>6, <2>1 DEF G!verifyBip322
  <2>3. q = s.stack /\ s.encoding = "exact"
    BY <2>1, <2>2 DEF G!decodeWitness
  <2>4. PICK n \in {32, 33} : s.stack = <<x, [pub |-> G!Pub(Seller, n)]>>
    <3>1. \/ s.stack = <<x>>
          \/ \E n \in {32, 33} : s.stack = <<x, [pub |-> G!Pub(Seller, n)]>>
      BY <1>0, LetterStack, Zenon
    <3>2. Len(<<x>>) = 1
      OBVIOUS
    <3> QED BY <2>2, <2>3, <3>1, <3>2
  <2>5. PICK k, y : k = G!Pub(Seller, n) /\ y = [pub |-> k]
    OBVIOUS
  <2>6. s.stack = <<x, y>>
    BY <2>4, <2>5, Zenon
  <2>7. q[1].sig = g /\ q[2].pub = k
    BY <1>0, <2>3, <2>5, <2>6, StackItems
  <2>8. k = z
    BY <1>3, <2>2, <2>5, <2>7 DEF G!Pub
  <2>9. g.type = "ALL" /\ G!Verifies(g, message, script, script.key)
    BY <2>2, <2>7
  <2>10. g = G!Sig(script.key, message, script, g.type, g.bytes) /\ Size(script, g.type, g.bytes)
    BY <2>9, LetterSignature
  <2>11. g.bytes = 71
    BY <2>9, <2>10 DEF Size
  <2>12. g = h
    BY <1>2, <2>9, <2>10, <2>11, Zenon
  <2>13. s = [encoding |-> "exact", stack |-> <<a, c>>]
    <3>1. s = [encoding |-> s.encoding, stack |-> s.stack]
      BY LetterStack
    <3> QED BY <1>0, <1>4, <2>3, <2>5, <2>6, <2>8, <2>12, <3>1, Zenon
  <2> QED BY <1>1, <1>5, <2>13
<1>7. ASSUME s \in G!Genuine(script, message) PROVE G!verifyBip322(script, message, s)
  <2>1. s = [encoding |-> "exact", stack |-> <<a, c>>]
    BY <1>1, <1>5, <1>7
  <2>2. G!decodeWitness(s) = <<a, c>>
    BY <2>1 DEF G!decodeWitness
  <2>3. PICK q : q = <<a, c>>
    OBVIOUS
  <2>4. Len(q) = 2 /\ G!IsSig(q[1]) /\ ~G!IsSig(q[2]) /\ q[1].sig = h /\ q[2].pub = z
    BY <1>4, <2>3, StackItems
  <2>5. h.type = "ALL" /\ G!Verifies(h, message, script, script.key) /\ z.bytes = 33 /\ z.key = script.key
    BY <1>2, <1>3 DEF G!Sig, G!Verifies, G!Pub
  <2> QED BY <2>2, <2>3, <2>4, <2>5 DEF G!verifyBip322
<1> QED BY <1>6, <1>7

LEMMA TaprootGenuine ==
  ASSUME NEW s, NEW g, Letter(s, g), NEW script, NEW message, script.kind = "p2tr"
  PROVE  G!verifyBip322(script, message, s) <=> s \in G!Genuine(script, message)
<1>0. PICK x : x = [sig |-> g]
  OBVIOUS
<1>1. G!Genuine(script, message) = {G!signBip322P2tr(script, message, type) : type \in {"DEFAULT", "ALL"}}
  BY DEF G!Genuine
<1>2. PICK d, e : /\ d = G!Sig(script.key, message, script, "DEFAULT", 64)
                  /\ e = G!Sig(script.key, message, script, "ALL", 65)
  OBVIOUS
<1>3. PICK a, c : a = [sig |-> d] /\ c = [sig |-> e]
  OBVIOUS
<1>4. /\ G!signBip322P2tr(script, message, "DEFAULT") = [encoding |-> "exact", stack |-> <<a>>]
      /\ G!signBip322P2tr(script, message, "ALL") = [encoding |-> "exact", stack |-> <<c>>]
  <2>1. (IF "DEFAULT" = "ALL" THEN 65 ELSE 64) = 64 /\ (IF "ALL" = "ALL" THEN 65 ELSE 64) = 65
    OBVIOUS
  <2> QED BY <1>2, <1>3, <2>1, Zenon DEF G!signBip322P2tr
<1>5. s \in G!Genuine(script, message) <=> \/ s = [encoding |-> "exact", stack |-> <<a>>]
                                           \/ s = [encoding |-> "exact", stack |-> <<c>>]
  BY <1>1, <1>4, Zenon
<1>6. ASSUME G!verifyBip322(script, message, s) PROVE s \in G!Genuine(script, message)
  <2>1. PICK q : q = G!decodeWitness(s)
    OBVIOUS
  <2>2. /\ Len(q) = 1 
        /\ q[1].sig.bytes = 64 \/ (q[1].sig.bytes = 65 /\ q[1].sig.type = "ALL")
        /\ G!Verifies(q[1].sig, message, script, script.key)
    BY <1>6, <2>1 DEF G!verifyBip322
  <2>3. q = s.stack /\ s.encoding = "exact"
    BY <1>6, <2>1 DEF G!decodeWitness, G!verifyBip322
  <2>4. s.stack = <<x>>
    <3>1. \/ s.stack = <<x>>
          \/ \E n \in {32, 33} : s.stack = <<x, [pub |-> G!Pub(Seller, n)]>>
      BY <1>0, LetterStack, Zenon
    <3>2. \A y : Len(<<x, y>>) = 2
      OBVIOUS
    <3>3. Len(q) = 1
      BY <1>6, <2>1 DEF G!verifyBip322
    <3> QED BY <2>3, <3>1, <3>2, <3>3
  <2>5. q[1].sig = g
    BY <1>0, <2>3, <2>4
  <2>6. /\ g.bytes = 64 \/ (g.bytes = 65 /\ g.type = "ALL")
        /\ G!Verifies(g, message, script, script.key)
    BY <1>6, <2>1, <2>5 DEF G!verifyBip322
  <2>7. g = G!Sig(script.key, message, script, g.type, g.bytes) /\ Size(script, g.type, g.bytes)
    BY <2>6, LetterSignature
  <2>8. (g.bytes = 64 /\ g.type = "DEFAULT") \/ (g.bytes = 65 /\ g.type = "ALL")
    BY <2>6, <2>7 DEF Size
  <2>9. g = d \/ g = e
    BY <1>2, <2>7, <2>8, Zenon
  <2>10. s = [encoding |-> "exact", stack |-> <<x>>]
    <3>1. s = [encoding |-> s.encoding, stack |-> s.stack]
      BY LetterStack
    <3> QED BY <2>3, <2>4, <3>1, Zenon
  <2>11. x = a \/ x = c
    BY <1>0, <1>3, <2>9, Zenon
  <2> QED BY <1>5, <2>10, <2>11, Zenon
<1>7. ASSUME s \in G!Genuine(script, message) PROVE G!verifyBip322(script, message, s)
  <2>1. PICK r, q : /\ q = <<r>> /\ (r = a \/ r = c) /\ s = [encoding |-> "exact", stack |-> <<r>>]
    BY <1>5, <1>7, Zenon
  <2>2. G!decodeWitness(s) = q
    BY <2>1 DEF G!decodeWitness
  <2>3. Len(q) = 1 /\ q[1] = r
    BY <2>1
  <2>4. /\ G!IsSig(r) /\ (r.sig = d \/ r.sig = e)
    BY <1>3, <2>1 DEF G!IsSig
  <2>5. /\ d.bytes = 64 /\ e.bytes = 65 /\ e.type = "ALL"
        /\ G!Verifies(d, message, script, script.key) /\ G!Verifies(e, message, script, script.key)
    BY <1>2 DEF G!Sig, G!Verifies
  <2>6. /\ r.sig.bytes = 64 \/ (r.sig.bytes = 65 /\ r.sig.type = "ALL")
        /\ G!Verifies(r.sig, message, script, script.key)
    BY <2>4, <2>5, Zenon
  <2> QED BY <2>2, <2>3, <2>4, <2>6 DEF G!verifyBip322
<1> QED BY <1>6, <1>7

LEMMA LetterGenuine ==
  ASSUME NEW s, NEW g, Letter(s, g), NEW script, NEW message, script.kind \in {"p2wpkh", "p2tr"}
  PROVE  G!verifyBip322(script, message, s) <=> s \in G!Genuine(script, message)
  BY SegwitGenuine, TaprootGenuine

(* Three sets, each of at most one element and no two of them inhabited.   *)
LEMMA OneOfThree ==
  ASSUME NEW A, NEW B, NEW C,
         \A x, y \in A : x = y, \A x, y \in B : x = y, \A x, y \in C : x = y,
         A = {} \/ B = {}, A = {} \/ C = {}, B = {} \/ C = {}
  PROVE  Cardinality(A) + Cardinality(B) + Cardinality(C) <= 1
<1>1. ASSUME NEW S, \A x, y \in S : x = y
      PROVE  Cardinality(S) \in Nat /\ Cardinality(S) <= 1 /\ (S = {} => Cardinality(S) = 0)
  <2>1. S = {} => Cardinality(S) = 0
    BY FS_EmptySet, Zenon
  <2>2. CASE S # {}
    <3>1. PICK x : S \subseteq {x}
      BY <1>1, <2>2
    <3>2. IsFiniteSet(S) /\ Cardinality(S) <= 1
      BY <3>1, AtMostOne
    <3>3. Cardinality(S) \in Nat
      BY <3>2, FS_CardinalityType
    <3> QED BY <2>2, <3>2, <3>3
  <2>3. CASE S = {}
    BY <2>1, <2>3
  <2> QED BY <2>2, <2>3
<1>2. Cardinality(A) \in Nat /\ Cardinality(A) <= 1 /\ (A = {} => Cardinality(A) = 0)
  BY <1>1
<1>3. Cardinality(B) \in Nat /\ Cardinality(B) <= 1 /\ (B = {} => Cardinality(B) = 0)
  BY <1>1
<1>4. Cardinality(C) \in Nat /\ Cardinality(C) <= 1 /\ (C = {} => Cardinality(C) = 0)
  BY <1>1
<1> QED BY <1>2, <1>3, <1>4

(* One signature, one use.                                                 *)
LEMMA OneUse ==
  ASSUME NEW o, NEW s, NEW g, Letter(s, g)
  PROVE  Cardinality({l \in Orders : G!verifyListingAuthorization(l, s)}) +
         Cardinality({c \in G!Cancellation : G!verifyCancellationAuthorization(o, c, s)}) +
         Cardinality({r \in G!Reservation : G!verifyReservationAuthorization(r, s)}) <= 1
<1>1. PICK M : M = g.over.tx
  OBVIOUS
<1>2. PICK A : A = {l \in Orders : G!verifyListingAuthorization(l, s)}
  OBVIOUS
<1>3. PICK B : B = {c \in G!Cancellation : G!verifyCancellationAuthorization(o, c, s)}
  OBVIOUS
<1>4. PICK C : C = {r \in G!Reservation : G!verifyReservationAuthorization(r, s)}
  OBVIOUS
<1>5. \A l \in A : l \in Orders /\ M = G!listingMessageToSign(l)
  BY <1>1, <1>2, VerifiedMessage DEF G!verifyListingAuthorization
<1>6. \A c \in B : c \in G!Cancellation /\ M = G!cancellationMessageToSign(c)
  BY <1>1, <1>3, VerifiedMessage DEF G!verifyCancellationAuthorization
<1>7. \A r \in C : r \in G!Reservation /\ M = G!reservationMessageToSign(r)
  BY <1>1, <1>4, VerifiedMessage DEF G!verifyReservationAuthorization
<1>8. \A l \in A : M.domain = "LISTING" /\ M.listing = G!listingIdOf(l)
  <2>1. TAKE l \in A
  <2>2. PICK i, z : i = G!listingIdOf(l) /\ z = G!NoScript
    OBVIOUS
  <2>3. M = [domain |-> "LISTING", listing |-> i, nonce |-> "", script |-> z]
    BY <1>5, <2>2, Zenon DEF G!listingMessageToSign, G!Message
  <2>4. M.domain = "LISTING" /\ M.listing = i
    BY <2>3
  <2> QED BY <2>2, <2>4
<1>9. \A c \in B : M.domain = "CANCEL" /\ M.listing = c.listingId /\ M.nonce = c.nonce
  BY <1>6 DEF G!cancellationMessageToSign, G!Message
<1>10. \A r \in C : /\ M.domain = "RESERVE" /\ M.listing = r.listingId /\ M.nonce = r.nonce
                    /\ M.script = r.script
  BY <1>7 DEF G!reservationMessageToSign, G!Message
<1>11. \A l, m \in A : l = m
  BY <1>5, <1>8, ListingAssumption
<1>12. \A c, d \in B : c = d
  <2>1. \A c \in B : c = [listingId |-> c.listingId, nonce |-> c.nonce]
    BY <1>6 DEF G!Cancellation
  <2>2. \A c \in B : c = [listingId |-> M.listing, nonce |-> M.nonce]
    BY <1>9, <2>1
  <2> QED BY <2>2, Zenon
<1>13. \A r, q \in C : r = q
  <2>1. \A r \in C : r = [listingId |-> r.listingId, nonce |-> r.nonce, script |-> r.script]
    BY <1>7 DEF G!Reservation
  <2>2. \A r \in C : r = [listingId |-> M.listing, nonce |-> M.nonce, script |-> M.script]
    BY <1>10, <2>1
  <2> QED BY <2>2, Zenon
<1>14. (A = {} \/ B = {}) /\ (A = {} \/ C = {}) /\ (B = {} \/ C = {})
  <2>1. "LISTING" # "CANCEL" /\ "LISTING" # "RESERVE" /\ "CANCEL" # "RESERVE"
    OBVIOUS
  <2> QED BY <1>8, <1>9, <1>10, <2>1
<1>15. Cardinality(A) + Cardinality(B) + Cardinality(C) <= 1
  BY <1>11, <1>12, <1>13, <1>14, OneOfThree
<1> QED BY <1>2, <1>3, <1>4, <1>15, Zenon

LEMMA LetterBound == FillInv /\ LetterInv => G!AuthorizationBound
<1> SUFFICES ASSUME FillInv, LetterInv, letter # <<>> PROVE G!AuthorizationBound
  BY DEF G!AuthorizationBound
<1>1. PICK s, g : letter = <<s>> /\ Letter(s, g)
  BY DEF LetterInv
<1>2. letter[1] = s
  BY <1>1
<1>3. G!validateListingShape(order) => order.token.kind \in {"p2wpkh", "p2tr"}
  BY DEF G!validateListingShape
<1>4. G!validateListingShape(order) =>
         G!verifyListingAuthorization(order, s) = (s \in G!Genuine(order.token, G!listingMessageToSign(order)))
  BY <1>1, <1>3, LetterGenuine DEF G!verifyListingAuthorization, G!requireSupported
<1>5. G!validateListingShape(order) => \A c \in G!Cancellation :
         G!verifyCancellationAuthorization(order, c, s) =
           (s \in G!Genuine(order.token, G!cancellationMessageToSign(c)))
  BY <1>1, <1>3, LetterGenuine DEF G!verifyCancellationAuthorization, G!requireSupported
<1>6. \A r \in G!Reservation : G!verifyReservationAuthorization(r, s) =
         (s \in G!Genuine(r.script, G!reservationMessageToSign(r)))
  <2>1. \A r \in G!Reservation : r.script.kind \in {"p2wpkh", "p2tr"}
    BY DEF G!Reservation, G!Claimant, G!Script
  <2> QED BY <1>1, <2>1, LetterGenuine DEF G!verifyReservationAuthorization, G!requireSupported
<1>7. G!Cardinality({l \in Orders : G!verifyListingAuthorization(l, s)}) +
      G!Cardinality({c \in G!Cancellation : G!verifyCancellationAuthorization(order, c, s)}) +
      G!Cardinality({r \in G!Reservation : G!verifyReservationAuthorization(r, s)}) <= 1
  <2>1. PICK o : o = order
    OBVIOUS
  <2>2. Cardinality({l \in Orders : G!verifyListingAuthorization(l, s)}) +
        Cardinality({c \in G!Cancellation : G!verifyCancellationAuthorization(o, c, s)}) +
        Cardinality({r \in G!Reservation : G!verifyReservationAuthorization(r, s)}) <= 1
    BY <1>1, OneUse, Zenon
  <2> QED BY <2>1, <2>2, SameCardinality, Zenon
<1> QED BY <1>2, <1>4, <1>5, <1>6, <1>7, Zenon DEF G!AuthorizationBound

(* However a fill's PSBT passes between its parties and whatever letters   *)
(* are presented: a fill goes on only with signatures of the right keys    *)
(* over all of its transaction, a wallet that signs as asked is served,    *)
(* and a letter authorizes the one message its script's key signed.        *)
THEOREM SignaturesBound ==
  G!Spec => [](G!PartiesSigned /\ G!WalletsAccepted /\ G!AuthorizationBound)
<1>1. G!Init => FillInv /\ LetterInv
  BY FillInit DEF G!Init, LetterInv
<1>2. FillInv /\ LetterInv /\ [G!Next]_G!vars => (FillInv /\ LetterInv)'
  BY FillStep, LetterStep
<1>3. FillInv /\ LetterInv => G!PartiesSigned /\ G!WalletsAccepted /\ G!AuthorizationBound
  BY FillAccepted, LetterBound DEF FillInv
<1> QED BY <1>1, <1>2, <1>3, PTL DEF G!Spec

-----------------------------------------------------------------------------
(* The user's signature from both ends: what the wallet is asked for is    *)
(* what the user chose and reviewed, and what the server takes is what the *)
(* right key signed, whatever either side meets.                           *)
THEOREM UserSignsAsAsked == W!Spec /\ G!Spec => []SignsAsAsked
<1>1. (W!TypeOK /\ W!ChosenStands /\ W!SignedBuyIsReviewed /\ W!SignedIsOwn)
        /\ (G!PartiesSigned /\ G!WalletsAccepted /\ G!AuthorizationBound) => SignsAsAsked
  BY DEF SignsAsAsked
<1> QED BY <1>1, WalletSessionSafe, SignaturesBound, PTL
=============================================================================
