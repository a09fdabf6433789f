--------------------------- MODULE GuardianSigning ---------------------------
(***************************************************************************)
(* The Guardian's signing path: audit, reserve, sign.                      *)
(*                                                                         *)
(*   packages/cove-guardian/src/v3/transitionSigner.ts                     *)
(*   packages/cove-app/src/journal.ts   PostgresSigningJournal             *)
(*   packages/cove-app/src/audit.ts     PostgresGuardianAudit              *)
(*                                                                         *)
(* Requests run concurrently and interleave at every await; the process    *)
(* may die at any of them.  A request id is random and the audit hash      *)
(* covers it, so a record's hash is represented by its request.            *)
(***************************************************************************)
EXTENDS Integers, Sequences, FiniteSets, Maps

CONSTANTS Request,      \* requests, retries and rebuilds included
          OutpointOf,   \* OutpointOf[r]: the vault outpoint it spends
          DigestOf,     \* DigestOf[r]: its unsigned transaction digest
          Zero,         \* the hash before the first audit record
          TTL,          \* SIGNING_JOURNAL_TTL_MS
          MaxTime,      \* bound on the clock
          MaxInFlight   \* bound on the requests served at once

ASSUME SigningAssumption ==
  /\ Zero \notin Request
  /\ TTL \in Nat
  /\ MaxTime \in Nat
  /\ MaxInFlight \in Nat

VARIABLES now,       \* Date.now()
          journal,   \* cove_v3_signing_journal: outpoint -> lease
          audit,     \* cove_v3_guardian_audit, in insertion order
          pc,        \* where each request stands
          loc,       \* its locals: [prev, at, lease]
          leases,    \* history: every reservation ever made
          released,  \* history: the outpoints a reservation was released for
          sigs       \* history: every signature: [req, lease]

vars == <<now, journal, audit, pc, loc, leases, released, sigs>>

Outpoint == {OutpointOf[r] : r \in Request}
Digest == {DigestOf[r] : r \in Request}

(* racing is history: the requests that had read the head of the audit     *)
(* table and not yet written when the record was inserted.                 *)
Record == [req : Request, prev : Request \cup {Zero}, racing : SUBSET Request]

(* A row of the signing journal: claimed by a request at a time. *)
Lease == [out : Outpoint, digest : Digest, by : Request, at : 0 .. MaxTime]
ExpiresAt(l) == l.at + TTL

(* The fields of l a row does not have (by, at) identify its insertion. *)
NewLease(r, t) ==
  [out |-> OutpointOf[r], digest |-> DigestOf[r], by |-> r, at |-> t]

Init ==
  /\ now = 0
  /\ journal = Nothing
  /\ audit = <<>>
  /\ pc = [r \in Request |-> "new"]
  /\ loc = [r \in Request |->
              [prev |-> Zero, at |-> 0, lease |-> NewLease(r, 0)]]
  /\ leases = {}
  /\ released = {}
  /\ sigs = {}

Goto(r, to) == pc' = [pc EXCEPT ![r] = to]
AtRest == {"new", "refused", "done", "lost"}

-----------------------------------------------------------------------------
(* Validation and the risk policy pass or refuse; nothing is written. *)
Validate(r) ==
  /\ pc[r] = "new"
  /\ Cardinality({q \in Request : pc[q] \notin AtRest}) < MaxInFlight
  /\ Goto(r, "head") \/ Goto(r, "refused")
  /\ UNCHANGED <<now, journal, audit, loc, leases, released, sigs>>

(* Mutant of headHash: the row instead of its hash. *)
HeadRow == IF audit = <<>> THEN Zero ELSE audit[Len(audit)]

(* headHash: the newest record's hash. *)
HeadHash == IF audit = <<>> THEN Zero ELSE audit[Len(audit)].req

ReadHead(r) ==
  /\ pc[r] = "head"
  /\ loc' = [loc EXCEPT ![r].prev = HeadHash]
  /\ Goto(r, "insert")
  /\ UNCHANGED <<now, journal, audit, leases, released, sigs>>

RecordOf(r) ==
  [req |-> r, prev |-> loc[r].prev,
   racing |-> {q \in Request \ {r} : pc[q] = "insert"}]

(* Mutant: the insert is retried although it went through. *)
WriteBeforeSignTwice(r) ==
  /\ pc[r] = "insert"
  /\ Len(audit) < 3
  /\ audit' = Append(audit, RecordOf(r))
  /\ loc' = [loc EXCEPT ![r].at = now]
  /\ Goto(r, "reserve") \/ Goto(r, "insert")
  /\ UNCHANGED <<now, journal, leases, released, sigs>>

(* writeBeforeSign inserts the record; reserve then reads the clock. *)
WriteBeforeSign(r) ==
  /\ pc[r] = "insert"
  /\ audit' = Append(audit, RecordOf(r))
  /\ loc' = [loc EXCEPT ![r].at = now]
  /\ Goto(r, "reserve")
  /\ UNCHANGED <<now, journal, leases, released, sigs>>

(* Mutant: a failed audit write is logged and the request goes on. *)
AuditFailureIgnored(r) ==
  /\ pc[r] \in {"head", "insert"}
  /\ Goto(r, "reserve")
  /\ UNCHANGED <<now, journal, audit, loc, leases, released, sigs>>

(* AUDIT_PERSISTENCE_FAILED: no signature. *)
AuditFails(r) ==
  /\ pc[r] \in {"head", "insert"}
  /\ Goto(r, "refused")
  /\ UNCHANGED <<now, journal, audit, loc, leases, released, sigs>>

(* Mutant: the row can be taken over before it has expired. *)
ClaimableEarly(r) ==
  OutpointOf[r] \in DOMAIN journal =>
    journal[OutpointOf[r]].at <= loc[r].at

(* The upsert: the row is absent, or expired at the time the request read. *)
Claimable(r) ==
  OutpointOf[r] \in DOMAIN journal =>
    ExpiresAt(journal[OutpointOf[r]]) <= loc[r].at

Reserve(r) ==
  /\ pc[r] = "reserve"
  /\ Claimable(r)
  /\ LET l == NewLease(r, loc[r].at)
     IN  /\ journal' = Put(journal, [o \in {OutpointOf[r]} |-> l])
         /\ leases' = leases \cup {l}
         /\ loc' = [loc EXCEPT ![r].lease = l]
  /\ Goto(r, "sign")
  /\ UNCHANGED <<now, audit, released, sigs>>

ReserveHeld(r) ==
  /\ pc[r] = "reserve"
  /\ ~Claimable(r)
  /\ Goto(r, "reread")
  /\ UNCHANGED <<now, journal, audit, loc, leases, released, sigs>>

(* The row is read again: IDEMPOTENT, or CONFLICT. *)
SameDigest(r) ==
  /\ OutpointOf[r] \in DOMAIN journal
  /\ journal[OutpointOf[r]].digest = DigestOf[r]

Reread(r) ==
  /\ pc[r] = "reread"
  /\ \/ /\ SameDigest(r)
        /\ loc' = [loc EXCEPT ![r].lease = journal[OutpointOf[r]]]
        /\ Goto(r, "sign")
     \/ /\ ~SameDigest(r)
        /\ Goto(r, "refused")
        /\ UNCHANGED loc
  /\ UNCHANGED <<now, journal, audit, leases, released, sigs>>

(* signVaultExecutionLeaf; the reservation was RESERVED iff r made it. *)
Sign(r) ==
  /\ pc[r] = "sign"
  /\ sigs' = sigs \cup {[req |-> r, lease |-> loc[r].lease]}
  /\ Goto(r, "after")
  /\ UNCHANGED <<now, journal, audit, loc, leases, released>>

(* The custody backend fails. *)
SignFails(r) ==
  /\ pc[r] = "sign"
  /\ Goto(r, IF loc[r].lease.by = r THEN "release" ELSE "refused")
  /\ UNCHANGED <<now, journal, audit, loc, leases, released, sigs>>

(* release deletes the outpoint's row if it holds the request's digest. *)
Release(r) ==
  /\ pc[r] = "release"
  /\ IF SameDigest(r)
       THEN /\ released' = released \cup {OutpointOf[r]}
            /\ journal' = Del(journal, {OutpointOf[r]})
       ELSE UNCHANGED <<journal, released>>
  /\ Goto(r, "refused")
  /\ UNCHANGED <<now, audit, loc, leases, sigs>>

(* writeAfterSign; its failure is logged and changes nothing. *)
WriteAfterSign(r) ==
  /\ pc[r] = "after"
  /\ Goto(r, "done")
  /\ UNCHANGED <<now, journal, audit, loc, leases, released, sigs>>

(* The process dies: the requests in flight are lost. *)
Crash ==
  /\ \E r \in Request : pc[r] \notin AtRest
  /\ pc' = [r \in Request |-> IF pc[r] \in AtRest THEN pc[r] ELSE "lost"]
  /\ UNCHANGED <<now, journal, audit, loc, leases, released, sigs>>

TimePasses ==
  /\ now < MaxTime
  /\ now' = now + 1
  /\ UNCHANGED <<journal, audit, pc, loc, leases, released, sigs>>

Serve(r) ==
  \/ Validate(r) \/ ReadHead(r) \/ WriteBeforeSign(r) \/ AuditFails(r)
  \/ Reserve(r) \/ ReserveHeld(r) \/ Reread(r)
  \/ Sign(r) \/ SignFails(r) \/ Release(r) \/ WriteAfterSign(r)

Next == (\E r \in Request : Serve(r)) \/ Crash \/ TimePasses

Spec == Init /\ [][Next]_vars

-----------------------------------------------------------------------------
Phases == AtRest \cup {"head", "insert", "reserve", "reread", "sign",
                       "release", "after"}

(* Type correctness of the tables, of the requests and of the histories. *)
TypeOK ==
  /\ now \in 0 .. MaxTime
  /\ journal \in [DOMAIN journal -> Lease]
  /\ DOMAIN journal \subseteq Outpoint
  /\ audit \in Seq(Record)
  /\ pc \in [Request -> Phases]
  /\ loc \in [Request -> [prev : Request \cup {Zero}, at : 0 .. MaxTime,
                          lease : Lease]]
  /\ leases \subseteq Lease
  /\ released \subseteq Outpoint
  /\ sigs \subseteq [req : Request, lease : Lease]

Audited(r) == \E i \in DOMAIN audit : audit[i].req = r

(* Every signature is preceded by a durable audit record of its request    *)
(* (docs/ARCHITECTURE.md, lines 102-103), and so is every reservation a    *)
(* crash or a conflict leaves behind.                                      *)
AuditedBeforeSigned ==
  /\ \A s \in sigs : Audited(s.req)
  /\ \A l \in leases : Audited(l.by)

Disjoint(k, l) == ExpiresAt(k) <= l.at \/ ExpiresAt(l) <= k.at

(* Two signatures for one vault outpoint are for the same transaction, or  *)
(* were made under reservations that do not overlap in time, or a          *)
(* reservation of that outpoint was released because a signer threw: the   *)
(* upsert is exclusive however the requests interleave, crash and retry.   *)
LeaseExclusive ==
  \A s, t \in sigs :
    OutpointOf[s.req] = OutpointOf[t.req] =>
      \/ DigestOf[s.req] = DigestOf[t.req]
      \/ Disjoint(s.lease, t.lease)
      \/ OutpointOf[s.req] \in released

(* The audit history is a tree of hashes: a record chains from the zero    *)
(* hash or from an earlier record, no request writes two, and the history  *)
(* forks only where a request had read the head before another wrote: two  *)
(* records chain from one only if the second was racing when the first was *)
(* inserted.                                                               *)
AuditAnchored ==
  \A i \in DOMAIN audit :
    /\ audit[i].prev # Zero => \E j \in 1 .. i - 1 : audit[j].req = audit[i].prev
    /\ \A j \in DOMAIN audit : audit[j].req = audit[i].req => i = j
    /\ \A j \in 1 .. i - 1 :
         audit[j].prev = audit[i].prev => audit[i].req \in audit[j].racing

(* verifyGuardianAuditChain: the audit history is one chain of hashes, each *)
(* record chaining from the record before it (journal.ts, lines 79-84).    *)
(* The code keeps it only for requests one at a time (README, Findings).   *)
AuditChainVerifies ==
  \A i \in DOMAIN audit :
    audit[i].prev = IF i = 1 THEN Zero ELSE audit[i - 1].req

(* The Guardian can never sign two different successors for the same       *)
(* backing outpoint (journal.ts, lines 6-8).  The code does not keep it: a *)
(* request whose signer throws releases the row under which a retry of its *)
(* transaction has signed, and a reservation lapses with its time to live  *)
(* whether or not its holder signed.                                       *)
AtMostOneSuccessor ==
  \A s, t \in sigs :
    OutpointOf[s.req] = OutpointOf[t.req] => DigestOf[s.req] = DigestOf[t.req]

-----------------------------------------------------------------------------
(* The inductive invariant behind LeaseExclusive: while no reservation of  *)
(* an outpoint was released, its row is its latest lease and every earlier *)
(* one had ended when the next began.                                      *)
Settled(o) ==
  \A l \in leases :
    l.out = o =>
      /\ o \in DOMAIN journal
      /\ l = journal[o] \/ ExpiresAt(l) <= journal[o].at

RowsAreLeases ==
  \A o \in DOMAIN journal : journal[o] \in leases /\ journal[o].out = o

LeasesDisjoint ==
  \A k, l \in leases :
    k.out = l.out /\ k.out \notin released => k = l \/ Disjoint(k, l)

GrantsMatch ==
  \A r \in Request :
    pc[r] = "sign" => /\ loc[r].lease \in leases
                      /\ loc[r].lease.out = OutpointOf[r]
                      /\ loc[r].lease.digest = DigestOf[r]

(* What was signed is what the reservation was made for. *)
SignedAsReserved ==
  \A s \in sigs :
    /\ s.lease \in leases
    /\ s.lease.out = OutpointOf[s.req]
    /\ s.lease.digest = DigestOf[s.req]

LeaseInv ==
  /\ TypeOK
  /\ RowsAreLeases
  /\ \A o \in Outpoint \ released : Settled(o)
  /\ LeasesDisjoint
  /\ GrantsMatch
  /\ SignedAsReserved
=============================================================================
