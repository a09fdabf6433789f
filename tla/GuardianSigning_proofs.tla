----------------------- MODULE GuardianSigning_proofs -----------------------
(***************************************************************************)
(* Proofs about GuardianSigning, for any number of requests, vaults and    *)
(* transactions, any time to live and any interleaving; and about the coins*)
(* that pay for what the Guardian signs (SafeFunding).                     *)
(***************************************************************************)
EXTENDS GuardianSigning, SafeFunding, TLAPS

(* The shape of a lease and of the tables around it. *)
LEMMA LeaseType ==
  ASSUME NEW r \in Request, NEW t \in 0 .. MaxTime
  PROVE  /\ NewLease(r, t) \in Lease
         /\ NewLease(r, t).out = OutpointOf[r]
         /\ NewLease(r, t).digest = DigestOf[r]
         /\ NewLease(r, t).by = r
         /\ NewLease(r, t).at = t
  BY DEF NewLease, Lease, Outpoint, Digest

LEMMA DelRow ==
  ASSUME NEW j, NEW o
  PROVE  /\ DOMAIN Del(j, {o}) = DOMAIN j \ {o}
         /\ \A x \in DOMAIN j \ {o} : Del(j, {o})[x] = j[x]
  BY DEF Del

LEMMA DelRowType ==
  ASSUME NEW V, NEW j, j \in [DOMAIN j -> V], NEW o
  PROVE  Del(j, {o}) \in [DOMAIN Del(j, {o}) -> V]
  BY DEF Del

LEMMA PhaseType ==
  ASSUME TypeOK, NEW r \in Request, NEW p \in Phases, Goto(r, p)
  PROVE  /\ pc' \in [Request -> Phases]
         /\ pc'[r] = p
         /\ \A q \in Request : q # r => pc'[q] = pc[q]
  BY DEF TypeOK, Goto

LEMMA HeadType == TypeOK => HeadHash \in Request \cup {Zero}
<1> SUFFICES ASSUME TypeOK PROVE HeadHash \in Request \cup {Zero}
  OBVIOUS
<1>1. CASE audit = <<>>
  BY <1>1 DEF HeadHash
<1>2. CASE audit # <<>>
  <2>1. audit \in Seq(Record) /\ Len(audit) \in 1 .. Len(audit)
    BY <1>2 DEF TypeOK
  <2>2. audit[Len(audit)] \in Record
    BY <2>1
  <2> QED BY <1>2, <2>2 DEF HeadHash, Record
<1> QED BY <1>1, <1>2

(* Types are kept by every step. *)
LEMMA TypeStep == TypeOK /\ [Next]_vars => TypeOK'
<1> SUFFICES ASSUME TypeOK, [Next]_vars PROVE TypeOK'
  OBVIOUS
<1> USE SigningAssumption
<1> DEFINE Loc == [prev : Request \cup {Zero}, at : 0 .. MaxTime, lease : Lease]
<1>1. CASE UNCHANGED vars
  BY <1>1 DEF TypeOK, vars
<1>2. CASE TimePasses
  BY <1>2 DEF TypeOK, TimePasses
<1>3. CASE Crash
  <2>1. pc' \in [Request -> Phases]
    BY <1>3 DEF TypeOK, Crash, Phases, AtRest
  <2> QED BY <1>3, <2>1 DEF TypeOK, Crash
<1>4. ASSUME NEW r \in Request, Serve(r) PROVE TypeOK'
  <2>0. loc \in [Request -> Loc] /\ loc[r] \in Loc
    BY DEF TypeOK
  <2>1. CASE Validate(r)
    <3>1. pc' \in [Request -> Phases]
      BY <2>1, PhaseType DEF Validate, Phases, AtRest
    <3> QED BY <2>1, <3>1 DEF TypeOK, Validate
  <2>2. CASE ReadHead(r)
    <3>1. pc' \in [Request -> Phases]
      BY <2>2, PhaseType DEF ReadHead, Phases, AtRest
    <3>2. loc' \in [Request -> Loc]
      BY <2>0, <2>2, HeadType DEF ReadHead
    <3> QED BY <2>2, <3>1, <3>2 DEF TypeOK, ReadHead
  <2>3. CASE WriteBeforeSign(r)
    <3>1. pc' \in [Request -> Phases]
      BY <2>3, PhaseType DEF WriteBeforeSign, Phases, AtRest
    <3>2. loc' \in [Request -> Loc]
      BY <2>0, <2>3 DEF WriteBeforeSign, TypeOK
    <3>3. RecordOf(r) \in Record
      BY <2>0 DEF Record, RecordOf
    <3>4. audit' \in Seq(Record)
      BY <2>3, <3>3 DEF WriteBeforeSign, TypeOK
    <3> QED BY <2>3, <3>1, <3>2, <3>4 DEF TypeOK, WriteBeforeSign
  <2>4. CASE AuditFails(r)
    <3>1. pc' \in [Request -> Phases]
      BY <2>4, PhaseType DEF AuditFails, Phases, AtRest
    <3> QED BY <2>4, <3>1 DEF TypeOK, AuditFails
  <2>5. CASE Reserve(r)
    <3> DEFINE l == NewLease(r, loc[r].at)
    <3>1. pc' \in [Request -> Phases]
      BY <2>5, PhaseType DEF Reserve, Phases, AtRest
    <3>2. l \in Lease /\ OutpointOf[r] \in Outpoint
      BY <2>0, LeaseType DEF Outpoint
    <3>3. /\ journal' = Put(journal, [o \in {OutpointOf[r]} |-> l])
          /\ leases' = leases \cup {l}
          /\ loc' = [loc EXCEPT ![r].lease = l]
      BY <2>5 DEF Reserve
    <3> HIDE DEF l
    <3>4. loc' \in [Request -> Loc]
      BY <2>0, <3>2, <3>3
    <3>5. journal' \in [DOMAIN journal' -> Lease] /\ DOMAIN journal' \subseteq Outpoint
      <4> DEFINE j == Put(journal, [o \in {OutpointOf[r]} |-> l])
      <4>1. journal \in [DOMAIN journal -> Lease] /\ DOMAIN journal \subseteq Outpoint
        BY DEF TypeOK
      <4>2. j \in [DOMAIN j -> Lease]
        BY <3>2, <4>1 DEF Put
      <4>3. DOMAIN j = DOMAIN journal \cup {OutpointOf[r]}
        BY DEF Put
      <4> HIDE DEF j
      <4>4. journal' = j
        BY <3>3 DEF j
      <4> QED BY <3>2, <4>1, <4>2, <4>3, <4>4
    <3> QED BY <2>5, <3>1, <3>2, <3>3, <3>4, <3>5 DEF TypeOK, Reserve
  <2>6. CASE ReserveHeld(r)
    <3>1. pc' \in [Request -> Phases]
      BY <2>6, PhaseType DEF ReserveHeld, Phases, AtRest
    <3> QED BY <2>6, <3>1 DEF TypeOK, ReserveHeld
  <2>7. CASE Reread(r)
    <3>1. pc' \in [Request -> Phases]
      BY <2>7, PhaseType DEF Reread, Phases, AtRest
    <3>2. SameDigest(r) => journal[OutpointOf[r]] \in Lease
      BY DEF SameDigest, TypeOK
    <3>3. loc' \in [Request -> Loc]
      BY <2>0, <2>7, <3>2 DEF Reread
    <3> QED BY <2>7, <3>1, <3>3 DEF TypeOK, Reread
  <2>8. CASE Sign(r)
    <3>1. pc' \in [Request -> Phases]
      BY <2>8, PhaseType DEF Sign, Phases, AtRest
    <3>2. sigs' \subseteq [req : Request, lease : Lease]
      BY <2>0, <2>8 DEF Sign, TypeOK
    <3> QED BY <2>8, <3>1, <3>2 DEF TypeOK, Sign
  <2>9. CASE SignFails(r)
    <3>1. pc' \in [Request -> Phases]
      BY <2>9, PhaseType DEF SignFails, Phases, AtRest
    <3> QED BY <2>9, <3>1 DEF TypeOK, SignFails
  <2>10. CASE Release(r)
    <3>1. pc' \in [Request -> Phases]
      BY <2>10, PhaseType DEF Release, Phases, AtRest
    <3>2. CASE SameDigest(r)
      <4>1. journal' = Del(journal, {OutpointOf[r]})
            /\ released' = released \cup {OutpointOf[r]}
        BY <2>10, <3>2 DEF Release
      <4>2. journal' \in [DOMAIN journal' -> Lease] /\ DOMAIN journal' \subseteq Outpoint
        <5> DEFINE j == Del(journal, {OutpointOf[r]})
        <5>1. journal \in [DOMAIN journal -> Lease] /\ DOMAIN journal \subseteq Outpoint
          BY DEF TypeOK
        <5>2. j \in [DOMAIN j -> Lease]
          BY <5>1, DelRowType
        <5>3. DOMAIN j = DOMAIN journal \ {OutpointOf[r]}
          BY DelRow
        <5> HIDE DEF j
        <5>4. journal' = j
          BY <4>1 DEF j
        <5> QED BY <5>1, <5>2, <5>3, <5>4
      <4>3. released' \subseteq Outpoint
        BY <4>1 DEF TypeOK, Outpoint
      <4> QED BY <2>10, <3>1, <4>2, <4>3 DEF TypeOK, Release
    <3>3. CASE ~SameDigest(r)
      BY <2>10, <3>1, <3>3 DEF TypeOK, Release
    <3> QED BY <3>2, <3>3
  <2>11. CASE WriteAfterSign(r)
    <3>1. pc' \in [Request -> Phases]
      BY <2>11, PhaseType DEF WriteAfterSign, Phases, AtRest
    <3> QED BY <2>11, <3>1 DEF TypeOK, WriteAfterSign
  <2> QED BY <1>4, <2>1, <2>2, <2>3, <2>4, <2>5, <2>6, <2>7, <2>8, <2>9, <2>10,
             <2>11 DEF Serve
<1> QED BY <1>1, <1>2, <1>3, <1>4 DEF Next

LEMMA TypeInit == Init => TypeOK
<1> SUFFICES ASSUME Init PROVE TypeOK
  OBVIOUS
<1> USE SigningAssumption
<1>1. 0 \in 0 .. MaxTime
  OBVIOUS
<1>2. loc \in [Request -> [prev : Request \cup {Zero}, at : 0 .. MaxTime, lease : Lease]]
  BY <1>1, LeaseType DEF Init
<1>3. pc \in [Request -> Phases]
  BY DEF Init, Phases, AtRest
<1>4. journal \in [DOMAIN journal -> Lease] /\ DOMAIN journal \subseteq Outpoint
  BY DEF Init, Nothing
<1> QED BY <1>1, <1>2, <1>3, <1>4 DEF Init, TypeOK

(* The tables and the requests are well formed at every moment. *)
THEOREM TypeCorrect == Spec => []TypeOK
  BY TypeInit, TypeStep, PTL DEF Spec
-----------------------------------------------------------------------------
(* Steps that write neither the journal nor the histories. *)
LEMMA Frame ==
  ASSUME LeaseInv, TypeOK', GrantsMatch', UNCHANGED <<journal, leases, released, sigs>>
  PROVE  LeaseInv'
<1>1. RowsAreLeases' /\ LeasesDisjoint' /\ SignedAsReserved'
  BY DEF LeaseInv, RowsAreLeases, LeasesDisjoint, SignedAsReserved, Disjoint
<1>2. (\A o \in Outpoint \ released : Settled(o))'
  BY DEF LeaseInv, Settled
<1> QED BY <1>1, <1>2 DEF LeaseInv

(* A request that moves to another phase than "sign" disturbs no grant. *)
LEMMA GrantsKept ==
  ASSUME LeaseInv, NEW r \in Request, NEW p \in Phases, p # "sign", Goto(r, p),
         leases \subseteq leases',
         \A q \in Request : q # r => loc'[q] = loc[q]
  PROVE  GrantsMatch'
<1>1. SUFFICES ASSUME NEW q \in Request, pc'[q] = "sign"
               PROVE  /\ loc'[q].lease \in leases'
                      /\ loc'[q].lease.out = OutpointOf[q]
                      /\ loc'[q].lease.digest = DigestOf[q]
  BY DEF GrantsMatch
<1>2. q # r /\ pc[q] = "sign"
  BY <1>1, PhaseType DEF LeaseInv
<1>3. loc'[q] = loc[q]
  BY <1>2
<1>4. /\ loc[q].lease \in leases
      /\ loc[q].lease.out = OutpointOf[q]
      /\ loc[q].lease.digest = DigestOf[q]
  BY <1>2 DEF LeaseInv, GrantsMatch
<1> QED BY <1>3, <1>4

(* A request that is granted a lease of its own outpoint and digest. *)
LEMMA GrantAdded ==
  ASSUME LeaseInv, NEW r \in Request, Goto(r, "sign"), leases \subseteq leases',
         NEW l \in leases', l.out = OutpointOf[r], l.digest = DigestOf[r],
         loc' = [loc EXCEPT ![r].lease = l]
  PROVE  GrantsMatch'
<1>1. SUFFICES ASSUME NEW q \in Request, pc'[q] = "sign"
               PROVE  /\ loc'[q].lease \in leases'
                      /\ loc'[q].lease.out = OutpointOf[q]
                      /\ loc'[q].lease.digest = DigestOf[q]
  BY DEF GrantsMatch
<1>2. loc \in [Request -> [prev : Request \cup {Zero}, at : 0 .. MaxTime, lease : Lease]]
  BY DEF LeaseInv, TypeOK
<1>3. CASE q = r
  <2>1. loc'[q].lease = l
    BY <1>2, <1>3
  <2> QED BY <1>3, <2>1
<1>4. CASE q # r
  <2>1. pc[q] = "sign"
    BY <1>1, <1>4, PhaseType DEF LeaseInv, Phases
  <2>2. loc'[q] = loc[q]
    BY <1>2, <1>4
  <2>3. /\ loc[q].lease \in leases
        /\ loc[q].lease.out = OutpointOf[q]
        /\ loc[q].lease.digest = DigestOf[q]
    BY <2>1 DEF LeaseInv, GrantsMatch
  <2> QED BY <2>2, <2>3
<1> QED BY <1>3, <1>4

(* The upsert: when the row of an outpoint may be claimed, every lease of  *)
(* the outpoint ended before the new one begins.                           *)
LEMMA ClaimEndsAll ==
  ASSUME LeaseInv, NEW r \in Request, Claimable(r), OutpointOf[r] \notin released,
         NEW k \in leases, k.out = OutpointOf[r]
  PROVE  ExpiresAt(k) <= loc[r].at
<1> DEFINE o == OutpointOf[r]
<1>1. o \in Outpoint /\ Settled(o)
  BY DEF LeaseInv, Outpoint
<1>2. o \in DOMAIN journal /\ (k = journal[o] \/ ExpiresAt(k) <= journal[o].at)
  BY <1>1 DEF Settled
<1>3. ExpiresAt(journal[o]) <= loc[r].at
  BY <1>2 DEF Claimable
<1>4. journal[o] \in Lease /\ k \in Lease /\ loc[r].at \in Nat /\ TTL \in Nat
  BY <1>2, SigningAssumption DEF LeaseInv, TypeOK
<1>5. journal[o].at \in Nat /\ k.at \in Nat
  BY <1>4 DEF Lease
<1> QED BY <1>2, <1>3, <1>4, <1>5 DEF ExpiresAt

LEMMA ReserveStep ==
  ASSUME LeaseInv, TypeOK', NEW r \in Request, Reserve(r)
  PROVE  LeaseInv'
<1> SUFFICES ASSUME NEW o, o = OutpointOf[r], NEW l, l = NewLease(r, loc[r].at),
                    NEW t, t = loc[r].at
             PROVE  LeaseInv'
  OBVIOUS
<1>1. /\ Claimable(r) /\ Goto(r, "sign")
      /\ leases' = leases \cup {l}
      /\ loc' = [loc EXCEPT ![r].lease = l]
      /\ released' = released /\ sigs' = sigs
  BY DEF Reserve
<1>2. /\ DOMAIN journal' = DOMAIN journal \cup {o}
      /\ journal'[o] = l
      /\ \A x \in DOMAIN journal : x # o => journal'[x] = journal[x]
  BY DEF Reserve, Put
<1>3. t \in 0 .. MaxTime /\ t \in Nat
  BY SigningAssumption DEF LeaseInv, TypeOK
<1>4. l.out = o /\ l.digest = DigestOf[r] /\ l.at = t
  BY <1>3, LeaseType
<1>5. RowsAreLeases'
  BY <1>1, <1>2, <1>4 DEF LeaseInv, RowsAreLeases
<1>6. \A k \in leases : k.out = o /\ o \notin released => ExpiresAt(k) <= l.at
  BY <1>1, <1>4, ClaimEndsAll
<1>7. (\A x \in Outpoint \ released : Settled(x))'
  <2>1. SUFFICES ASSUME NEW x \in Outpoint \ released, NEW k \in leases', k.out = x
                 PROVE  /\ x \in DOMAIN journal'
                        /\ k = journal'[x] \/ ExpiresAt(k) <= journal'[x].at
    BY <1>1 DEF Settled
  <2>2. CASE x = o
    BY <1>1, <1>2, <1>6, <2>1, <2>2
  <2>3. CASE x # o
    <3>1. k \in leases /\ Settled(x)
      BY <1>1, <1>4, <2>1, <2>3 DEF LeaseInv
    <3>2. x \in DOMAIN journal /\ (k = journal[x] \/ ExpiresAt(k) <= journal[x].at)
      BY <2>1, <3>1 DEF Settled
    <3> QED BY <1>2, <2>3, <3>2
  <2> QED BY <2>2, <2>3
<1>8. LeasesDisjoint'
  <2>1. SUFFICES ASSUME NEW k \in leases', NEW m \in leases', k.out = m.out,
                        k.out \notin released
                 PROVE  k = m \/ Disjoint(k, m)
    BY <1>1 DEF LeasesDisjoint, Disjoint
  <2>2. CASE k \in leases /\ m \in leases
    BY <2>1, <2>2 DEF LeaseInv, LeasesDisjoint
  <2>3. CASE k \in leases /\ m = l
    BY <1>4, <1>6, <2>1, <2>3 DEF Disjoint
  <2>4. CASE k = l /\ m \in leases
    BY <1>4, <1>6, <2>1, <2>4 DEF Disjoint
  <2> QED BY <1>1, <2>2, <2>3, <2>4
<1>9. GrantsMatch'
  BY <1>1, <1>4, GrantAdded
<1>10. SignedAsReserved'
  BY <1>1 DEF LeaseInv, SignedAsReserved
<1> QED BY <1>5, <1>7, <1>8, <1>9, <1>10 DEF LeaseInv

LEMMA ReleaseStep ==
  ASSUME LeaseInv, TypeOK', NEW r \in Request, Release(r), SameDigest(r)
  PROVE  LeaseInv'
<1> SUFFICES ASSUME NEW o, o = OutpointOf[r] PROVE LeaseInv'
  OBVIOUS
<1>1. /\ Goto(r, "refused") /\ leases' = leases /\ loc' = loc /\ sigs' = sigs
      /\ released' = released \cup {o}
  BY DEF Release
<1>2. /\ DOMAIN journal' = DOMAIN journal \ {o}
      /\ \A x \in DOMAIN journal \ {o} : journal'[x] = journal[x]
  <2>1. journal' = Del(journal, {o})
    BY DEF Release
  <2> QED BY <2>1, DelRow
<1>3. RowsAreLeases'
  BY <1>1, <1>2 DEF LeaseInv, RowsAreLeases
<1>4. (\A x \in Outpoint \ released : Settled(x))'
  <2>1. SUFFICES ASSUME NEW x \in Outpoint \ released, x # o, NEW k \in leases,
                        k.out = x
                 PROVE  /\ x \in DOMAIN journal'
                        /\ k = journal'[x] \/ ExpiresAt(k) <= journal'[x].at
    BY <1>1 DEF Settled
  <2>2. x \in DOMAIN journal /\ (k = journal[x] \/ ExpiresAt(k) <= journal[x].at)
    BY <2>1 DEF LeaseInv, Settled
  <2> QED BY <1>2, <2>1, <2>2
<1>5. LeasesDisjoint'
  BY <1>1 DEF LeaseInv, LeasesDisjoint, Disjoint
<1>6. GrantsMatch'
  BY <1>1, GrantsKept DEF Phases, AtRest
<1>7. SignedAsReserved'
  BY <1>1 DEF LeaseInv, SignedAsReserved
<1> QED BY <1>3, <1>4, <1>5, <1>6, <1>7 DEF LeaseInv

LEMMA SignStep ==
  ASSUME LeaseInv, TypeOK', NEW r \in Request, Sign(r)
  PROVE  LeaseInv'
<1> SUFFICES ASSUME NEW s, s = [req |-> r, lease |-> loc[r].lease] PROVE LeaseInv'
  OBVIOUS
<1>1. /\ pc[r] = "sign" /\ sigs' = sigs \cup {s} /\ Goto(r, "after")
      /\ UNCHANGED <<journal, loc, leases, released>>
  BY DEF Sign
<1>2. /\ s.lease \in leases /\ s.lease.out = OutpointOf[s.req]
      /\ s.lease.digest = DigestOf[s.req]
  BY <1>1 DEF LeaseInv, GrantsMatch
<1>3. SignedAsReserved'
  BY <1>1, <1>2 DEF LeaseInv, SignedAsReserved
<1>4. GrantsMatch'
  BY <1>1, GrantsKept DEF Phases, AtRest
<1>5. RowsAreLeases' /\ LeasesDisjoint'
  BY <1>1 DEF LeaseInv, RowsAreLeases, LeasesDisjoint, Disjoint
<1>6. (\A o \in Outpoint \ released : Settled(o))'
  BY <1>1 DEF LeaseInv, Settled
<1> QED BY <1>3, <1>4, <1>5, <1>6 DEF LeaseInv

(* LeaseInv is inductive. *)
LEMMA LeaseStep == LeaseInv /\ [Next]_vars => LeaseInv'
<1> SUFFICES ASSUME LeaseInv, [Next]_vars PROVE LeaseInv'
  OBVIOUS
<1>1. TypeOK'
  BY TypeStep DEF LeaseInv
<1>2. CASE UNCHANGED vars \/ TimePasses
  <2>1. GrantsMatch' /\ UNCHANGED <<journal, leases, released, sigs>>
    BY <1>2 DEF vars, TimePasses, LeaseInv, GrantsMatch
  <2> QED BY <1>1, <2>1, Frame
<1>3. CASE Crash
  <2>1. \A r \in Request : pc'[r] # "sign"
    BY <1>3 DEF Crash, AtRest
  <2>2. GrantsMatch' /\ UNCHANGED <<journal, leases, released, sigs>>
    BY <1>3, <2>1 DEF Crash, GrantsMatch
  <2> QED BY <1>1, <2>2, Frame
<1>4. ASSUME NEW r \in Request, Serve(r) PROVE LeaseInv'
  <2>1. CASE \/ Validate(r) \/ AuditFails(r) \/ ReserveHeld(r) \/ WriteAfterSign(r)
             \/ SignFails(r)
    <3>1. \E p \in Phases \ {"sign"} : Goto(r, p)
      BY <2>1 DEF Validate, AuditFails, ReserveHeld, WriteAfterSign, SignFails,
                  Phases, AtRest
    <3>2. loc' = loc /\ UNCHANGED <<journal, leases, released, sigs>>
      BY <2>1 DEF Validate, AuditFails, ReserveHeld, WriteAfterSign, SignFails
    <3>3. GrantsMatch'
      BY <3>1, <3>2, GrantsKept
    <3> QED BY <1>1, <3>2, <3>3, Frame
  <2>2. CASE ReadHead(r) \/ WriteBeforeSign(r)
    <3>1. \E p \in Phases \ {"sign"} : Goto(r, p)
      BY <2>2 DEF ReadHead, WriteBeforeSign, Phases, AtRest
    <3>2. UNCHANGED <<journal, leases, released, sigs>>
      BY <2>2 DEF ReadHead, WriteBeforeSign
    <3>3. \A q \in Request : q # r => loc'[q] = loc[q]
      BY <2>2 DEF ReadHead, WriteBeforeSign, LeaseInv, TypeOK
    <3>4. GrantsMatch'
      BY <3>1, <3>2, <3>3, GrantsKept
    <3> QED BY <1>1, <3>2, <3>4, Frame
  <2>3. CASE Reserve(r)
    BY <1>1, <2>3, ReserveStep
  <2>4. CASE Reread(r)
    <3>1. UNCHANGED <<journal, leases, released, sigs>>
      BY <2>4 DEF Reread
    <3>2. CASE SameDigest(r)
      <4>1. Goto(r, "sign") /\ loc' = [loc EXCEPT ![r].lease = journal[OutpointOf[r]]]
        BY <2>4, <3>2 DEF Reread
      <4>2. journal[OutpointOf[r]] \in leases'
            /\ journal[OutpointOf[r]].out = OutpointOf[r]
            /\ journal[OutpointOf[r]].digest = DigestOf[r]
        BY <3>1, <3>2 DEF SameDigest, LeaseInv, RowsAreLeases
      <4>3. GrantsMatch'
        BY <3>1, <4>1, <4>2, GrantAdded
      <4> QED BY <1>1, <3>1, <4>3, Frame
    <3>3. CASE ~SameDigest(r)
      <4>1. Goto(r, "refused") /\ loc' = loc
        BY <2>4, <3>3 DEF Reread
      <4>2. GrantsMatch'
        BY <3>1, <4>1, GrantsKept DEF Phases, AtRest
      <4> QED BY <1>1, <3>1, <4>2, Frame
    <3> QED BY <3>2, <3>3
  <2>5. CASE Sign(r)
    BY <1>1, <2>5, SignStep
  <2>6. CASE Release(r)
    <3>1. CASE SameDigest(r)
      BY <1>1, <2>6, <3>1, ReleaseStep
    <3>2. CASE ~SameDigest(r)
      <4>1. Goto(r, "refused") /\ loc' = loc
            /\ UNCHANGED <<journal, leases, released, sigs>>
        BY <2>6, <3>2 DEF Release
      <4>2. GrantsMatch'
        BY <4>1, GrantsKept DEF Phases, AtRest
      <4> QED BY <1>1, <4>1, <4>2, Frame
    <3> QED BY <3>1, <3>2
  <2> QED BY <1>4, <2>1, <2>2, <2>3, <2>4, <2>5, <2>6 DEF Serve
<1> QED BY <1>2, <1>3, <1>4 DEF Next

LEMMA LeaseInit == Init => LeaseInv
<1> SUFFICES ASSUME Init PROVE LeaseInv
  OBVIOUS
<1>1. RowsAreLeases /\ LeasesDisjoint /\ GrantsMatch /\ SignedAsReserved
  BY DEF Init, Nothing, RowsAreLeases, LeasesDisjoint, GrantsMatch, SignedAsReserved
<1>2. \A o \in Outpoint \ released : Settled(o)
  BY DEF Init, Settled
<1> QED BY <1>1, <1>2, TypeInit DEF LeaseInv

(* LeaseInv holds at every moment. *)
THEOREM LeaseInvariant == Spec => []LeaseInv
  BY LeaseInit, LeaseStep, PTL DEF Spec

(* Rival successors are only signed under leases that do not overlap, or   *)
(* after a release: the upsert is exclusive.                               *)
THEOREM Exclusive == Spec => []LeaseExclusive
<1>1. LeaseInv => LeaseExclusive
  BY DEF LeaseInv, LeasesDisjoint, SignedAsReserved, LeaseExclusive
<1> QED BY <1>1, LeaseInvariant, PTL

-----------------------------------------------------------------------------
(* The audit record comes first: a request that got past writeBeforeSign   *)
(* has its record in the table.                                            *)
PastAudit == {"reserve", "reread", "sign"}

AuditInv ==
  /\ TypeOK
  /\ AuditedBeforeSigned
  /\ \A r \in Request : pc[r] \in PastAudit => Audited(r)

(* Records are never removed. *)
LEMMA AuditGrows ==
  ASSUME TypeOK, NEW r \in Request, WriteBeforeSign(r)
  PROVE  Audited(r)' /\ \A q : Audited(q) => Audited(q)'
<1>1. audit \in Seq(Record)
  BY DEF TypeOK
<1>2. PICK x : audit' = Append(audit, x) /\ x.req = r
  BY DEF WriteBeforeSign, RecordOf
<1>3. /\ DOMAIN audit' = 1 .. Len(audit) + 1
      /\ audit'[Len(audit) + 1] = x
      /\ \A i \in DOMAIN audit : i \in DOMAIN audit' /\ audit'[i] = audit[i]
  BY <1>1, <1>2
<1>4. Len(audit) + 1 \in DOMAIN audit'
  BY <1>1, <1>3
<1> QED BY <1>2, <1>3, <1>4 DEF Audited

LEMMA AuditStep == AuditInv /\ [Next]_vars => AuditInv'
<1> SUFFICES ASSUME AuditInv, [Next]_vars PROVE AuditInv'
  OBVIOUS
<1>1. TypeOK /\ TypeOK' /\ pc \in [Request -> Phases]
  BY TypeStep DEF AuditInv, TypeOK
<1>2. CASE UNCHANGED vars \/ TimePasses \/ Crash
  <2>1. UNCHANGED <<audit, sigs, leases>>
        /\ \A r \in Request : pc'[r] \in PastAudit => pc[r] \in PastAudit
    BY <1>1, <1>2 DEF vars, TimePasses, Crash, AtRest, PastAudit
  <2> QED BY <1>1, <2>1 DEF AuditInv, AuditedBeforeSigned, Audited
<1>3. ASSUME NEW r \in Request, WriteBeforeSign(r) PROVE AuditInv'
  <2>1. UNCHANGED <<sigs, leases>>
        /\ \A q \in Request : q # r /\ pc'[q] \in PastAudit => pc[q] \in PastAudit
    BY <1>1, <1>3 DEF WriteBeforeSign, Goto
  <2>2. Audited(r)' /\ \A q : Audited(q) => Audited(q)'
    BY <1>1, <1>3, AuditGrows
  <2>3. AuditedBeforeSigned'
    BY <2>1, <2>2 DEF AuditInv, AuditedBeforeSigned
  <2>4. \A q \in Request : pc'[q] \in PastAudit => Audited(q)'
    BY <2>1, <2>2 DEF AuditInv
  <2> QED BY <1>1, <2>3, <2>4 DEF AuditInv
<1>4. ASSUME NEW r \in Request, Reserve(r) \/ Sign(r) PROVE AuditInv'
  <2>1. audit' = audit /\ pc[r] \in PastAudit
        /\ \A q \in Request : q # r /\ pc'[q] \in PastAudit => pc[q] \in PastAudit
    BY <1>1, <1>4 DEF Reserve, Sign, Goto, PastAudit
  <2>2. \A q : Audited(q)' = Audited(q)
    BY <2>1 DEF Audited
  <2>3. Audited(r)
    BY <2>1 DEF AuditInv
  <2>4. loc[r].at \in 0 .. MaxTime
    BY <1>1 DEF TypeOK
  <2>5. NewLease(r, loc[r].at).by = r
    BY <2>4, LeaseType
  <2>6. \A l \in leases' : l \in leases \/ l.by = r
    BY <1>4, <2>5 DEF Reserve, Sign
  <2>7. \A s \in sigs' : s \in sigs \/ s.req = r
    BY <1>4 DEF Reserve, Sign
  <2>8. AuditedBeforeSigned'
    BY <2>2, <2>3, <2>6, <2>7 DEF AuditInv, AuditedBeforeSigned
  <2> QED BY <1>1, <2>1, <2>2, <2>3, <2>8 DEF AuditInv
<1>5. ASSUME NEW r \in Request,
             \/ Validate(r) \/ ReadHead(r) \/ AuditFails(r) \/ ReserveHeld(r)
             \/ Reread(r) \/ SignFails(r) \/ Release(r) \/ WriteAfterSign(r)
      PROVE  AuditInv'
  <2>1. UNCHANGED <<audit, sigs, leases>>
        /\ \A q \in Request : pc'[q] \in PastAudit => pc[q] \in PastAudit
    BY <1>1, <1>5 DEF Validate, ReadHead, AuditFails, ReserveHeld, Reread, SignFails,
                      Release, WriteAfterSign, Goto, PastAudit
  <2> QED BY <1>1, <2>1 DEF AuditInv, AuditedBeforeSigned, Audited
<1> QED BY <1>2, <1>3, <1>4, <1>5 DEF Next, Serve

(* No signature and no reservation exists without a durable audit record   *)
(* of its request, whatever fails and whenever the process dies.           *)
THEOREM DurableAuditFirst == Spec => []AuditedBeforeSigned
<1>1. Init => AuditInv
  BY TypeInit DEF Init, AuditInv, AuditedBeforeSigned, PastAudit
<1>2. AuditInv => AuditedBeforeSigned
  BY DEF AuditInv
<1> QED BY <1>1, <1>2, AuditStep, PTL DEF Spec
-----------------------------------------------------------------------------
(* The audit records as a tree: a request that has not written its record  *)
(* is in no record, and the hash it read is that of a record or Zero.      *)
BeforeAudit == {"new", "head", "insert"}

AnchorInv ==
  /\ TypeOK
  /\ AuditAnchored
  /\ \A r \in Request : pc[r] \in BeforeAudit => ~Audited(r)
  /\ \A r \in Request : pc[r] = "insert" =>
       loc[r].prev = Zero \/ Audited(loc[r].prev)
  /\ \A r \in Request : pc[r] = "insert" =>
       \A i \in DOMAIN audit : audit[i].prev = loc[r].prev => r \in audit[i].racing

(* The newest record's hash is that of a record, or Zero. *)
LEMMA HeadAudited == TypeOK => HeadHash = Zero \/ Audited(HeadHash)
<1> SUFFICES ASSUME TypeOK, audit # <<>> PROVE Audited(HeadHash)
  BY DEF HeadHash
<1>1. Len(audit) \in DOMAIN audit
  BY DEF TypeOK
<1> QED BY <1>1 DEF HeadHash, Audited

(* No record chains from the newest one. *)
LEMMA HeadUnused ==
  ASSUME TypeOK, AuditAnchored, NEW i \in DOMAIN audit
  PROVE  audit[i].prev # HeadHash
<1> SUFFICES ASSUME NEW n, n = Len(audit), audit[i].prev = HeadHash PROVE FALSE
  OBVIOUS
<1>1. audit \in Seq(Record) /\ n \in Nat /\ DOMAIN audit = 1 .. n /\ audit # <<>>
  BY DEF TypeOK
<1>2. n \in DOMAIN audit /\ audit[n] \in Record
  BY <1>1
<1>3. HeadHash = audit[n].req /\ audit[n].req # Zero
  BY <1>1, <1>2, SigningAssumption DEF HeadHash, Record
<1>4. PICK j \in 1 .. i - 1 : audit[j].req = audit[n].req
  BY <1>3 DEF AuditAnchored
<1>5. j \in DOMAIN audit /\ j # n
  BY <1>1, <1>4
<1> QED BY <1>2, <1>4, <1>5 DEF AuditAnchored

(* Appending the record of a request that has none keeps the tree. *)
LEMMA AnchoredWrite ==
  ASSUME AnchorInv, TypeOK', NEW r \in Request, WriteBeforeSign(r)
  PROVE  AnchorInv'
<1> SUFFICES ASSUME NEW x, x = RecordOf(r),
                    NEW n, n = Len(audit) + 1
             PROVE  AnchorInv'
  OBVIOUS
<1>1. audit \in Seq(Record) /\ pc \in [Request -> Phases] /\ Len(audit) \in Nat
  BY DEF AnchorInv, TypeOK
<1>2. audit' = Append(audit, x) /\ pc[r] = "insert" /\ Goto(r, "reserve")
  BY DEF WriteBeforeSign
<1>3. /\ DOMAIN audit' = 1 .. n /\ DOMAIN audit = 1 .. n - 1 /\ n \in Nat
      /\ audit'[n] = x /\ x.req = r /\ x.prev = loc[r].prev
      /\ x.racing = {q \in Request \ {r} : pc[q] = "insert"}
      /\ \A i \in 1 .. n - 1 : audit'[i] = audit[i]
  BY <1>1, <1>2 DEF RecordOf
<1>4. ~Audited(r) /\ (loc[r].prev = Zero \/ Audited(loc[r].prev))
  BY <1>2 DEF AnchorInv, BeforeAudit
<1>5. \A i \in 1 .. n - 1 : audit[i].req # r
  BY <1>3, <1>4 DEF Audited
<1>6. AuditAnchored'
  <2>1. SUFFICES ASSUME NEW i \in 1 .. n
        PROVE  /\ audit'[i].prev # Zero =>
                    \E j \in 1 .. i - 1 : audit'[j].req = audit'[i].prev
               /\ \A j \in 1 .. n : audit'[j].req = audit'[i].req => i = j
               /\ \A j \in 1 .. i - 1 :
                    audit'[j].prev = audit'[i].prev => audit'[i].req \in audit'[j].racing
    BY <1>3 DEF AuditAnchored
  <2>2. CASE i = n
    <3>1. \A j \in 1 .. n - 1 : audit[j].prev = loc[r].prev => r \in audit[j].racing
      BY <1>2, <1>3 DEF AnchorInv
    <3>2. \A j \in 1 .. i - 1 :
            audit'[j].prev = audit'[i].prev => audit'[i].req \in audit'[j].racing
      BY <1>3, <2>2, <3>1
    <3> QED BY <1>3, <1>4, <1>5, <2>2, <3>2 DEF Audited
  <2>3. CASE i \in 1 .. n - 1
    <3>1. audit[i].prev # Zero => \E j \in 1 .. i - 1 : audit[j].req = audit[i].prev
      BY <1>3, <2>3 DEF AnchorInv, AuditAnchored
    <3>2. \A j \in 1 .. n - 1 : audit[j].req = audit[i].req => i = j
      BY <1>3, <2>3 DEF AnchorInv, AuditAnchored
    <3>3. 1 .. i - 1 \subseteq 1 .. n - 1
      BY <1>3
    <3>5. \A j \in 1 .. i - 1 :
            audit[j].prev = audit[i].prev => audit[i].req \in audit[j].racing
      BY <1>3, <2>3 DEF AnchorInv, AuditAnchored
    <3>4. \A j \in 1 .. n : j = n \/ j \in 1 .. n - 1
      BY <1>3
    <3> QED BY <1>3, <1>5, <2>3, <3>1, <3>2, <3>3, <3>4, <3>5
  <2> QED BY <1>3, <2>2, <2>3
<1>7. \A q : Audited(q)' <=> Audited(q) \/ q = r
  BY <1>3 DEF Audited
<1>8. \A q \in Request : q # r => pc'[q] = pc[q] /\ loc'[q] = loc[q]
  BY <1>1, <1>2 DEF WriteBeforeSign, Goto, AnchorInv, TypeOK
<1>9. pc'[r] = "reserve"
  BY <1>1, <1>2 DEF Goto
<1>10. \A q \in Request : pc'[q] \in BeforeAudit => ~Audited(q)'
  BY <1>7, <1>8, <1>9 DEF AnchorInv, BeforeAudit
<1>11. \A q \in Request :
         pc'[q] = "insert" => loc'[q].prev = Zero \/ Audited(loc[q].prev)'
  <2> SUFFICES ASSUME NEW q \in Request, pc'[q] = "insert", loc'[q].prev # Zero
               PROVE  Audited(loc[q].prev)'
    OBVIOUS
  <2>1. q # r /\ loc'[q] = loc[q] /\ pc[q] = "insert"
    BY <1>8, <1>9
  <2>2. PICK i \in 1 .. n - 1 : audit[i].req = loc[q].prev
    BY <1>3, <2>1 DEF AnchorInv, Audited
  <2>3. i \in DOMAIN audit' /\ audit'[i].req = loc'[q].prev
    BY <1>3, <2>1, <2>2
  <2> QED BY <2>3 DEF Audited
<1>12. \A q \in Request : pc'[q] = "insert" =>
         \A i \in DOMAIN audit' :
           audit'[i].prev = loc'[q].prev => q \in audit'[i].racing
  <2> SUFFICES ASSUME NEW q \in Request, pc'[q] = "insert", NEW i \in 1 .. n,
                      audit'[i].prev = loc'[q].prev
               PROVE  q \in audit'[i].racing
    BY <1>3
  <2>1. q # r /\ loc'[q] = loc[q] /\ pc[q] = "insert"
    BY <1>8, <1>9
  <2>2. CASE i = n
    BY <1>3, <2>1, <2>2
  <2>3. CASE i \in 1 .. n - 1
    BY <1>3, <2>1, <2>3 DEF AnchorInv
  <2> QED BY <1>3, <2>2, <2>3
<1> QED BY <1>6, <1>10, <1>11, <1>12 DEF AnchorInv

LEMMA AnchorStep == AnchorInv /\ [Next]_vars => AnchorInv'
<1> SUFFICES ASSUME AnchorInv, [Next]_vars PROVE AnchorInv'
  OBVIOUS
<1>1. /\ TypeOK /\ TypeOK' /\ pc \in [Request -> Phases]
      /\ loc \in [Request -> [prev : Request \cup {Zero}, at : 0 .. MaxTime,
                              lease : Lease]]
  BY TypeStep DEF AnchorInv, TypeOK
<1>2. ASSUME audit' = audit,
             \A q \in Request : pc'[q] \in BeforeAudit => pc[q] \in BeforeAudit,
             \A q \in Request : pc'[q] = "insert" =>
               \/ pc[q] = "insert" /\ loc'[q].prev = loc[q].prev
               \/ loc'[q].prev = HeadHash
      PROVE  AnchorInv'
  <2>1. \A q : Audited(q)' = Audited(q)
    BY <1>2 DEF Audited
  <2>2. AuditAnchored'
    BY <1>2 DEF AnchorInv, AuditAnchored
  <2>3. \A q \in Request :
          pc'[q] = "insert" => loc'[q].prev = Zero \/ Audited(loc'[q].prev)
    BY <1>1, <1>2, HeadAudited DEF AnchorInv
  <2>4. \A q \in Request : pc'[q] = "insert" =>
          \A i \in DOMAIN audit' :
            audit'[i].prev = loc'[q].prev => q \in audit'[i].racing
    <3> SUFFICES ASSUME NEW q \in Request, pc'[q] = "insert", NEW i \in DOMAIN audit,
                        audit[i].prev = loc'[q].prev
                 PROVE  q \in audit[i].racing
      BY <1>2
    <3>1. audit[i].prev # HeadHash
      BY <1>1, HeadUnused DEF AnchorInv
    <3> QED BY <1>2, <3>1 DEF AnchorInv
  <2> QED BY <1>1, <1>2, <2>1, <2>2, <2>3, <2>4 DEF AnchorInv, Audited
<1>3. CASE UNCHANGED vars \/ TimePasses \/ Crash
  <2>1. audit' = audit /\ loc' = loc
        /\ \A q \in Request : pc'[q] \in BeforeAudit => pc[q] = pc'[q]
    BY <1>1, <1>3 DEF vars, TimePasses, Crash, AtRest, BeforeAudit
  <2> QED BY <1>2, <2>1 DEF BeforeAudit
<1>4. ASSUME NEW r \in Request, WriteBeforeSign(r) PROVE AnchorInv'
  BY <1>1, <1>4, AnchoredWrite
<1>5. ASSUME NEW r \in Request, Validate(r) \/ ReadHead(r) PROVE AnchorInv'
  <2>1. /\ audit' = audit /\ pc[r] \in BeforeAudit
        /\ \A q \in Request : q # r => pc'[q] = pc[q] /\ loc'[q] = loc[q]
        /\ pc'[r] = "insert" => loc'[r].prev = HeadHash
    BY <1>1, <1>5 DEF Validate, ReadHead, Goto, BeforeAudit
  <2> QED BY <1>2, <2>1
<1>6. ASSUME NEW r \in Request,
             \/ AuditFails(r) \/ Reserve(r) \/ ReserveHeld(r) \/ Reread(r) \/ Sign(r)
             \/ SignFails(r) \/ Release(r) \/ WriteAfterSign(r)
      PROVE  AnchorInv'
  <2>1. audit' = audit
    BY <1>6 DEF AuditFails, Reserve, ReserveHeld, Reread, Sign, SignFails, Release,
                WriteAfterSign
  <2>2. pc'[r] \notin BeforeAudit /\ \A q \in Request : q # r => pc'[q] = pc[q]
    BY <1>1, <1>6 DEF AuditFails, Reserve, ReserveHeld, Reread, Sign, SignFails,
                      Release, WriteAfterSign, Goto, BeforeAudit
  <2>3. \A q \in Request : q # r => loc'[q] = loc[q]
    BY <1>1, <1>6 DEF AuditFails, Reserve, ReserveHeld, Reread, Sign, SignFails,
                      Release, WriteAfterSign
  <2> QED BY <1>2, <2>1, <2>2, <2>3 DEF BeforeAudit
<1> QED BY <1>3, <1>4, <1>5, <1>6 DEF Next, Serve

(* However requests interleave, fail and die, the audit table is a tree of *)
(* hashes: no record hangs from one that is not there, no request leaves   *)
(* two, and it forks only at requests that raced for the head.             *)
THEOREM AuditIsAnchored == Spec => []AuditAnchored
<1>1. Init => AnchorInv
  BY TypeInit DEF Init, AnchorInv, AuditAnchored, Audited
<1>2. AnchorInv => AuditAnchored
  BY DEF AnchorInv
<1> QED BY <1>1, <1>2, AnchorStep, PTL DEF Spec

-----------------------------------------------------------------------------
(* The coins of a build (Funding, as SafeFunding has it).                  *)

Refusals == {"MINER_FEE_TOO_LOW", "MINER_FEE_TOO_HIGH", "INSUFFICIENT_BTC"}
Looked == {"rates", "assets", "guardian", "accepted"}
Picked == {"assets", "guardian", "accepted"}
Conflicts == {"FUNDING_UNCONFIRMED", "FUNDING_HOLDS_TOKEN", "FUNDING_INPUT_SPENT"}

(* A build q knows the coins it was offered, while nothing moves as they   *)
(* are: confirmed, unspent, and once it has looked no carriers.  What it   *)
(* picked is among those it may use, and was asked about coin by coin.     *)
IsBuild(q) ==
  q = [phase |-> q.phase, r |-> q.r, offered |-> q.offered, resolved |-> q.resolved,
       confirmed |-> q.confirmed, rates |-> q.rates, skipped |-> q.skipped, clean |-> q.clean,
       pick |-> q.pick, since |-> q.since, ords |-> q.ords]
Usable(q) == (IF F!vaultOp(q.r.op) THEN q.confirmed ELSE q.resolved) \ q.skipped
Names(service, q) == IF service \in q.ords THEN Asset ELSE {}
Blind(q) == q.offered \cap Names("guardian", q) # {} /\ Names("app", q) = {}
Seen(q, cf, un, ix) ==
  /\ q.confirmed \subseteq cf /\ q.resolved \subseteq un
  /\ q.phase \in Looked => q.offered \cap ix = {}
  /\ q.phase = "refused" =>
       \/ q.pick.code \notin Conflicts
       \/ q.pick.code = "FUNDING_INPUT_SPENT" /\ q.offered \ un # {}
       \/ q.pick.code = "FUNDING_HOLDS_TOKEN" /\ Blind(q)
Build(q) ==
  /\ IsBuild(q) /\ q.confirmed \subseteq q.resolved /\ q.resolved \subseteq q.offered
  /\ q.phase \in {"resolve", "rates"} => q.clean = {}
  /\ q.phase \in Looked => q.resolved = q.offered
  /\ q.phase \in Picked => q.pick.chosen \subseteq Usable(q) /\ q.clean \subseteq q.pick.chosen
  /\ q.phase = "assets" => q.clean \cap Names("app", q) = {}
  /\ q.phase = "guardian" => F!vaultOp(q.r.op) /\ q.clean \cap Names("guardian", q) = {}
  /\ q.phase \in {"guardian", "accepted"} => q.pick.chosen \cap Names("app", q) = {}
  /\ q.phase = "accepted" /\ F!vaultOp(q.r.op) =>
       q.clean = q.pick.chosen /\ q.pick.chosen \cap Names("guardian", q) = {}
BuildInv(q, cf, un, ix, mv) ==
  /\ q.phase \in {"idle", "resolve", "refused"} \cup Looked
  /\ q.phase # "idle" =>
       /\ Build(q) /\ q.since \in Nat /\ q.since <= mv
       /\ mv = q.since => Seen(q, cf, un, ix)
FundInv ==
  /\ conf \subseteq Coin /\ unspent \subseteq Coin /\ indexed \subseteq Carrier /\ moves \in Nat
  /\ BuildInv(req, conf, unspent, indexed, moves)

(* A fee that is refused says why.                                         *)
LEMMA FeeIs ==
  ASSUME NEW r, NEW rates, NEW k, NEW p, p = F!priceAt(r, rates, k), ~p.ok
  PROVE  p.code \in Refusals
<1>1. PICK v : v = F!estimateOperationVsize(r, k)
  OBVIOUS
<1>2. p = F!resolveMinerFee(r, rates, v)
  BY <1>1 DEF F!priceAt
<1>3. \/ p = [ok |-> FALSE, code |-> "MINER_FEE_TOO_LOW"]
      \/ p = [ok |-> FALSE, code |-> "MINER_FEE_TOO_HIGH"]
      \/ \E fee : p = [ok |-> TRUE, fee |-> fee]
  BY <1>2, Zenon DEF F!resolveMinerFee
<1>4. CASE \E fee : p = [ok |-> TRUE, fee |-> fee]
  <2>1. PICK fee : p = [ok |-> TRUE, fee |-> fee]
    BY <1>4
  <2>2. p.ok = TRUE
    BY <2>1
  <2> QED BY <2>2, Zenon
<1>5. CASE ~(\E fee : p = [ok |-> TRUE, fee |-> fee])
  BY <1>3, <1>5 DEF Refusals
<1> QED BY <1>4, <1>5

(* A pick is of the coins it was given, or says why there is none.         *)
LEMMA PickIs ==
  ASSUME NEW r, NEW rates, NEW S, NEW p, p = F!pick(r, rates, S)
  PROVE  (p.ok => p.chosen \subseteq S) /\ (~p.ok => p.code \in Refusals)
<1>1. \/ \E k : ~F!priceAt(r, rates, k).ok /\ p = [ok |-> FALSE, code |-> F!priceAt(r, rates, k).code]
      \/ p = [ok |-> FALSE, code |-> "INSUFFICIENT_BTC"]
      \/ \E C, fee : C = {} /\ p = [ok |-> TRUE, chosen |-> C, fee |-> fee]
      \/ \E k, fee : p = [ok |-> TRUE, chosen |-> F!largestFirst(S, k), fee |-> fee]
  BY Zenon DEF F!pick
<1>2. CASE \E k : ~F!priceAt(r, rates, k).ok /\ p = [ok |-> FALSE, code |-> F!priceAt(r, rates, k).code]
  <2>1. PICK k : ~F!priceAt(r, rates, k).ok /\ p = [ok |-> FALSE, code |-> F!priceAt(r, rates, k).code]
    BY <1>2
  <2>2. PICK a : a = F!priceAt(r, rates, k)
    OBVIOUS
  <2>3. ~a.ok
    BY <2>1, <2>2, Zenon
  <2>4. a.code \in Refusals
    BY <2>2, <2>3, FeeIs
  <2>5. PICK c : c = a.code
    OBVIOUS
  <2>6. p = [ok |-> FALSE, code |-> c]
    BY <2>1, <2>2, <2>5
  <2>7. p.ok = FALSE /\ p.code = c
    BY <2>6
  <2> QED BY <2>4, <2>5, <2>7, Zenon
<1>3. CASE p = [ok |-> FALSE, code |-> "INSUFFICIENT_BTC"]
  BY <1>3 DEF Refusals
<1>4. ASSUME NEW C, NEW fee, C \subseteq S, p = [ok |-> TRUE, chosen |-> C, fee |-> fee]
      PROVE  (p.ok => p.chosen \subseteq S) /\ (~p.ok => p.code \in Refusals)
  <2>1. p.ok = TRUE /\ p.chosen = C
    BY <1>4
  <2> QED BY <1>4, <2>1, Zenon
<1>5. CASE \E C, fee : C = {} /\ p = [ok |-> TRUE, chosen |-> C, fee |-> fee]
  BY <1>4, <1>5
<1>6. CASE \E k, fee : p = [ok |-> TRUE, chosen |-> F!largestFirst(S, k), fee |-> fee]
  <2>1. \A k : F!largestFirst(S, k) \subseteq S
    BY DEF F!largestFirst
  <2> QED BY <1>4, <1>6, <2>1
<1> QED BY <1>1, <1>2, <1>3, <1>5, <1>6

(* A build that is refused knows why: while nothing moves it is no         *)
(* conflict with the Guardian, or a coin it was offered is spent.          *)
LEMMA RefusedKept ==
  ASSUME NEW q, NEW cf, NEW un, NEW ix, NEW mv \in Nat, BuildInv(q, cf, un, ix, mv), q.phase # "idle",
         NEW p, NEW q2, q2 = [q EXCEPT !.phase = "refused", !.pick = p],
         mv = q.since => \/ p.code \notin Conflicts
                         \/ p.code = "FUNDING_INPUT_SPENT" /\ q.offered \ un # {}
                         \/ p.code = "FUNDING_HOLDS_TOKEN" /\ Blind(q)
  PROVE  BuildInv(q2, cf, un, ix, mv)
<1>1. Build(q) /\ q.since \in Nat /\ q.since <= mv /\ (mv = q.since => Seen(q, cf, un, ix))
  BY DEF BuildInv
<1>2. IsBuild(q)
  BY <1>1 DEF Build
<1>3. PICK ph : ph = "refused"
  OBVIOUS
<1>4. q2 = [q EXCEPT !.phase = ph, !.pick = p]
  BY <1>3
<1>6. /\ IsBuild(q2) /\ q2.phase = ph /\ q2.offered = q.offered /\ q2.resolved = q.resolved
      /\ q2.confirmed = q.confirmed /\ q2.pick = p /\ q2.since = q.since /\ q2.ords = q.ords
  BY <1>2, <1>4 DEF IsBuild
<1>7. Build(q2)
  BY <1>1, <1>3, <1>6 DEF Build, Looked, Picked
<1>8. mv = q2.since => Seen(q2, cf, un, ix)
  BY <1>1, <1>3, <1>6 DEF Seen, Looked, Blind, Names
<1> QED BY <1>1, <1>3, <1>6, <1>7, <1>8 DEF BuildInv

(* A coin that resolves is unspent now, and confirmed now if it says so.   *)
LEMMA ResolvedKept ==
  ASSUME NEW q, NEW cf, NEW un, NEW ix, NEW mv \in Nat, BuildInv(q, cf, un, ix, mv), q.phase = "resolve",
         NEW c, c \in q.offered, c \in un, NEW cn,
         cn = IF c \in cf THEN q.confirmed \cup {c} ELSE q.confirmed,
         NEW q2, q2 = [q EXCEPT !.resolved = q.resolved \cup {c}, !.confirmed = cn]
  PROVE  BuildInv(q2, cf, un, ix, mv)
<1>1. Build(q) /\ q.since \in Nat /\ q.since <= mv /\ (mv = q.since => Seen(q, cf, un, ix))
  BY DEF BuildInv
<1>2. IsBuild(q)
  BY <1>1 DEF Build
<1>3. PICK rs : rs = q.resolved \cup {c}
  OBVIOUS
<1>4. q2 = [q EXCEPT !.resolved = rs, !.confirmed = cn]
  BY <1>3
<1>6. /\ IsBuild(q2) /\ q2.phase = q.phase /\ q2.offered = q.offered /\ q2.resolved = rs
      /\ q2.confirmed = cn /\ q2.clean = q.clean /\ q2.pick = q.pick /\ q2.since = q.since
  BY <1>2, <1>4 DEF IsBuild
<1>7. Build(q2)
  BY <1>1, <1>3, <1>6 DEF Build, Looked, Picked
<1>8. mv = q2.since => Seen(q2, cf, un, ix)
  BY <1>1, <1>3, <1>6 DEF Seen, Looked
<1> QED BY <1>1, <1>6, <1>7, <1>8 DEF BuildInv

(* Where the app saw no carrier among the coins, there is none now.        *)
LEMMA LookedKept ==
  ASSUME NEW q, NEW cf, NEW un, NEW ix, NEW mv \in Nat, BuildInv(q, cf, un, ix, mv), q.phase = "resolve",
         q.resolved = q.offered, q.offered \cap ix = {}, NEW q2, q2 = [q EXCEPT !.phase = "rates"]
  PROVE  BuildInv(q2, cf, un, ix, mv)
<1>1. Build(q) /\ q.since \in Nat /\ q.since <= mv /\ (mv = q.since => Seen(q, cf, un, ix))
  BY DEF BuildInv
<1>2. IsBuild(q)
  BY <1>1 DEF Build
<1>3. PICK ph : ph = "rates"
  OBVIOUS
<1>4. q2 = [q EXCEPT !.phase = ph, !.clean = q.clean]
  BY <1>2, <1>3 DEF IsBuild
<1>6. /\ IsBuild(q2) /\ q2.phase = ph /\ q2.offered = q.offered /\ q2.resolved = q.resolved
      /\ q2.confirmed = q.confirmed /\ q2.clean = q.clean /\ q2.pick = q.pick /\ q2.since = q.since
  BY <1>2, <1>4 DEF IsBuild
<1>7. Build(q2)
  BY <1>1, <1>3, <1>6 DEF Build, Looked, Picked
<1>8. mv = q2.since => Seen(q2, cf, un, ix)
  BY <1>1, <1>3, <1>6 DEF Seen, Looked
<1> QED BY <1>1, <1>3, <1>6, <1>7, <1>8 DEF BuildInv, Looked

(* A first pick is of the coins the build may use.                         *)
LEMMA RatesKept ==
  ASSUME NEW q, NEW cf, NEW un, NEW ix, NEW mv \in Nat, BuildInv(q, cf, un, ix, mv), q.phase = "rates",
         NEW rt, NEW p, p = F!pick(q.r, rt, Usable(q)), NEW ph,
         ph = IF p.ok THEN "assets" ELSE "refused",
         NEW q2, q2 = [q EXCEPT !.rates = rt, !.pick = p, !.phase = ph]
  PROVE  BuildInv(q2, cf, un, ix, mv)
<1>1. Build(q) /\ q.since \in Nat /\ q.since <= mv /\ (mv = q.since => Seen(q, cf, un, ix))
  BY DEF BuildInv
<1>2. IsBuild(q)
  BY <1>1 DEF Build
<1>3. PICK S : S = Usable(q)
  OBVIOUS
<1>4. (p.ok => p.chosen \subseteq S) /\ (~p.ok => p.code \in Refusals)
  <2>1. PICK r : r = q.r
    OBVIOUS
  <2>2. p = F!pick(r, rt, S)
    BY <1>3, <2>1
  <2> QED BY <2>2, PickIs
<1>6. /\ IsBuild(q2) /\ q2.phase = ph /\ q2.r = q.r /\ q2.offered = q.offered /\ q2.resolved = q.resolved
      /\ q2.confirmed = q.confirmed /\ q2.skipped = q.skipped /\ q2.clean = q.clean
      /\ q2.pick = p /\ q2.since = q.since
  BY <1>2 DEF IsBuild
<1>7. Usable(q2) = S
  BY <1>3, <1>6 DEF Usable
<1>8. (ph = "assets" => p.chosen \subseteq S) /\ (ph = "refused" => p.code \in Refusals)
      /\ ph \in {"assets", "refused"}
  BY <1>4, Zenon
<1>9. Build(q2)
  BY <1>1, <1>6, <1>7, <1>8 DEF Build, Looked, Picked
<1>10. mv = q2.since => Seen(q2, cf, un, ix)
  BY <1>1, <1>6, <1>8 DEF Seen, Looked, Refusals, Conflicts
<1> QED BY <1>1, <1>6, <1>8, <1>9, <1>10 DEF BuildInv, Looked

(* A coin with assets is left out of every later pick.                     *)
LEMMA SkippedKept ==
  ASSUME NEW q, NEW cf, NEW un, NEW ix, NEW mv \in Nat, BuildInv(q, cf, un, ix, mv), q.phase = "assets",
         NEW c, NEW p, p = F!pick(q.r, q.rates, Usable(q) \ {c}), NEW ph,
         ph = IF p.ok THEN "assets" ELSE "refused",
         NEW q2, q2 = [q EXCEPT !.skipped = q.skipped \cup {c}, !.clean = {}, !.pick = p, !.phase = ph]
  PROVE  BuildInv(q2, cf, un, ix, mv)
<1>1. Build(q) /\ q.since \in Nat /\ q.since <= mv /\ (mv = q.since => Seen(q, cf, un, ix))
  BY DEF BuildInv
<1>2. IsBuild(q)
  BY <1>1 DEF Build
<1>3. PICK S : S = Usable(q) \ {c}
  OBVIOUS
<1>4. (p.ok => p.chosen \subseteq S) /\ (~p.ok => p.code \in Refusals)
  <2>1. PICK r, rt : r = q.r /\ rt = q.rates
    OBVIOUS
  <2>2. p = F!pick(r, rt, S)
    BY <1>3, <2>1
  <2> QED BY <2>2, PickIs
<1>5. PICK sk, cl : sk = q.skipped \cup {c} /\ cl = {}
  OBVIOUS
<1>6. q2 = [q EXCEPT !.skipped = sk, !.clean = cl, !.pick = p, !.phase = ph]
  BY <1>5
<1>8. /\ IsBuild(q2) /\ q2.phase = ph /\ q2.r = q.r /\ q2.offered = q.offered /\ q2.resolved = q.resolved
      /\ q2.confirmed = q.confirmed /\ q2.skipped = sk /\ q2.clean = cl
      /\ q2.pick = p /\ q2.since = q.since /\ q2.ords = q.ords
  BY <1>2, <1>6 DEF IsBuild
<1>9. Usable(q2) = S
  BY <1>3, <1>5, <1>8 DEF Usable
<1>10. (ph = "assets" => p.chosen \subseteq S) /\ (ph = "refused" => p.code \in Refusals)
      /\ ph \in {"assets", "refused"}
  BY <1>4, Zenon
<1>11. Build(q2)
  BY <1>1, <1>5, <1>8, <1>9, <1>10 DEF Build, Looked, Picked
<1>12. mv = q2.since => Seen(q2, cf, un, ix)
  BY <1>1, <1>8, <1>10 DEF Seen, Looked, Refusals, Conflicts
<1> QED BY <1>1, <1>8, <1>10, <1>11, <1>12 DEF BuildInv, Looked

(* A check of the app or of the Guardian, and the step to the next of them,*)
(* keeps what is known of the pick: what ord was asked about has no assets.*)
LEMMA CheckedKept ==
  ASSUME NEW q, NEW cf, NEW un, NEW ix, NEW mv \in Nat, BuildInv(q, cf, un, ix, mv),
         NEW ph, NEW cl, NEW q2, q2 = [q EXCEPT !.phase = ph, !.clean = cl],
         q.phase \in Picked, ph \in Picked, cl \subseteq q.pick.chosen,
         ph = "assets" => q.phase = "assets" /\ cl \cap Names("app", q) = {},
         ph # "assets" => q.phase # "assets" \/ q.clean = q.pick.chosen,
         ph = "guardian" => /\ q.phase = "guardian" \/ F!vaultOp(q.r.op)
                            /\ cl \cap Names("guardian", q) = {},
         ph = "accepted" => \/ ~F!vaultOp(q.r.op)
                            \/ /\ q.phase = "guardian" /\ cl = q.clean
                               /\ q.clean = q.pick.chosen
  PROVE  BuildInv(q2, cf, un, ix, mv)
<1>0. q.phase # "idle"
  BY DEF Picked
<1>1. Build(q) /\ q.since \in Nat /\ q.since <= mv /\ (mv = q.since => Seen(q, cf, un, ix))
  BY <1>0 DEF BuildInv
<1>2. IsBuild(q)
  BY <1>1 DEF Build
<1>4. /\ IsBuild(q2) /\ q2.phase = ph /\ q2.r = q.r /\ q2.offered = q.offered /\ q2.resolved = q.resolved
      /\ q2.confirmed = q.confirmed /\ q2.skipped = q.skipped /\ q2.clean = cl
      /\ q2.pick = q.pick /\ q2.since = q.since /\ q2.ords = q.ords
  BY <1>2 DEF IsBuild
<1>5. Usable(q2) = Usable(q) /\ \A service : Names(service, q2) = Names(service, q)
  BY <1>4 DEF Usable, Names
<1>6. q.pick.chosen \subseteq Usable(q) /\ q.clean \subseteq q.pick.chosen /\ q.resolved = q.offered
  BY <1>1 DEF Build, Picked, Looked
<1>7. ph # "assets" => q.pick.chosen \cap Names("app", q) = {}
  <2>1. CASE q.phase = "assets"
    BY <1>1, <2>1 DEF Build
  <2>2. CASE q.phase # "assets"
    BY <1>1, <2>2 DEF Build, Picked
  <2> QED BY <2>1, <2>2
<1>8. Build(q2)
  BY <1>1, <1>4, <1>5, <1>6, <1>7 DEF Build, Looked, Picked
<1>9. mv = q2.since => Seen(q2, cf, un, ix)
  BY <1>1, <1>4 DEF Seen, Looked, Picked
<1> QED BY <1>1, <1>4, <1>8, <1>9 DEF BuildInv, Looked, Picked

(* What is known of a build is kept by every step.                         *)
LEMMA FundStep == FundInv /\ [F!Step]_(F!vars) => FundInv'
<1> SUFFICES ASSUME FundInv, [F!Step]_(F!vars) PROVE FundInv'
  OBVIOUS
<1>0. /\ conf \subseteq Coin /\ unspent \subseteq Coin /\ indexed \subseteq Carrier /\ moves \in Nat
      /\ BuildInv(req, conf, unspent, indexed, moves)
  BY DEF FundInv
<1>1. PICK q, q2 : q = req /\ q2 = req'
  OBVIOUS
<1>2. BuildInv(q, conf, unspent, indexed, moves)
  BY <1>0, <1>1
<1>3. ASSUME UNCHANGED <<conf, unspent, indexed, moves>>, BuildInv(q2, conf, unspent, indexed, moves)
      PROVE  FundInv'
  <2>1. conf' = conf /\ unspent' = unspent /\ indexed' = indexed /\ moves' = moves
    BY <1>3
  <2>2. BuildInv(req', conf', unspent', indexed', moves')
    BY <1>1, <1>3, <2>1, Zenon
  <2>3. BuildInv(req, conf, unspent, indexed, moves)'
    BY <2>2, Zenon DEF BuildInv, Build, Seen, IsBuild, Usable, Names, Blind, F!vaultOp
  <2> QED BY <1>0, <2>1, <2>3 DEF FundInv
<1>4. ASSUME NEW p, q.phase # "idle", q2 = [q EXCEPT !.phase = "refused", !.pick = p],
             UNCHANGED <<conf, unspent, indexed, moves>>,
             moves = q.since => \/ p.code \notin Conflicts
                                \/ p.code = "FUNDING_INPUT_SPENT" /\ q.offered \ unspent # {}
                                \/ p.code = "FUNDING_HOLDS_TOKEN" /\ Blind(q)
      PROVE  FundInv'
  BY <1>0, <1>2, <1>3, <1>4, RefusedKept
<1>5. ASSUME NEW r \in Requests, NEW offered \in SUBSET Coin, NEW ords, F!Request(r, offered, ords)
      PROVE  FundInv'
  <2>1. UNCHANGED <<conf, unspent, indexed, moves>> /\ q2 = F!Start(r, offered, ords)
    BY <1>1, <1>5 DEF F!Request, F!env
  <2>2. PICK rt, p : rt = F!NoRates /\ p = [ok |-> FALSE, code |-> "none"]
    OBVIOUS
  <2>3. q2 = [phase |-> "resolve", r |-> r, offered |-> offered, ords |-> ords, resolved |-> {},
              confirmed |-> {}, rates |-> rt, skipped |-> {}, clean |-> {}, pick |-> p, since |-> moves]
    BY <2>1, <2>2 DEF F!Start
  <2>4. /\ IsBuild(q2) /\ q2.phase = "resolve" /\ q2.offered = offered /\ q2.resolved = {}
        /\ q2.confirmed = {} /\ q2.clean = {} /\ q2.since = moves
    BY <2>3 DEF IsBuild
  <2>5. Build(q2) /\ Seen(q2, conf, unspent, indexed)
    BY <2>4 DEF Build, Seen, Looked, Picked
  <2>6. BuildInv(q2, conf, unspent, indexed, moves)
    BY <1>0, <2>4, <2>5 DEF BuildInv
  <2> QED BY <1>3, <2>1, <2>6
<1>6. ASSUME NEW c \in Coin, F!ResolveUtxo(c) PROVE FundInv'
  <2>1. UNCHANGED <<conf, unspent, indexed, moves>> /\ q.phase = "resolve" /\ c \in q.offered
    BY <1>1, <1>6 DEF F!ResolveUtxo, F!env
  <2>2. CASE c \notin unspent
    <3>1. PICK p : p = [ok |-> FALSE, code |-> "FUNDING_INPUT_SPENT"]
      OBVIOUS
    <3>2. q2 = [q EXCEPT !.phase = "refused", !.pick = p]
      BY <1>1, <1>6, <2>2, <3>1 DEF F!ResolveUtxo, F!Refuse
    <3>3. p.code = "FUNDING_INPUT_SPENT" /\ q.offered \ unspent # {}
      BY <2>1, <2>2, <3>1
    <3> QED BY <1>4, <2>1, <3>2, <3>3
  <2>3. CASE c \in unspent
    <3>1. PICK cn : cn = IF c \in conf THEN q.confirmed \cup {c} ELSE q.confirmed
      OBVIOUS
    <3>2. q2 = [q EXCEPT !.resolved = q.resolved \cup {c}, !.confirmed = cn]
      <4>1. q2 = [q EXCEPT !.resolved = @ \cup {c}, !.confirmed = IF c \in conf THEN @ \cup {c} ELSE @]
        BY <1>1, <1>6, <2>3 DEF F!ResolveUtxo
      <4>2. IsBuild(q)
        BY <1>2, <2>1 DEF BuildInv, Build
      <4> QED BY <3>1, <4>1, <4>2 DEF IsBuild
    <3>3. BuildInv(q2, conf, unspent, indexed, moves)
      BY <1>0, <1>2, <2>1, <2>3, <3>1, <3>2, ResolvedKept
    <3> QED BY <1>3, <2>1, <3>3
  <2> QED BY <2>2, <2>3
<1>7. CASE F!CheckCarriers
  <2>1. /\ UNCHANGED <<conf, unspent, indexed, moves>> /\ q.phase = "resolve"
        /\ q.resolved = q.offered
    BY <1>1, <1>7 DEF F!CheckCarriers, F!env
  <2>2. CASE q.offered \cap indexed # {}
    <3>1. PICK p : p = [ok |-> FALSE, code |-> "FUNDING_INPUT_IS_TOKEN"]
      OBVIOUS
    <3>2. q2 = [q EXCEPT !.phase = "refused", !.pick = p]
      BY <1>1, <1>7, <2>2, <3>1 DEF F!CheckCarriers, F!Refuse
    <3>3. p.code \notin Conflicts
      BY <3>1 DEF Conflicts
    <3> QED BY <1>4, <2>1, <3>2, <3>3
  <2>3. CASE q.offered \cap indexed = {}
    <3>1. q2 = [q EXCEPT !.phase = "rates"]
      BY <1>1, <1>7, <2>3 DEF F!CheckCarriers
    <3>2. BuildInv(q2, conf, unspent, indexed, moves)
      BY <1>0, <1>2, <2>1, <2>3, <3>1, LookedKept
    <3> QED BY <1>3, <2>1, <3>2
  <2> QED BY <2>2, <2>3
<1>8. CASE F!LoadRates
  <2>1. UNCHANGED <<conf, unspent, indexed, moves>> /\ q.phase = "rates"
    BY <1>1, <1>8 DEF F!LoadRates, F!env
  <2>2. PICK rt : req' = [req EXCEPT !.rates = rt, !.pick = F!pick(req.r, rt, F!usable),
                            !.phase = IF F!pick(req.r, rt, F!usable).ok THEN "assets" ELSE "refused"]
    BY <1>8, Zenon DEF F!LoadRates
  <2>3. F!usable = Usable(q)
    BY <1>1 DEF F!usable, Usable
  <2>4. PICK p : p = F!pick(q.r, rt, Usable(q))
    OBVIOUS
  <2>5. p = F!pick(req.r, rt, F!usable)
    BY <1>1, <2>3, <2>4
  <2>6. PICK ph : ph = IF p.ok THEN "assets" ELSE "refused"
    OBVIOUS
  <2>7. q2 = [q EXCEPT !.rates = rt, !.pick = p, !.phase = ph]
    BY <1>1, <2>2, <2>5, <2>6, Zenon
  <2>8. BuildInv(q2, conf, unspent, indexed, moves)
    BY <1>0, <1>2, <2>1, <2>4, <2>6, <2>7, RatesKept
  <2> QED BY <1>3, <2>1, <2>8
<1>9. ASSUME NEW c \in Coin, F!AskOrd(c) PROVE FundInv'
  <2>1. UNCHANGED <<conf, unspent, indexed, moves>> /\ q.phase = "assets" /\ c \in q.pick.chosen
    BY <1>1, <1>9 DEF F!AskOrd, F!env
  <2>2. Build(q)
    BY <1>2, <2>1 DEF BuildInv
  <2>3. IsBuild(q) /\ q.clean \subseteq q.pick.chosen /\ q.clean \cap Names("app", q) = {}
    BY <2>1, <2>2 DEF Build, Picked
  <2>0. F!OrdNames("app") = Names("app", q)
    BY <1>1 DEF F!OrdNames, Names
  <2>4. CASE c \in F!OrdNames("app")
    <3>1. req' = [req EXCEPT !.skipped = @ \cup {c}, !.clean = {},
                    !.pick = F!pick(req.r, req.rates, F!usable \ {c}),
                    !.phase = IF F!pick(req.r, req.rates, F!usable \ {c}).ok
                              THEN "assets" ELSE "refused"]
      BY <1>9, <2>4, Zenon DEF F!AskOrd
    <3>2. F!usable = Usable(q)
      BY <1>1 DEF F!usable, Usable
    <3>3. PICK p : p = F!pick(q.r, q.rates, Usable(q) \ {c})
      OBVIOUS
    <3>4. p = F!pick(req.r, req.rates, F!usable \ {c})
      BY <1>1, <3>2, <3>3
    <3>5. PICK ph : ph = IF p.ok THEN "assets" ELSE "refused"
      OBVIOUS
    <3>6. q2 = [q EXCEPT !.skipped = @ \cup {c}, !.clean = {}, !.pick = p, !.phase = ph]
      BY <1>1, <3>1, <3>4, <3>5, Zenon
    <3>7. q2 = [q EXCEPT !.skipped = q.skipped \cup {c}, !.clean = {}, !.pick = p, !.phase = ph]
      BY <2>3, <3>6 DEF IsBuild
    <3>8. BuildInv(q2, conf, unspent, indexed, moves)
      BY <1>0, <1>2, <2>1, <3>3, <3>5, <3>7, SkippedKept
    <3> QED BY <1>3, <2>1, <3>8
  <2>5. CASE c \notin F!OrdNames("app")
    <3>1. q2 = [q EXCEPT !.clean = @ \cup {c}]
      BY <1>1, <1>9, <2>5 DEF F!AskOrd
    <3>2. PICK ph, cl : ph = q.phase /\ cl = q.clean \cup {c}
      OBVIOUS
    <3>3. q2 = [q EXCEPT !.phase = ph, !.clean = cl]
      BY <2>3, <3>1, <3>2 DEF IsBuild
    <3>4. /\ q.phase \in Picked /\ ph \in Picked /\ cl \subseteq q.pick.chosen /\ ph = "assets"
          /\ cl \cap Names("app", q) = {}
      BY <2>0, <2>1, <2>3, <2>5, <3>2 DEF Picked
    <3>5. BuildInv(q2, conf, unspent, indexed, moves)
      BY <1>0, <1>2, <2>1, <3>3, <3>4, CheckedKept
    <3> QED BY <1>3, <2>1, <3>5
  <2> QED BY <2>4, <2>5
<1>10. CASE F!AskOrdFails
  <2>1. UNCHANGED <<conf, unspent, indexed, moves>> /\ q.phase = "assets"
    BY <1>1, <1>10 DEF F!AskOrdFails, F!env
  <2>2. PICK p : p = [ok |-> FALSE, code |-> "FUNDING_CHECK_UNAVAILABLE"]
    OBVIOUS
  <2>3. q2 = [q EXCEPT !.phase = "refused", !.pick = p]
    BY <1>1, <1>10, <2>2 DEF F!AskOrdFails, F!Refuse
  <2>4. p.code \notin Conflicts
    BY <2>2 DEF Conflicts
  <2> QED BY <1>4, <2>1, <2>3, <2>4
<1>11. CASE F!Built
  <2>1. /\ UNCHANGED <<conf, unspent, indexed, moves>> /\ q.phase = "assets"
        /\ q.pick.chosen = q.clean
    BY <1>1, <1>11 DEF F!Built, F!env
  <2>2. PICK ph, cl : ph = (IF F!vaultOp(q.r.op) THEN "guardian" ELSE "accepted") /\ cl = {}
    OBVIOUS
  <2>3. q2 = [q EXCEPT !.phase = ph, !.clean = cl]
    BY <1>1, <1>11, <2>2, Zenon DEF F!Built
  <2>4. /\ q.phase \in Picked /\ ph \in Picked /\ cl \subseteq q.pick.chosen /\ ph # "assets"
        /\ q.clean = q.pick.chosen
    BY <2>1, <2>2 DEF Picked
  <2>5. /\ ph = "guardian" => F!vaultOp(q.r.op) /\ cl \cap Names("guardian", q) = {}
        /\ ph = "accepted" => ~F!vaultOp(q.r.op)
    BY <2>2
  <2>6. BuildInv(q2, conf, unspent, indexed, moves)
    BY <1>0, <1>2, <2>3, <2>4, <2>5, CheckedKept DEF F!vaultOp
  <2> QED BY <1>3, <2>1, <2>6
<1>12. ASSUME NEW c \in Coin, F!GuardianChecks(c) PROVE FundInv'
  <2>1. UNCHANGED <<conf, unspent, indexed, moves>> /\ q.phase = "guardian" /\ c \in q.pick.chosen
    BY <1>1, <1>12 DEF F!GuardianChecks, F!env
  <2>2. Build(q) /\ (moves = q.since => Seen(q, conf, unspent, indexed))
    BY <1>2, <2>1 DEF BuildInv
  <2>3. /\ IsBuild(q) /\ q.clean \subseteq q.pick.chosen /\ q.clean \cap Names("guardian", q) = {}
        /\ q.pick.chosen \cap Names("app", q) = {}
        /\ q.pick.chosen \subseteq Usable(q) /\ q.confirmed \subseteq q.resolved /\ q.resolved = q.offered
    BY <2>1, <2>2 DEF Build, Picked, Looked
  <2>4. PICK v : v = F!FundingVerdict(c)
    OBVIOUS
  <2>0. F!OrdNames("guardian") = Names("guardian", q)
    BY <1>1 DEF F!OrdNames, Names
  <2>5. CASE v = "ok" /\ q2 = [q EXCEPT !.clean = @ \cup {c}]
    <3>1. PICK ph, cl : ph = q.phase /\ cl = q.clean \cup {c}
      OBVIOUS
    <3>2. q2 = [q EXCEPT !.phase = ph, !.clean = cl]
      BY <2>3, <2>5, <3>1 DEF IsBuild
    <3>0. c \notin Names("guardian", q)
      BY <2>0, <2>4, <2>5 DEF F!FundingVerdict
    <3>3. /\ q.phase \in Picked /\ ph \in Picked /\ cl \subseteq q.pick.chosen /\ ph # "assets"
          /\ q.phase = "guardian" /\ ph = "guardian" /\ cl \cap Names("guardian", q) = {}
      BY <2>1, <2>3, <3>0, <3>1 DEF Picked
    <3>4. BuildInv(q2, conf, unspent, indexed, moves)
      BY <1>0, <1>2, <3>2, <3>3, CheckedKept
    <3> QED BY <1>3, <2>1, <3>4
  <2>6. CASE v # "ok" /\ q2 = [q EXCEPT !.phase = "refused", !.pick = [ok |-> FALSE, code |-> v]]
    (* While nothing moved, the app saw what the Guardian sees. *)
    <3>1. PICK p : p = [ok |-> FALSE, code |-> v]
      OBVIOUS
    <3>2. ASSUME moves = q.since, F!vaultOp(q.r.op) PROVE v = "FUNDING_HOLDS_TOKEN" /\ Blind(q)
      <4>1. c \in q.confirmed /\ c \in q.offered /\ c \notin Names("app", q)
        BY <2>1, <2>3, <3>2 DEF Usable
      <4>2. c \in conf /\ c \in unspent /\ c \notin indexed
        BY <2>1, <2>2, <2>3, <3>2, <4>1 DEF Seen, Looked
      <4>3. c \in Names("guardian", q) /\ v = "FUNDING_HOLDS_TOKEN"
        BY <2>0, <2>4, <2>6, <4>2 DEF F!FundingVerdict
      <4>4. Names("app", q) = {}
        BY <4>1, <4>3 DEF Names
      <4> QED BY <4>1, <4>3, <4>4 DEF Blind
    <3>3. F!vaultOp(q.r.op)
      BY <2>1, <2>2 DEF Build
    <3>4. q2 = [q EXCEPT !.phase = "refused", !.pick = p]
      BY <2>6, <3>1
    <3>5. p.code = v
      BY <3>1
    <3> QED BY <1>4, <2>1, <3>2, <3>3, <3>4, <3>5
  <2>7. CASE q2 = [q EXCEPT !.phase = "refused", !.pick = [ok |-> FALSE, code |-> "FUNDING_CHECK_UNAVAILABLE"]]
    <3>1. PICK p : p = [ok |-> FALSE, code |-> "FUNDING_CHECK_UNAVAILABLE"]
      OBVIOUS
    <3>2. q2 = [q EXCEPT !.phase = "refused", !.pick = p]
      BY <2>7, <3>1
    <3>3. p.code \notin Conflicts
      BY <3>1 DEF Conflicts
    <3> QED BY <1>4, <2>1, <3>2, <3>3
  <2> QED BY <1>1, <1>12, <2>4, <2>5, <2>6, <2>7, Zenon DEF F!GuardianChecks, F!Refuse
<1>13. CASE F!Accept
  <2>1. UNCHANGED <<conf, unspent, indexed, moves>> /\ q.phase = "guardian"
    BY <1>1, <1>13 DEF F!Accept, F!env
  <2>2. IsBuild(q) /\ q.clean \subseteq q.pick.chosen /\ q.clean = q.pick.chosen
    BY <1>1, <1>2, <1>13, <2>1 DEF BuildInv, Build, Picked, F!Accept
  <2>3. PICK ph, cl : ph = "accepted" /\ cl = q.clean
    OBVIOUS
  <2>4. q2 = [q EXCEPT !.phase = "accepted"]
    BY <1>1, <1>13 DEF F!Accept
  <2>5. q2 = [q EXCEPT !.phase = ph, !.clean = cl]
    BY <2>2, <2>3, <2>4 DEF IsBuild
  <2>6. /\ q.phase \in Picked /\ ph \in Picked /\ cl \subseteq q.pick.chosen /\ ph # "assets"
        /\ q.phase = "guardian" /\ ph = "accepted"
    BY <2>1, <2>2, <2>3 DEF Picked
  <2>7. BuildInv(q2, conf, unspent, indexed, moves)
    BY <1>0, <1>2, <2>2, <2>3, <2>5, <2>6, CheckedKept
  <2> QED BY <1>3, <2>1, <2>7
<1>14. CASE F!Move
  <2>1. moves' = moves + 1 /\ q2 = q
    BY <1>1, <1>14 DEF F!Move
  <2>2. conf' \subseteq Coin /\ unspent' \subseteq Coin /\ indexed' \subseteq Carrier
    BY <1>0, <1>14 DEF F!Move
  <2>3. PICK cf, un, ix, mv : cf = conf' /\ un = unspent' /\ ix = indexed' /\ mv = moves'
    OBVIOUS
  <2>4. BuildInv(q, cf, un, ix, mv)
    BY <1>0, <1>2, <2>1, <2>3 DEF BuildInv
  <2>5. BuildInv(req', conf', unspent', indexed', moves')
    BY <1>1, <2>1, <2>3, <2>4, Zenon
  <2>6. BuildInv(req, conf, unspent, indexed, moves)'
    BY <2>5, Zenon DEF BuildInv, Build, Seen, IsBuild, Usable, Names, Blind, F!vaultOp
  <2> QED BY <1>0, <2>1, <2>2, <2>6 DEF FundInv
<1>15. CASE F!CacheExpires \/ UNCHANGED F!vars
  <2>1. UNCHANGED <<conf, unspent, indexed, moves>> /\ q2 = q
    BY <1>1, <1>15 DEF F!CacheExpires, F!env, F!vars
  <2> QED BY <1>2, <1>3, <2>1
<1>16. CASE F!Answer
  <2>1. UNCHANGED <<conf, unspent, indexed, moves>> /\ q2.phase = "idle"
    BY <1>1, <1>16 DEF F!Answer, F!Idle, F!env
  <2>2. BuildInv(q2, conf, unspent, indexed, moves)
    BY <2>1 DEF BuildInv
  <2> QED BY <1>3, <2>1, <2>2
<1> QED BY <1>5, <1>6, <1>7, <1>8, <1>9, <1>10, <1>11, <1>12, <1>13, <1>14, <1>15, <1>16 DEF F!Step

(* A coin about which the last look is wrong has moved since.              *)
StaleInv ==
  /\ req.phase \in Looked => req.offered \cap indexed \subseteq stale
  /\ req.phase \in {"guardian", "accepted"} => req.clean \ (conf \cap unspent) \subseteq stale
Touched(cf, un, ix, cf2, un2, ix2) ==
  {c \in Coin : (c \in cf) # (c \in cf2) \/ (c \in un) # (c \in un2) \/ (c \in ix) # (c \in ix2)}

LEMMA StaleStep == FundInv /\ StaleInv /\ [F!Next]_(F!vars) => StaleInv'
<1> SUFFICES ASSUME FundInv, StaleInv, [F!Next]_(F!vars) PROVE StaleInv'
  OBVIOUS
<1>0. /\ conf \subseteq Coin /\ unspent \subseteq Coin /\ indexed \subseteq Carrier
      /\ BuildInv(req, conf, unspent, indexed, moves)
  BY DEF FundInv
<1>1. CASE UNCHANGED F!vars
  BY <1>1 DEF StaleInv, F!vars
<1> SUFFICES ASSUME F!Next PROVE StaleInv'
  BY <1>1
<1>2. PICK q, q2, st2, D, T :
        /\ q = req /\ q2 = req' /\ st2 = stale'
        /\ D = (IF req.phase = "guardian" THEN req'.clean \ req.clean ELSE {})
        /\ T = Touched(conf, unspent, indexed, conf', unspent', indexed')
  OBVIOUS
<1>3. q2.phase \in Looked => st2 = (stale \cup T) \ D
  BY <1>2, Zenon DEF F!Next, F!Remember, Looked, Touched
<1>4. q.phase \in Looked => q.offered \cap indexed \subseteq stale
  BY <1>2 DEF StaleInv
<1>5. q.phase \in {"guardian", "accepted"} => q.clean \ (conf \cap unspent) \subseteq stale
  BY <1>2 DEF StaleInv
<1>6. q.phase # "idle" => IsBuild(q)
  BY <1>0, <1>2 DEF BuildInv, Build
<1>7. CASE q2.phase \notin Looked
  BY <1>2, <1>7 DEF StaleInv, Looked
(* What a step without a look at a coin leaves: the coins that moved.      *)
<1>8. ASSUME q2.phase \in Looked, q.phase \in Looked, q2.offered = q.offered, D = {},
             indexed' \ indexed \subseteq T, (conf \cap unspent) \ (conf' \cap unspent') \subseteq T,
             q2.phase \in {"guardian", "accepted"} =>
               q2.clean = {} \/ (q2.clean = q.clean /\ q.phase \in {"guardian", "accepted"})
      PROVE  StaleInv'
  <2>1. st2 = stale \cup T
    BY <1>3, <1>8
  <2>2. q2.offered \cap indexed' \subseteq st2
    BY <1>4, <1>8, <2>1
  <2>3. q2.phase \in {"guardian", "accepted"} => q2.clean \ (conf' \cap unspent') \subseteq st2
    BY <1>5, <1>8, <2>1
  <2> QED BY <1>2, <2>2, <2>3 DEF StaleInv
<1>9. ASSUME UNCHANGED <<conf, unspent, indexed>>, q2.phase \in Looked, q.phase \in Looked,
             q2.offered = q.offered, D = {},
             q2.phase \in {"guardian", "accepted"} =>
               q2.clean = {} \/ (q2.clean = q.clean /\ q.phase \in {"guardian", "accepted"})
      PROVE  StaleInv'
  BY <1>8, <1>9
<1>10. CASE F!CheckCarriers /\ q2.phase \in Looked
  <2>1. q.phase = "resolve" /\ UNCHANGED <<conf, unspent, indexed>>
    BY <1>2, <1>10 DEF F!CheckCarriers, F!env
  <2>2. q.offered \cap indexed = {} /\ q2 = [q EXCEPT !.phase = "rates"]
    BY <1>2, <1>6, <1>10, <2>1 DEF F!CheckCarriers, F!Refuse, IsBuild, Looked
  <2>3. q2.offered = q.offered /\ q2.phase = "rates"
    BY <1>6, <2>1, <2>2 DEF IsBuild
  <2> QED BY <1>2, <2>1, <2>2, <2>3 DEF StaleInv
<1>11. CASE F!LoadRates /\ q2.phase \in Looked
  <2>1. UNCHANGED <<conf, unspent, indexed>> /\ q.phase = "rates"
    BY <1>2, <1>11 DEF F!LoadRates, F!env
  <2>2. PICK rt, p, ph : q2 = [q EXCEPT !.rates = rt, !.pick = p, !.phase = ph] /\ ph \in {"assets", "refused"}
    BY <1>2, <1>11, Zenon DEF F!LoadRates
  <2>3. q2.offered = q.offered /\ q2.phase = ph
    BY <1>6, <2>1, <2>2 DEF IsBuild
  <2> QED BY <1>2, <1>9, <1>11, <2>1, <2>2, <2>3 DEF Looked
<1>12. ASSUME NEW c, F!AskOrd(c), q2.phase \in Looked PROVE StaleInv'
  <2>1. UNCHANGED <<conf, unspent, indexed>> /\ q.phase = "assets"
    BY <1>2, <1>12 DEF F!AskOrd, F!env
  <2>2. \/ \E p, ph : /\ q2 = [q EXCEPT !.skipped = @ \cup {c}, !.clean = {}, !.pick = p, !.phase = ph]
                      /\ ph \in {"assets", "refused"}
        \/ q2 = [q EXCEPT !.clean = @ \cup {c}]
    BY <1>2, <1>12, Zenon DEF F!AskOrd
  <2>3. q2.offered = q.offered /\ q2.phase \in {"assets", "refused"}
    BY <1>6, <2>1, <2>2 DEF IsBuild
  <2> QED BY <1>2, <1>9, <1>12, <2>1, <2>3 DEF Looked
<1>13. CASE F!Built
  <2>1. UNCHANGED <<conf, unspent, indexed>> /\ q.phase = "assets"
    BY <1>2, <1>13 DEF F!Built, F!env
  <2>2. PICK ph : q2 = [q EXCEPT !.phase = ph, !.clean = {}] /\ ph \in {"guardian", "accepted"}
    BY <1>2, <1>13, Zenon DEF F!Built
  <2>3. q2.offered = q.offered /\ q2.phase = ph /\ q2.clean = {}
    BY <1>6, <2>1, <2>2 DEF IsBuild
  <2> QED BY <1>2, <1>9, <2>1, <2>2, <2>3 DEF Looked
<1>14. ASSUME NEW c, F!GuardianChecks(c), q2.phase \in Looked PROVE StaleInv'
  <2>1. UNCHANGED <<conf, unspent, indexed>> /\ q.phase = "guardian" /\ c \notin q.clean
    BY <1>2, <1>14 DEF F!GuardianChecks, F!env
  <2>2. F!FundingVerdict(c) = "ok" /\ req' = [req EXCEPT !.clean = @ \cup {c}]
    <3>1. ASSUME NEW code, q2 = [q EXCEPT !.phase = "refused", !.pick = [ok |-> FALSE, code |-> code]]
          PROVE  FALSE
      <4>1. q2.phase = "refused"
        BY <1>6, <2>1, <3>1 DEF IsBuild
      <4> QED BY <1>14, <4>1 DEF Looked
    <3>2. \A code : ~F!Refuse(code)
      BY <1>2, <3>1, Zenon DEF F!Refuse
    <3> QED BY <1>14, <3>2, Zenon DEF F!GuardianChecks
  <2>3. q2.offered = q.offered /\ q2.phase = "guardian" /\ q2.clean = q.clean \cup {c}
    BY <1>2, <1>6, <2>1, <2>2 DEF IsBuild
  <2>4. c \in unspent /\ c \in conf /\ c \notin indexed
    BY <2>2 DEF F!FundingVerdict
  <2>5. D = {c}
    BY <1>2, <2>1, <2>3
  <2>6. st2 = (stale \cup T) \ {c}
    BY <1>3, <2>3, <2>5 DEF Looked
  <2>7. q2.offered \cap indexed' \subseteq st2
    BY <1>4, <2>1, <2>3, <2>4, <2>6 DEF Looked
  <2>8. q2.clean \ (conf' \cap unspent') \subseteq st2
    BY <1>5, <2>1, <2>3, <2>4, <2>6
  <2> QED BY <1>2, <2>7, <2>8 DEF StaleInv
<1>15. CASE F!Accept
  <2>1. UNCHANGED <<conf, unspent, indexed>> /\ q.phase = "guardian" /\ q2 = [q EXCEPT !.phase = "accepted"]
    BY <1>2, <1>15 DEF F!Accept, F!env
  <2>2. q2.offered = q.offered /\ q2.phase = "accepted" /\ q2.clean = q.clean
    BY <1>6, <2>1 DEF IsBuild
  <2>3. D = {}
    BY <1>2, <2>1, <2>2
  <2> QED BY <1>9, <2>1, <2>2, <2>3 DEF Looked
<1>16. CASE F!Move /\ q2.phase \in Looked
  <2>1. q2 = q /\ D = {}
    BY <1>2, <1>16 DEF F!Move
  <2>2. indexed' \ indexed \subseteq Coin
    BY <1>0, <1>16 DEF F!Move
  <2>3. indexed' \ indexed \subseteq T /\ (conf \cap unspent) \ (conf' \cap unspent') \subseteq T
    BY <1>0, <1>2, <2>2 DEF Touched
  <2> QED BY <1>8, <1>16, <2>1, <2>3
<1>17. CASE F!CacheExpires /\ q2.phase \in Looked
  <2>1. UNCHANGED <<conf, unspent, indexed>> /\ q2 = q
    BY <1>2, <1>17 DEF F!CacheExpires, F!env
  <2>2. D = {}
    BY <1>2, <2>1
  <2> QED BY <1>9, <1>17, <2>1, <2>2
<1>18. ASSUME NEW c, F!ResolveUtxo(c) PROVE q2.phase \notin Looked
  <2>1. q.phase = "resolve"
    BY <1>2, <1>18 DEF F!ResolveUtxo
  <2>2. \/ \E cf : q2 = [q EXCEPT !.resolved = @ \cup {c}, !.confirmed = cf]
        \/ \E p : q2 = [q EXCEPT !.phase = "refused", !.pick = p]
    <3>1. \/ \E code : F!Refuse(code)
          \/ req' = [req EXCEPT !.resolved = @ \cup {c},
                                 !.confirmed = IF c \in conf THEN @ \cup {c} ELSE @]
      BY <1>18, Zenon DEF F!ResolveUtxo
    <3>2. \/ \E code : F!Refuse(code)
          \/ \E cf : req' = [req EXCEPT !.resolved = @ \cup {c}, !.confirmed = cf]
      BY <3>1
    <3> QED BY <1>2, <3>2 DEF F!Refuse
  <2> QED BY <1>6, <2>1, <2>2 DEF IsBuild, Looked
<1>19. ASSUME NEW r, NEW o, NEW ords, F!Request(r, o, ords) PROVE q2.phase \notin Looked
  BY <1>2, <1>19 DEF F!Request, F!Start, Looked
<1>20. F!AskOrdFails \/ F!Answer => q2.phase \notin Looked
  <2>1. ASSUME F!AskOrdFails PROVE q2.phase = "refused"
    <3>1. PICK p : p = [ok |-> FALSE, code |-> "FUNDING_CHECK_UNAVAILABLE"]
      OBVIOUS
    <3>2. q.phase # "idle" /\ q2 = [q EXCEPT !.phase = "refused", !.pick = p]
      BY <1>2, <2>1, <3>1 DEF F!AskOrdFails, F!Refuse
    <3> QED BY <1>6, <3>2 DEF IsBuild
  <2>2. F!Answer => q2.phase = "idle"
    BY <1>2 DEF F!Answer, F!Idle
  <2> QED BY <2>1, <2>2 DEF Looked
<1> QED BY <1>7, <1>10, <1>11, <1>12, <1>13, <1>14, <1>15, <1>16, <1>17, <1>18, <1>19, <1>20 DEF F!Next, F!Step

(* For any coins, requests and rates, with or without ord servers, and     *)
(* however chain, index and mempool move during a build: what an accepted  *)
(* build spends holds nothing a service could have asked ord about; it     *)
(* carries tokens, or is unconfirmed or spent where the Guardian asks for  *)
(* it, only if that changed after the last look at the coin; and while     *)
(* nothing moves the Guardian refuses nothing the app picked, but what it  *)
(* alone can ask ord about (resolveFundingAndFee, chainFundingChecker).    *)
THEOREM FundingIsSafe == F!Spec => []Funded
<1>1. F!Init => FundInv /\ StaleInv
  <2> SUFFICES ASSUME F!Init PROVE FundInv /\ StaleInv
    OBVIOUS
  <2>1. req.phase = "idle"
    BY DEF F!Init, F!Idle
  <2>2. conf \subseteq Coin /\ unspent \subseteq Coin /\ indexed \subseteq Carrier /\ moves \in Nat
    BY DEF F!Init
  <2> QED BY <2>1, <2>2 DEF FundInv, StaleInv, BuildInv, Looked
<1>2. FundInv /\ StaleInv => Funded
  <2> SUFFICES ASSUME FundInv, StaleInv PROVE Funded
    OBVIOUS
  <2>1. /\ conf \subseteq Coin /\ unspent \subseteq Coin /\ indexed \subseteq Carrier
        /\ BuildInv(req, conf, unspent, indexed, moves)
    BY DEF FundInv
  <2>2. req.phase \in {"idle", "resolve", "refused"} \cup Looked
    BY <2>1 DEF BuildInv
  <2>3. ASSUME req.phase # "idle"
        PROVE  Build(req) /\ (moves = req.since => Seen(req, conf, unspent, indexed))
    BY <2>1, <2>3 DEF BuildInv
  <2>4. ASSUME req.phase \in Picked
        PROVE  /\ req.pick.chosen \subseteq Usable(req) /\ req.clean \subseteq req.pick.chosen
               /\ req.resolved = req.offered /\ req.confirmed \subseteq req.resolved
               /\ moves = req.since => /\ req.offered \cap indexed = {} /\ req.confirmed \subseteq conf
                                       /\ req.resolved \subseteq unspent
    <3>1. Build(req) /\ (moves = req.since => Seen(req, conf, unspent, indexed)) /\ req.phase \in Looked
      BY <2>3, <2>4 DEF Picked, Looked
    <3> QED BY <2>4, <3>1 DEF Build, Seen
  <2>5. F!TypeOK
    <3>1. F!HasPick => /\ req.pick.chosen \subseteq req.resolved \ req.skipped
                       /\ req.clean \subseteq req.pick.chosen /\ req.resolved = req.offered
      BY <2>4 DEF F!HasPick, Picked, Usable
    <3> QED BY <2>1, <2>2, <3>1 DEF F!TypeOK, Looked
  <2>6. F!NothingDestroyed
    <3> SUFFICES ASSUME req.phase = "accepted"
                 PROVE  /\ req.pick.chosen \cap F!OrdNames("app") = {}
                        /\ req.pick.chosen \cap indexed \subseteq stale
                        /\ F!vaultOp(req.r.op) =>
                             /\ req.pick.chosen \cap F!OrdNames("guardian") = {}
                             /\ req.pick.chosen \ (conf \cap unspent) \subseteq stale
      BY DEF F!NothingDestroyed
    <3>1. req.pick.chosen \cap Names("app", req) = {}
      BY <2>3 DEF Build
    <3>2. F!vaultOp(req.r.op) => /\ req.clean = req.pick.chosen
                                 /\ req.pick.chosen \cap Names("guardian", req) = {}
      BY <2>3 DEF Build
    <3>3. req.pick.chosen \subseteq req.offered
      BY <2>4 DEF Picked, Usable
    <3>4. req.pick.chosen \cap indexed \subseteq stale /\ req.clean \ (conf \cap unspent) \subseteq stale
      BY <3>3 DEF StaleInv, Looked
    <3> QED BY <3>1, <3>2, <3>4 DEF F!OrdNames, Names
  <2>7. F!AppAndGuardianAgree
    BY <2>3 DEF F!AppAndGuardianAgree, Seen, Conflicts, Blind, Names, F!OrdNames
  <2> QED BY <2>5, <2>6, <2>7 DEF Funded
<1>3. F!Next => F!Step
  BY DEF F!Next
<1> QED BY <1>1, <1>2, <1>3, FundStep, StaleStep, PTL DEF F!Spec
=============================================================================
