-------------------------- MODULE Deployment_proofs --------------------------
(***************************************************************************)
(* Proofs about Deployment: whatever is deployed, in whatever order and    *)
(* with whatever mixture of commits, environments and keys, the services   *)
(* on mainnet are safe and what they broadcast together both agreed on.    *)
(* And about Rehearsal: the resumable runs on public chains, whatever      *)
(* faults they meet, and the gates of the V1 services' configuration.      *)
(***************************************************************************)
EXTENDS Deployment, Rehearsal, Sequences, MapTheorems

EnvOf(s) == IF s \in Apps THEN AppEnvs ELSE GuardianEnvs

(* A process runs in an environment its service boots in.                  *)
Process(s, x) ==
  \/ x = Down
  \/ \E e \in EnvOf(s), w \in BOOLEAN :
       /\ x = [up |-> TRUE, env |-> e, watching |-> w]
       /\ Boots(s, e)
       /\ w => s \in Apps /\ e.network = "mainnet"

ProcOK == DOMAIN proc = Services /\ \A s \in Services : Process(s, proc[s])

HealthOK ==
  /\ DOMAIN health = Services
  /\ \A s \in Services : health[s].up => proc[s].up /\ proc[s].watching

(* An answer in the session is one the Guardian of that profile gave to    *)
(* the session's own transition.                                           *)
SessOK ==
  /\ sess.st \in {"none", "built", "answered"}
  /\ sess.st = "answered" => GuardianSigns(sess.hash, sess.tx)

RestOK ==
  /\ cores \in BOOLEAN
  /\ tool.at \in {"idle", "worker", "guardian"}
  /\ deploys \in 0 .. MaxDeploys

DeployInv == ProcOK /\ HealthOK /\ SessOK /\ SentAgreed /\ RestOK

-----------------------------------------------------------------------------
(* The boot gates *)

(* What normalizePubkeys returns is a sequence as long as its argument.    *)
LEMMA Normalized ==
  ASSUME NEW ks \in Seq(Nat)
  PROVE  /\ DOMAIN normalizePubkeys(ks) = 1 .. Len(ks)
         /\ Len(normalizePubkeys(ks)) = Len(ks)
         /\ Len(ks) \in Nat
<1> DEFINE s == normalizePubkeys(ks)
           Entries == {s[n] : n \in 1 .. Len(ks)}
<1>1. Len(ks) \in Nat
  OBVIOUS
<1>2. DOMAIN s = 1 .. Len(ks) /\ s = [n \in 1 .. Len(ks) |-> s[n]]
  BY DEF normalizePubkeys
<1> HIDE DEF s
<1>3. s \in [1 .. Len(ks) -> Entries]
  BY <1>2
<1> HIDE DEF Entries
<1>4. s \in Seq(Entries)
  BY <1>1, <1>3
<1>5. Len(s) \in Nat /\ DOMAIN s = 1 .. Len(s)
  BY <1>4
<1>6. Len(s) = Len(ks)
  BY <1>1, <1>2, <1>5
<1> QED BY <1>1, <1>2, <1>6 DEF s

(* A committed profile has the committed fields, its keys in order and the *)
(* script of the environment's fee address.                                *)
LEMMA CommittedFields ==
  ASSUME NEW e, e.commit \in DOMAIN CommittedJson, CommittedParses(e)
  PROVE  /\ \A x, y \in committedMainnetProfile(e).guardian : x = y
         /\ Len(committedMainnetProfile(e).pubkeys) \in Nat
         /\ DOMAIN committedMainnetProfile(e).pubkeys
              = 1 .. Len(committedMainnetProfile(e).pubkeys)
<1> DEFINE j == CommittedJson[e.commit]
           p == committedMainnetProfile(e)
<1>1. j \in Profile /\ \A x, y \in j.guardian : x = y
  <2>1. j \in {CommittedJson[c] : c \in DOMAIN CommittedJson} /\ j.wellFormed
    BY DEF CommittedParses, Parses
  <2> QED BY <2>1, ProfileAssumption
<1>2. p.guardian = j.guardian /\ p.pubkeys = normalizePubkeys(j.pubkeys)
  BY <1>1 DEF committedMainnetProfile, parseMainnetProfileJson, Profile
<1>3. j.pubkeys \in Seq(Nat)
  BY <1>1 DEF Profile
<1> HIDE DEF j, p
<1>4. /\ \A x, y \in p.guardian : x = y
      /\ Len(p.pubkeys) \in Nat /\ DOMAIN p.pubkeys = 1 .. Len(p.pubkeys)
  BY <1>1, <1>2, <1>3, Normalized
<1> QED BY <1>4 DEF p

(* The same of a test-only profile.                                        *)
LEMMA TestFields ==
  ASSUME NEW f \in DOMAIN TestJson, Parses(TestJson[f])
  PROVE  LET p == parseMainnetProfileJson(TestJson[f])
         IN Len(p.pubkeys) \in Nat /\ DOMAIN p.pubkeys = 1 .. Len(p.pubkeys)
<1> DEFINE j == TestJson[f]
           p == parseMainnetProfileJson(j)
<1>1. j \in Profile
  <2>1. j \in {TestJson[c] : c \in DOMAIN TestJson} /\ j.wellFormed
    BY DEF Parses
  <2> QED BY <2>1, ProfileAssumption
<1>2. p.pubkeys = normalizePubkeys(j.pubkeys) /\ j.pubkeys \in Seq(Nat)
  BY <1>1 DEF parseMainnetProfileJson, Profile
<1> HIDE DEF j, p
<1>3. Len(p.pubkeys) \in Nat /\ DOMAIN p.pubkeys = 1 .. Len(p.pubkeys)
  BY <1>2, Normalized
<1> QED BY <1>3 DEF p, j

LEMMA ThreeDistinct ==
  ASSUME NEW x, NEW y, NEW z, x # y, x # z, y # z
  PROVE  Cardinality({x, y, z}) = 3
<1>1. IsFiniteSet({x}) /\ Cardinality({x}) = 1
  BY FS_Singleton
<1>2. IsFiniteSet({x} \cup {y}) /\ Cardinality({x} \cup {y}) = 2
  BY <1>1, FS_AddElement
<1>3. Cardinality(({x} \cup {y}) \cup {z}) = 3
  BY <1>2, FS_AddElement
<1>4. ({x} \cup {y}) \cup {z} = {x, y, z}
  OBVIOUS
<1> QED BY <1>3, <1>4

LEMMA OneIsSome ==
  ASSUME NEW S, Cardinality(S) = 1
  PROVE  S # {}
  BY FS_EmptySet

KeysOf(ks) == {ks[i] : i \in DOMAIN ks}

(* As many recovery keys as the profile lists, none of them the            *)
(* Guardian's.                                                             *)
LEMMA RecoveryCount ==
  ASSUME NEW ks, NEW g, Len(ks) = 3 \/ Len(ks) = 1, DOMAIN ks = 1 .. Len(ks),
         \A i \in DOMAIN ks : ks[i] \notin g /\ \A j \in 1 .. i - 1 : ks[j] # ks[i]
  PROVE  /\ Cardinality(KeysOf(ks)) = Len(ks)
         /\ Cardinality(KeysOf(ks) \ g) = Len(ks)
<1>1. CASE Len(ks) = 3
  <2>1. DOMAIN ks = {1, 2, 3}
    BY <1>1
  <2>2. KeysOf(ks) = {ks[1], ks[2], ks[3]}
    BY <2>1 DEF KeysOf
  <2>6. KeysOf(ks) \ g = {ks[1], ks[2], ks[3]}
    BY <2>1, <2>2
  <2>3. 2 \in DOMAIN ks /\ 3 \in DOMAIN ks /\ 1 \in 1 .. 2 - 1 /\ 1 \in 1 .. 3 - 1 /\ 2 \in 1 .. 3 - 1
    BY <2>1
  <2>4. ks[1] # ks[2] /\ ks[1] # ks[3] /\ ks[2] # ks[3]
    BY <2>3, Zenon
  <2>5. Cardinality({ks[1], ks[2], ks[3]}) = 3
    BY <2>4, ThreeDistinct
  <2> QED BY <1>1, <2>2, <2>5, <2>6, Zenon
<1>2. CASE Len(ks) = 1
  <2>1. DOMAIN ks = {1}
    BY <1>2
  <2>2. KeysOf(ks) = {ks[1]}
    BY <2>1 DEF KeysOf
  <2>4. KeysOf(ks) \ g = {ks[1]}
    BY <2>1, <2>2
  <2>3. Cardinality({ks[1]}) = 1
    BY FS_Singleton
  <2> QED BY <1>2, <2>2, <2>3, <2>4, Zenon
<1> QED BY <1>1, <1>2

(* A profile that validates without test keys has safe vaults: the checks  *)
(* of validateMainnetProfile suffice.                                      *)
LEMMA ValidIsSafe ==
  ASSUME NEW p, validateMainnetProfile(p, FALSE),
         Len(p.pubkeys) \in Nat, DOMAIN p.pubkeys = 1 .. Len(p.pubkeys)
  PROVE  SafeVaults(p)
<1>0. RecoveryOk(p) /\ FeesOk(p) /\ NoTestKeys(p) /\ p.guardian \subseteq OnCurve
  BY DEF validateMainnetProfile, Decided
<1> PICK ks : ks = p.pubkeys
  OBVIOUS
<1> PICK g : g = p.guardian
  OBVIOUS
<1>1. \A i \in DOMAIN ks : ks[i] \in OnCurve /\ ks[i] \notin g /\ \A j \in 1 .. i - 1 : ks[j] # ks[i]
  BY <1>0, Zenon DEF RecoveryOk, isXOnlyKey
<1>2. g \cap TestKeys = {} /\ \A i \in DOMAIN ks : ks[i] \notin TestKeys
  BY <1>0, Zenon DEF NoTestKeys
<1>3. KeysOf(ks) \cup g \subseteq OnCurve \ TestKeys
  BY <1>0, <1>1, <1>2, Zenon DEF KeysOf
<1>4. p.feeScript # {} /\ p.feeScript \cap TestScripts = {}
  <2>1. Cardinality(p.feeScript) = 1 /\ p.feeScript \cap TestScripts = {}
    BY <1>0, Zenon DEF FeesOk, NoTestKeys
  <2>2. p.feeScript # {}
    BY <2>1, OneIsSome
  <2> QED BY <2>1, <2>2
<1>5. <<p.threshold, Len(ks)>> \in {<<2, 3>>, <<1, 1>>}
  BY <1>0, Zenon DEF RecoveryOk
<1>6. (p.threshold = 2 /\ Len(ks) = 3) \/ (p.threshold = 1 /\ Len(ks) = 1)
  BY <1>5
<1>7. Cardinality(KeysOf(ks)) = Len(ks) /\ Cardinality(KeysOf(ks) \ g) = Len(ks)
  <2>1. DOMAIN ks = 1 .. Len(ks) /\ (Len(ks) = 3 \/ Len(ks) = 1)
    BY <1>6
  <2>2. \A i \in DOMAIN ks : ks[i] \notin g /\ \A j \in 1 .. i - 1 : ks[j] # ks[i]
    BY <1>1
  <2> QED BY <2>1, <2>2, RecoveryCount
<1>8. Cardinality(KeysOf(ks) \ g) >= p.threshold
  <2>1. 3 >= 2 /\ 1 >= 1
    OBVIOUS
  <2> QED BY <1>6, <1>7, <2>1, Zenon
<1> QED BY <1>3, <1>4, <1>7, <1>8, Zenon DEF SafeVaults, KeysOf

(* An app that boots on mainnet, and a Guardian that does.                 *)
LEMMA AppIsSafe ==
  ASSUME NEW e \in AppEnvs, AppBoots(e), e.network = "mainnet"
  PROVE  SafeVaults(committedMainnetProfile(e)) /\ e.keys = {}
<1>1. e.keys = {} /\ CommittedParses(e) /\ validateMainnetProfile(committedMainnetProfile(e), FALSE)
  BY DEF AppBoots, MainnetAppBoots
<1>2. e.commit \in DOMAIN CommittedJson
  BY EnvAssumption
<1> QED BY <1>1, <1>2, CommittedFields, ValidIsSafe

LEMMA GuardianIsSafe ==
  ASSUME NEW e \in GuardianEnvs, GuardianBoots(e), e.network = "mainnet"
  PROVE  /\ SafeVaults(resolveMainnetProfile(e))
         /\ CustodyKey(e) = resolveMainnetProfile(e).guardian
<1> PICK p : p = committedMainnetProfile(e)
  OBVIOUS
<1>1. e.testPath = {} /\ CommittedParses(e)
  BY DEF GuardianBoots, ProfileResolves
<1>2. resolveMainnetProfile(e) = p
  BY <1>1 DEF resolveMainnetProfile
<1>3. validateMainnetProfile(p, FALSE)
  BY <1>1, <1>2 DEF GuardianBoots
<1>4. e.commit \in DOMAIN CommittedJson
  BY EnvAssumption
<1>5. /\ \A x, y \in p.guardian : x = y
      /\ Len(p.pubkeys) \in Nat /\ DOMAIN p.pubkeys = 1 .. Len(p.pubkeys)
  BY <1>1, <1>4, CommittedFields
<1>6. SafeVaults(p)
  BY <1>3, <1>5, ValidIsSafe
<1>7. CustodyKey(e) # {} /\ CustodyKey(e) \subseteq p.guardian
  BY <1>2 DEF GuardianBoots, CustodySelects, CustodyKey
<1>8. CustodyKey(e) = p.guardian
  <2> PICK g, c : g = p.guardian /\ c = CustodyKey(e)
    OBVIOUS
  <2>1. c # {} /\ c \subseteq g /\ \A x, y \in g : x = y
    BY <1>5, <1>7
  <2>2. c = g
    BY <2>1
  <2> QED BY <2>2
<1> QED BY <1>2, <1>6, <1>8

(* The boot gates together: what runs on mainnet is safe.                  *)
LEMMA RunsSafely == ProcOK => MainnetRuns
<1> SUFFICES ASSUME ProcOK, NEW s \in Services, Mainnet(s)
             PROVE  /\ SafeVaults(ProfileOf(s))
                    /\ IF s \in Apps THEN proc[s].env.keys = {}
                       ELSE CustodyKey(proc[s].env) = ProfileOf(s).guardian
  BY DEF MainnetRuns
<1>1. proc[s].up /\ proc[s].env.network = "mainnet"
  BY DEF Mainnet
<1>2. proc[s] # Down
  BY <1>1 DEF Down
<1>3. Process(s, proc[s])
  BY DEF ProcOK
<1>4. PICK e \in EnvOf(s), w \in BOOLEAN :
        /\ proc[s] = [up |-> TRUE, env |-> e, watching |-> w]
        /\ Boots(s, e)
  BY <1>2, <1>3 DEF Process
<1>5. proc[s].env = e /\ e.network = "mainnet"
  BY <1>1, <1>4
<1>6. CASE s \in Apps
  <2>1. e \in AppEnvs /\ AppBoots(e) /\ s # "guardian"
    BY <1>4, <1>6 DEF EnvOf, Boots, Apps
  <2> QED BY <1>5, <1>6, <2>1, AppIsSafe DEF ProfileOf
<1>7. CASE s \notin Apps
  <2>1. e \in GuardianEnvs /\ GuardianBoots(e) /\ s = "guardian"
    BY <1>4, <1>7 DEF EnvOf, Boots, Services
  <2> QED BY <1>5, <1>7, <2>1, GuardianIsSafe DEF ProfileOf
<1> QED BY <1>6, <1>7

LEMMA InvType == DeployInv => TypeOK
<1> SUFFICES ASSUME DeployInv PROVE TypeOK
  OBVIOUS
<1>1. ASSUME NEW s \in Services, proc[s] # Down
      PROVE  /\ proc[s].env \in EnvOf(s)
             /\ proc[s].watching => Mainnet(s) /\ s \in Apps
  <2>1. PICK e \in EnvOf(s), w \in BOOLEAN :
          /\ proc[s] = [up |-> TRUE, env |-> e, watching |-> w]
          /\ w => s \in Apps /\ e.network = "mainnet"
    BY <1>1 DEF DeployInv, ProcOK, Process
  <2>2. proc[s].up /\ proc[s].env = e /\ proc[s].watching = w
    BY <2>1
  <2> QED BY <2>1, <2>2 DEF Mainnet
<1> QED BY <1>1 DEF DeployInv, ProcOK, HealthOK, SessOK, RestOK, TypeOK, EnvOf

-----------------------------------------------------------------------------
(* The steps *)

LEMMA DeployInit == Init => DeployInv
<1> SUFFICES ASSUME Init PROVE DeployInv
  OBVIOUS
<1>1. ProcOK
  BY DEF Init, ProcOK, Process
<1>2. HealthOK
  BY DEF Init, HealthOK, NoAnswer
<1>3. SessOK /\ SentAgreed
  BY DEF Init, SessOK, NoSession, SentAgreed
<1>4. RestOK
  BY DeployAssumption DEF Init, RestOK
<1> QED BY <1>1, <1>2, <1>3, <1>4 DEF DeployInv

(* A service that stops loses its answers: those of the others, and the    *)
(* session, stay right.                                                    *)
LEMMA StopKeeps ==
  ASSUME DeployInv, NEW s \in Services, Stop(s),
         DOMAIN proc' = Services, \A t \in Services \ {s} : proc'[t] = proc[t]
  PROVE  HealthOK' /\ SessOK'
<1>1. /\ DOMAIN health' = Services /\ health'[s] = NoAnswer
      /\ \A t \in Services \ {s} : health'[t] = health[t]
  BY DEF Stop, DeployInv, HealthOK
<1>2. HealthOK'
  <2> SUFFICES ASSUME NEW t \in Services, health'[t].up
               PROVE  proc'[t].up /\ proc'[t].watching
    BY <1>1 DEF HealthOK
  <2>1. t # s
    BY <1>1 DEF NoAnswer
  <2> QED BY <1>1, <2>1 DEF DeployInv, HealthOK
<1>3. SessOK'
  BY DEF Stop, DeployInv, SessOK
<1> QED BY <1>2, <1>3

LEMMA DeployStep ==
  ASSUME DeployInv, NEW s \in Services, NEW e \in EnvOf(s), Deploy(s, e)
  PROVE  DeployInv'
<1>1. /\ DOMAIN proc' = Services
      /\ proc'[s] = IF Boots(s, e) THEN Running(s, e) ELSE Down
      /\ \A t \in Services \ {s} : proc'[t] = proc[t]
  BY DEF Deploy, DeployInv, ProcOK
<1>2. Process(s, proc'[s])
  <2>1. CASE Boots(s, e)
    <3>1. proc'[s] = Running(s, e)
      BY <1>1, <2>1
    <3>2. \E w \in BOOLEAN : /\ proc'[s] = [up |-> TRUE, env |-> e, watching |-> w]
                             /\ w => s \in Apps /\ e.network = "mainnet"
      BY <3>1 DEF Running
    <3> QED BY <2>1, <3>2 DEF Process
  <2>2. CASE ~ Boots(s, e)
    BY <1>1, <2>2 DEF Process
  <2> QED BY <2>1, <2>2
<1>3. \A t \in Services : Process(t, proc'[t])
  BY <1>1, <1>2 DEF DeployInv, ProcOK
<1>4. ProcOK'
  BY <1>1, <1>3 DEF ProcOK, Process
<1>5. HealthOK' /\ SessOK'
  BY <1>1, StopKeeps DEF Deploy
<1>6. SentAgreed'
  BY DEF Deploy, DeployInv, SentAgreed
<1>7. RestOK'
  BY DeployAssumption DEF Deploy, DeployInv, RestOK
<1> QED BY <1>4, <1>5, <1>6, <1>7 DEF DeployInv

LEMMA AskHealthStep ==
  ASSUME DeployInv, NEW s \in Apps, AskHealth(s)
  PROVE  DeployInv'
<1>1. /\ DOMAIN health' = Services
      /\ \A t \in Services \ {s} : health'[t] = health[t]
  BY DEF AskHealth, DeployInv, HealthOK
<1>2. HealthOK'
  <2> SUFFICES ASSUME NEW t \in Services, health'[t].up
               PROVE  proc[t].up /\ proc[t].watching
    BY <1>1 DEF HealthOK, AskHealth
  <2>1. CASE t = s
    BY <2>1 DEF AskHealth
  <2>2. CASE t # s
    BY <1>1, <2>2 DEF DeployInv, HealthOK
  <2> QED BY <2>1, <2>2
<1> QED BY <1>2 DEF AskHealth, DeployInv, ProcOK, Process, SessOK, SentAgreed, RestOK

LEMMA StopWatching ==
  ASSUME NEW u, NEW e, NEW w, NEW v
  PROVE  [[up |-> u, env |-> e, watching |-> w] EXCEPT !.watching = v]
           = [up |-> u, env |-> e, watching |-> v]
  OBVIOUS

LEMMA CompareHealthStep ==
  ASSUME DeployInv, NEW s \in Apps, CompareHealth(s)
  PROVE  DeployInv'
<1>0. s \in Services
  BY DEF Services
<1>1. SentAgreed' /\ RestOK'
  BY DEF CompareHealth, DeployInv, SentAgreed, RestOK
<1>2. CASE health[s].hash = hashMainnetProfile(ProfileOf(s))
  <2>1. /\ proc' = [proc EXCEPT ![s].watching = FALSE]
        /\ health' = [health EXCEPT ![s] = NoAnswer] /\ sess' = sess
    BY <1>2 DEF CompareHealth
  <2>2. /\ DOMAIN proc' = Services /\ DOMAIN health' = Services
        /\ proc'[s] = [proc[s] EXCEPT !.watching = FALSE] /\ health'[s] = NoAnswer
        /\ \A t \in Services \ {s} : proc'[t] = proc[t] /\ health'[t] = health[t]
    BY <1>0, <2>1 DEF DeployInv, ProcOK, HealthOK
  <2>3. proc[s] # Down
    BY DEF CompareHealth, Down
  <2>4. PICK e \in EnvOf(s), w \in BOOLEAN :
          proc[s] = [up |-> TRUE, env |-> e, watching |-> w] /\ Boots(s, e)
    BY <1>0, <2>3 DEF DeployInv, ProcOK, Process
  <2>5. proc'[s] = [up |-> TRUE, env |-> e, watching |-> FALSE]
    <3>1. [[up |-> TRUE, env |-> e, watching |-> w] EXCEPT !.watching = FALSE]
            = [up |-> TRUE, env |-> e, watching |-> FALSE]
      BY StopWatching
    <3> QED BY <2>2, <2>4, <3>1, Zenon
  <2>6. Process(s, proc'[s])
    BY <2>4, <2>5 DEF Process
  <2>7. \A t \in Services : Process(t, proc'[t])
    BY <2>2, <2>6 DEF DeployInv, ProcOK
  <2>8. ProcOK'
    BY <2>2, <2>7 DEF ProcOK, Process
  <2>9. HealthOK'
    <3> SUFFICES ASSUME NEW t \in Services, health'[t].up
                 PROVE  proc'[t].up /\ proc'[t].watching
      BY <2>2 DEF HealthOK
    <3>1. t # s
      BY <2>2 DEF NoAnswer
    <3> QED BY <2>2, <3>1 DEF DeployInv, HealthOK
  <2>10. SessOK'
    BY <2>1 DEF DeployInv, SessOK
  <2> QED BY <1>1, <2>8, <2>9, <2>10 DEF DeployInv
<1>3. CASE health[s].hash # hashMainnetProfile(ProfileOf(s))
  <2>1. proc' = [proc EXCEPT ![s] = Down] /\ Stop(s)
    BY <1>3 DEF CompareHealth
  <2>2. /\ DOMAIN proc' = Services /\ proc'[s] = Down
        /\ \A t \in Services \ {s} : proc'[t] = proc[t]
    BY <1>0, <2>1 DEF DeployInv, ProcOK
  <2>3. \A t \in Services : Process(t, proc'[t])
    BY <2>2 DEF DeployInv, ProcOK, Process
  <2>4. ProcOK'
    BY <2>2, <2>3 DEF ProcOK, Process
  <2>5. HealthOK' /\ SessOK'
    BY <1>0, <2>1, <2>2, StopKeeps
  <2> QED BY <1>1, <2>4, <2>5 DEF DeployInv
<1> QED BY <1>2, <1>3

(* Only Ask puts an answer into the session and only Receive broadcasts.   *)
LEMMA TradeStep ==
  ASSUME DeployInv, Trade
  PROVE  DeployInv'
<1>1. UNCHANGED <<proc, health, cores, tool, deploys>>
  BY DEF Trade, Build, Ask, LoseAnswer, Receive, Broadcast, Expire
<1>2. ProcOK' /\ HealthOK' /\ RestOK'
  BY <1>1 DEF DeployInv, ProcOK, Process, HealthOK, RestOK
<1>3. ASSUME NEW t, NEW w, Build(t, w) PROVE SessOK' /\ SentAgreed'
  BY <1>3 DEF Build, DeployInv, SessOK, SentAgreed
<1>4. ASSUME Ask PROVE SessOK' /\ SentAgreed'
  <2>1. PICK p : p = ProfileOf("guardian")
    OBVIOUS
  <2>2. /\ GuardianSigns(p, sess.tx) /\ sent' = sent
        /\ sess' = [st |-> "answered", tx |-> sess.tx, hash |-> p,
                    key |-> CustodyKey(proc["guardian"].env)]
    BY <1>4, <2>1 DEF Ask, hashMainnetProfile
  <2>3. sess'.st = "answered" /\ sess'.tx = sess.tx /\ sess'.hash = p
    BY <2>2
  <2> QED BY <2>2, <2>3 DEF DeployInv, SessOK, SentAgreed
<1>5. ASSUME LoseAnswer \/ Expire PROVE SessOK' /\ SentAgreed'
  BY <1>5 DEF LoseAnswer, Expire, NoSession, DeployInv, SessOK, SentAgreed
<1>6. ASSUME Receive PROVE SessOK' /\ SentAgreed'
  <2>1. SessOK'
    BY <1>6 DEF Receive, NoSession, SessOK
  <2>2. CASE sent' = sent
    BY <2>1, <2>2 DEF DeployInv, SentAgreed
  <2>3. CASE sent' # sent
    <3> PICK p, tx, key : p = sess.hash /\ tx = sess.tx /\ key = sess.key
      OBVIOUS
    <3>1. /\ sess.st = "answered" /\ p = ProfileOf("web") /\ key = p.guardian
          /\ sent' = sent \cup {[tx |-> tx, web |-> p, signer |-> p, key |-> key]}
      BY <1>6, <2>3 DEF Receive, Broadcast, hashMainnetProfile
    <3>2. GuardianSigns(p, tx)
      BY <3>1 DEF DeployInv, SessOK
    <3>3. TxOf(p, tx.trade) = tx /\ checkRiskPolicy(p, tx.trade)
      BY <3>2 DEF GuardianSigns
    <3>4. key = tx.guardian
      BY <3>1, <3>3 DEF TxOf
    <3>5. ASSUME NEW x \in sent'
          PROVE  /\ x.web = x.signer /\ x.key = x.tx.guardian
                 /\ TxOf(x.signer, x.tx.trade) = x.tx
                 /\ checkRiskPolicy(x.signer, x.tx.trade)
      <4>1. CASE x \in sent
        BY <4>1 DEF DeployInv, SentAgreed
      <4>2. CASE x = [tx |-> tx, web |-> p, signer |-> p, key |-> key]
        <5>1. x.tx = tx /\ x.web = p /\ x.signer = p /\ x.key = key
          BY <4>2
        <5> QED BY <3>3, <3>4, <5>1
      <4> QED BY <3>1, <3>5, <4>1, <4>2
    <3>6. SentAgreed'
      BY <3>5, Zenon DEF SentAgreed
    <3> QED BY <2>1, <3>6
  <2> QED BY <2>1, <2>2, <2>3
<1>7. SessOK' /\ SentAgreed'
  BY <1>3, <1>4, <1>5, <1>6 DEF Trade
<1> QED BY <1>2, <1>7 DEF DeployInv

LEMMA ToolStep ==
  ASSUME DeployInv, Tool
  PROVE  DeployInv'
<1>1. UNCHANGED <<proc, health, sess, sent, deploys>>
  BY DEF Tool, CoresMove, ProbeCores, ProbeWorker, Report
<1>2. cores' \in BOOLEAN /\ tool'.at \in {"idle", "worker", "guardian"}
  <2>1. CASE CoresMove
    BY <2>1 DEF CoresMove, DeployInv, RestOK
  <2>2. CASE ProbeCores
    BY <2>2 DEF ProbeCores, DeployInv, RestOK
  <2>3. CASE ProbeWorker
    BY <2>3 DEF ProbeWorker, DeployInv, RestOK
  <2>4. ASSUME NEW e, NEW path, Report(e, path) PROVE cores' \in BOOLEAN /\ tool'.at \in {"idle", "worker", "guardian"}
    <3>1. PICK x : tool' = [at |-> "idle", report |-> x]
      BY <2>4 DEF Report
    <3>2. tool'.at = "idle"
      BY <3>1
    <3> QED BY <2>4, <3>2 DEF Report, DeployInv, RestOK
  <2> QED BY <2>1, <2>2, <2>3, <2>4 DEF Tool
<1> QED BY <1>1, <1>2 DEF DeployInv, ProcOK, Process, HealthOK, SessOK, SentAgreed, RestOK

LEMMA InvStep == DeployInv /\ [Next]_vars => DeployInv'
<1> SUFFICES ASSUME DeployInv, [Next]_vars PROVE DeployInv'
  OBVIOUS
<1>1. ASSUME Deploys PROVE DeployInv'
  <2>1. ASSUME NEW s \in Apps, NEW e \in AppEnvs, Deploy(s, e) PROVE DeployInv'
    BY <2>1, DeployStep DEF Services, EnvOf
  <2>2. ASSUME NEW e \in GuardianEnvs, Deploy("guardian", e) PROVE DeployInv'
    BY <2>2, DeployStep DEF Services, EnvOf, Apps
  <2> QED BY <1>1, <2>1, <2>2 DEF Deploys
<1>2. ASSUME NEW s \in Apps, Watch(s) PROVE DeployInv'
  BY <1>2, AskHealthStep, CompareHealthStep DEF Watch
<1>3. CASE UNCHANGED vars
  BY <1>3 DEF vars, DeployInv, ProcOK, Process, HealthOK, SessOK, SentAgreed, RestOK
<1> QED BY <1>1, <1>2, <1>3, TradeStep, ToolStep DEF Next

(* Whatever is deployed, in whatever order, from whatever commits and      *)
(* environments: the services that run on mainnet have passed boot gates   *)
(* that make their vaults safe and their keys the ones the vaults name,    *)
(* and every transition they broadcast was accepted by a web app and       *)
(* signed by a Guardian with one and the same profile.                     *)
THEOREM DeploymentIsSafe == Spec => []ServicesSafe
<1>1. DeployInv => ServicesSafe
  BY InvType, RunsSafely DEF DeployInv, ServicesSafe
<1> QED BY <1>1, DeployInit, InvStep, PTL DEF Spec

-----------------------------------------------------------------------------
(* What the readiness tool resolves has its keys in a sequence.            *)
LEMMA ToolFields ==
  ASSUME NEW e \in AppEnvs, NEW path \in TestPaths, ProfileResolves(ToolEnv(e, path))
  PROVE  LET p == resolveMainnetProfile(ToolEnv(e, path))
         IN Len(p.pubkeys) \in Nat /\ DOMAIN p.pubkeys = 1 .. Len(p.pubkeys)
<1> PICK t : t = ToolEnv(e, path)
  OBVIOUS
<1>1. t.testPath = path /\ t.commit = e.commit /\ t.commit \in DOMAIN CommittedJson
  BY EnvAssumption DEF ToolEnv
<1>2. CASE path = {}
  <2>1. CommittedParses(t) /\ resolveMainnetProfile(t) = committedMainnetProfile(t)
    BY <1>1, <1>2 DEF ProfileResolves, resolveMainnetProfile
  <2> QED BY <1>1, <2>1, CommittedFields
<1>3. CASE path # {}
  <2>1. PICK f \in DOMAIN TestJson : path = {f}
    BY <1>3 DEF TestPaths
  <2>2. (CHOOSE x \in path : TRUE) = f
    BY <2>1
  <2>3. Parses(TestJson[f]) /\ resolveMainnetProfile(t) = parseMainnetProfileJson(TestJson[f])
    BY <1>1, <1>3, <2>1, <2>2 DEF ProfileResolves, resolveMainnetProfile
  <2> QED BY <2>3, TestFields
<1> QED BY <1>2, <1>3

(* computeMainnetReadiness compares hashes and keys, not networks and not  *)
(* what the Guardian holds.  Still READY is said only of a Guardian that   *)
(* runs the approved profile at that moment, with safe vaults, and if it   *)
(* has that profile from its commit then it runs on mainnet and holds the  *)
(* key: its own boot gates make up for what the report does not ask.       *)
THEOREM ReadinessIsHonest == Spec => ReadyIsApproved
<1> DEFINE Honest ==
      tool.at = "guardian" /\ tool'.at = "idle" /\ tool'.report = "READY" =>
        /\ proc["guardian"].up /\ ProfileOf("guardian") = Approved
        /\ SafeVaults(Approved)
        /\ \/ Mainnet("guardian") /\ CustodyKey(proc["guardian"].env) = Approved.guardian
           \/ proc["guardian"].env.testPath # {}
<1>1. ASSUME DeployInv, [Next]_vars, tool.at = "guardian", tool'.at = "idle",
             tool'.report = "READY"
      PROVE  /\ proc["guardian"].up /\ ProfileOf("guardian") = Approved
             /\ SafeVaults(Approved)
             /\ \/ Mainnet("guardian") /\ CustodyKey(proc["guardian"].env) = Approved.guardian
                \/ proc["guardian"].env.testPath # {}
  <2>1. tool' # tool
    BY <1>1
  <2>2. Tool
    BY <1>1, <2>1 DEF Next, vars, Deploys, Deploy, Watch, AskHealth, CompareHealth, Trade,
                      Build, Ask, LoseAnswer, Receive, Expire
  <2>3. PICK e \in AppEnvs, path \in TestPaths : Report(e, path)
    BY <1>1, <2>1, <2>2 DEF Tool, CoresMove, ProbeCores, ProbeWorker
  <2> PICK p : p = resolveMainnetProfile(ToolEnv(e, path))
    OBVIOUS
  <2>4. PICK journal \in BOOLEAN :
          tool' = [at |-> "idle", report |-> Readiness(p, proc["guardian"], journal)]
    BY <2>3 DEF Report
  <2>5. Readiness(p, proc["guardian"], journal) = "READY"
    BY <1>1, <2>4
  <2>6. /\ validateMainnetProfile(p, FALSE) /\ p = Approved /\ proc["guardian"].up
        /\ resolveMainnetProfile(proc["guardian"].env) = Approved
    BY <2>5 DEF Readiness, hashMainnetProfile
  <2>7. Len(p.pubkeys) \in Nat /\ DOMAIN p.pubkeys = 1 .. Len(p.pubkeys)
    BY <2>3, ToolFields DEF Report
  <2>8. SafeVaults(Approved)
    BY <2>6, <2>7, ValidIsSafe
  <2>9. proc["guardian"] # Down /\ "guardian" \in Services
    BY <2>6 DEF Down, Services
  <2>10. PICK f \in EnvOf("guardian"), w \in BOOLEAN :
           proc["guardian"] = [up |-> TRUE, env |-> f, watching |-> w] /\ Boots("guardian", f)
    BY <1>1, <2>9 DEF DeployInv, ProcOK, Process
  <2>11. f \in GuardianEnvs /\ GuardianBoots(f) /\ proc["guardian"].env = f
    BY <2>10 DEF EnvOf, Apps, Boots
  <2>12. ASSUME f.testPath = {}
         PROVE  Mainnet("guardian") /\ CustodyKey(f) = Approved.guardian
    <3>1. f.network = "mainnet"
      BY <2>11, <2>12 DEF GuardianBoots
    <3>2. Mainnet("guardian")
      BY <2>6, <2>11, <3>1 DEF Mainnet
    <3>3. CustodyKey(f) = resolveMainnetProfile(f).guardian
      BY <2>11, <3>1, GuardianIsSafe
    <3> QED BY <2>6, <2>11, <3>2, <3>3
  <2>13. ProfileOf("guardian") = Approved
    BY <2>6 DEF ProfileOf
  <2> QED BY <2>6, <2>8, <2>11, <2>12, <2>13
<1>2. DeployInv /\ [Next]_vars => Honest
  BY <1>1
<1> QED BY <1>2, DeployInit, InvStep, PTL DEF Spec, ReadyIsApproved

-----------------------------------------------------------------------------
(* The configuration of the V1 services *)

(* A service runs with what validateConfig let pass.                       *)
ConfigInv ==
  /\ \A c \in services : \E e : V!Loads(e) /\ c = V!loadConfig(e) /\ V!validateConfig(c)
  /\ \A c \in canary : c.coveFlags = {}

(* A start keeps to what validateConfig let pass.                          *)
LEMMA ConfigStep == ConfigInv /\ [V!Next]_V!vars => ConfigInv'
  BY DEF ConfigInv, V!Next, V!vars, V!Start, V!StartCanary

(* What validateConfig let pass makes the gates agree.                     *)
LEMMA GateHolds == ConfigInv => V!GateAgrees
<1> SUFFICES ASSUME ConfigInv PROVE V!GateAgrees
  OBVIOUS
<1>1. ASSUME NEW c \in services
      PROVE  /\ V!coveMainnetActivationStage(c) # "READ_ONLY" =>
                  /\ \A op \in V!CanaryTx : c.txids[op] \in Txid
                  /\ c.genesis \subseteq Nat \ {0} /\ c.genesis # {}
                  /\ c.stateRoot = c.replayRoot /\ c.stateRoot \in Txid
             /\ V!coveMainnetActivationStage(c) = "READ_ONLY" => c.coveFlags = {}
             /\ \A seen \in V!Health :
                  /\ V!writeModeLabel(c, seen) = "enabled" <=> \E op \in V!CrcFlags : V!canWriteMainnet(c, op, seen)
                  /\ V!productMode(c) = "CANONICAL_CRC" /\ (\E op \in V!CrcFlags : V!canWriteMainnet(c, op, seen)) =>
                       V!isDecodableAddress(c.treasury, "mainnet")
             /\ c.treasury # "" /\ V!productMode(c) # "DEMO" => ~V!isDecodableAddress(c.treasury, "testnet")
  <2>1. PICK e : V!Loads(e) /\ c = V!loadConfig(e) /\ V!validateConfig(c)
    BY DEF ConfigInv
  <2>2. c.genesis = {} \/ \E n \in Int : c.genesis = {n}
    <3>1. c.genesis = V!bigintOrNull(e.genesis)
      BY <2>1 DEF V!loadConfig
    <3> QED BY <2>1, <3>1, RehearsalAssumption DEF V!bigintOrNull, V!Loads
  <2>3. /\ c.network = IF e.network = "" THEN "mock" ELSE V!parseNetwork(e.network)
        /\ c.flags = {op \in V!CrcFlags : V!bool(e.crc[op])}
    BY <2>1 DEF V!loadConfig
  <2>4. c.network \in {"mock", "test", "mainnet", "mainnet-read-only"}
    BY <2>1, <2>3 DEF V!Loads, V!Known, V!parseNetwork
  <2>5. c.flags \subseteq V!CrcFlags
    BY <2>3
  <2>6. V!coveMainnetActivationStage(c) # "READ_ONLY" <=> c.mainnetEnabled
    BY DEF V!coveMainnetActivationStage
  <2>7. c.mainnetEnabled => V!isCoveMainnetCanaryAsserted(c)
    BY <2>1 DEF V!validateConfig
  <2>8. V!isCoveMainnetCanaryAsserted(c) =>
          /\ \A op \in V!CanaryTx : c.txids[op] \in Txid
          /\ c.genesis \subseteq Nat \ {0} /\ c.genesis # {}
          /\ c.stateRoot = c.replayRoot /\ c.stateRoot \in Txid
    BY <2>2 DEF V!isCoveMainnetCanaryAsserted
  <2>9. ~c.mainnetEnabled => c.coveFlags = {}
    BY <2>1 DEF V!validateConfig
  <2>10. ASSUME NEW seen \in V!Health
         PROVE  V!writeModeLabel(c, seen) = "enabled" <=> \E op \in V!CrcFlags : V!canWriteMainnet(c, op, seen)
    BY <2>5 DEF V!writeModeLabel, V!canWriteMainnet
  <2>11. ASSUME NEW seen \in V!Health, V!productMode(c) = "CANONICAL_CRC",
                NEW op \in V!CrcFlags, V!canWriteMainnet(c, op, seen)
         PROVE  V!isDecodableAddress(c.treasury, "mainnet")
    <3>1. c.network = "mainnet"
      BY <2>4, <2>11 DEF V!productMode
    <3>2. c.flags # {}
      BY <2>11 DEF V!canWriteMainnet
    <3> QED BY <2>1, <3>1, <3>2 DEF V!validateConfig, V!isMainnetNetwork
  <2>12. c.treasury # "" /\ V!productMode(c) # "DEMO" => ~V!isDecodableAddress(c.treasury, "testnet")
    <3>1. SUFFICES ASSUME c.treasury # "", V!productMode(c) # "DEMO"
                   PROVE  ~V!isDecodableAddress(c.treasury, "testnet")
      OBVIOUS
    <3>2. c.network \in {"mainnet", "mainnet-read-only"}
      BY <2>4, <3>1 DEF V!productMode
    <3>3. V!isDecodableAddress(c.treasury, "mainnet")
      BY <2>1, <3>1, <3>2 DEF V!validateConfig, V!isMainnetNetwork
    <3> QED BY <3>3 DEF V!isDecodableAddress
  <2> QED BY <2>6, <2>7, <2>8, <2>9, <2>10, <2>11, <2>12
<1>2. \A c \in canary : V!coveMainnetActivationStage(c) # "PUBLIC_WRITES"
  BY DEF ConfigInv, V!coveMainnetActivationStage
<1> QED BY <1>1, <1>2 DEF V!GateAgrees

(* At first no service runs.                                               *)
LEMMA ConfigInit == V!Init => ConfigInv
  BY DEF V!Init, ConfigInv

(* The configuration and the gates that read it agree: whatever is opened  *)
(* to the public rests on the record of a complete canary.                 *)
THEOREM ConfigGateAgrees == V!Spec => []V!GateAgrees
<1>1. ConfigInv /\ [V!Next]_V!vars => ConfigInv'
  BY ConfigStep
<1>2. ConfigInv => V!GateAgrees
  BY GateHolds
<1> QED BY <1>1, <1>2, ConfigInit, PTL DEF V!Spec


-----------------------------------------------------------------------------
(* The rehearsals *)

(* The state of the V1 index: its height, and the operations it found      *)
(* valid, which it keeps.                                                  *)
IsIndex(st) ==
  /\ st = [h |-> st.h, dep |-> st.dep, supply |-> st.supply, a |-> st.a, b |-> st.b, valid |-> st.valid]
  /\ st.h \in Nat
Block(b) == b = <<>> \/ \E t : b = <<t>> /\ t.op \in P!Ops
IsChain(c) == \E S : c \in Seq(S) /\ \A b \in S : Block(b)

(* processTx leaves the height and forgets no valid operation.             *)
LEMMA Tallied ==
  ASSUME NEW st, IsIndex(st), NEW t, t.op \in P!Ops, NEW s, s = P!processTx(st, t)
  PROVE  IsIndex(s) /\ s.h = st.h /\ st.valid \subseteq s.valid
<1>1. CASE ~P!validateCoveOperation(st, t)
  <2>1. s = st
    BY <1>1 DEF P!processTx
  <2> QED BY <2>1
<1>2. CASE P!validateCoveOperation(st, t)
  <2>1. PICK v : v = st.valid \cup {t}
    OBVIOUS
  <2>2. PICK u : u = [st EXCEPT !.valid = v]
    OBVIOUS
  <2>3. IsIndex(u) /\ u.h = st.h /\ u.valid = v
    BY <2>2 DEF IsIndex
  <2>4. u = [st EXCEPT !.valid = @ \cup {t}]
    BY <2>1, <2>2, Zenon
  <2>5. CASE t.op = "DEPLOY"
    <3>1. PICK d : d = {t}
      OBVIOUS
    <3>2. s = [u EXCEPT !.dep = d]
      BY <1>2, <2>4, <2>5, <3>1 DEF P!processTx
    <3>3. IsIndex(s) /\ s.h = u.h /\ s.valid = u.valid
      BY <2>3, <3>2 DEF IsIndex
    <3> QED BY <2>1, <2>3, <3>3
  <2>6. CASE t.op = "MINT"
    <3>1. PICK m, a : /\ m = u.supply + P!AmountOf(t)
                      /\ a = IF t.by = "us" THEN u.a + P!AmountOf(t) ELSE u.a
      OBVIOUS
    <3>2. s = [u EXCEPT !.supply = m, !.a = a]
      BY <1>2, <2>4, <2>6, <3>1 DEF P!processTx
    <3>3. IsIndex(s) /\ s.h = u.h /\ s.valid = u.valid
      BY <2>3, <3>2 DEF IsIndex
    <3> QED BY <2>1, <2>3, <3>3
  <2>7. CASE t.op = "TRANSFER"
    <3>1. PICK a, b : a = u.a - TransferAmount /\ b = u.b + TransferAmount
      OBVIOUS
    <3>2. s = [u EXCEPT !.a = a, !.b = b]
      BY <1>2, <2>4, <2>7, <3>1 DEF P!processTx
    <3>3. IsIndex(s) /\ s.h = u.h /\ s.valid = u.valid
      BY <2>3, <3>2 DEF IsIndex
    <3> QED BY <2>1, <2>3, <3>3
  <2> QED BY <2>5, <2>6, <2>7 DEF P!Ops
<1> QED BY <1>1, <1>2

(* One block: a height more, and nothing forgotten.                        *)
LEMMA BlockIndexed ==
  ASSUME NEW st, IsIndex(st), NEW b, Block(b), NEW s, s = P!indexBlock(st, b)
  PROVE  IsIndex(s) /\ s.h = st.h + 1 /\ st.valid \subseteq s.valid
<1>1. PICK k : k = st.h + 1
  OBVIOUS
<1>2. PICK u : u = [st EXCEPT !.h = k]
  OBVIOUS
<1>3. IsIndex(u) /\ u.h = st.h + 1 /\ u.valid = st.valid
  BY <1>1, <1>2 DEF IsIndex
<1>4. u = [st EXCEPT !.h = @ + 1]
  BY <1>1, <1>2, Zenon
<1> DEFINE D(f) == f = [i \in 0 .. Len(b) |-> IF i = 0 THEN [st EXCEPT !.h = @ + 1] ELSE P!processTx(f[i - 1], b[i])]
<1>5. s = (CHOOSE f : D(f))[Len(b)]
  BY DEF P!indexBlock
<1> DEFINE E(f) == f = [i \in 0 .. Len(b) |-> IF i = 0 THEN u ELSE P!processTx(f[i - 1], b[i])]
<1>6. \A f : E(f) <=> D(f)
  BY <1>4, Zenon
<1>7. CASE b = <<>>
  <2>1. Len(b) = 0
    BY <1>7
  <2>2. PICK g : g = [i \in 0 .. 0 |-> u]
    OBVIOUS
  <2>3. E(g)
    BY <2>1, <2>2
  <2>4. D(CHOOSE f : D(f))
    BY <1>6, <2>3, Zenon
  <2>5. PICK f : f = (CHOOSE w : D(w)) /\ E(f)
    BY <1>6, <2>4, Zenon
  <2>6. f[0] = u
    <3>1. E(f)
      BY <2>5, Zenon
    <3> QED BY <2>1, <3>1
  <2>7. s = u
    BY <1>5, <2>1, <2>5, <2>6
  <2> QED BY <1>3, <2>7
<1>8. ASSUME NEW t, b = <<t>>, t.op \in P!Ops
      PROVE  IsIndex(s) /\ s.h = st.h + 1 /\ st.valid \subseteq s.valid
  <2>1. Len(b) = 1 /\ b[1] = t
    BY <1>8
  <2>2. PICK v : v = P!processTx(u, t)
    OBVIOUS
  <2>3. PICK g : g = [i \in 0 .. 1 |-> IF i = 0 THEN u ELSE v]
    OBVIOUS
  <2>4. E(g)
    <3>1. g[0] = u /\ g[1] = v
      BY <2>3
    <3>2. \A i \in 0 .. 1 : g[i] = IF i = 0 THEN u ELSE P!processTx(g[i - 1], b[i])
      BY <2>1, <2>2, <3>1
    <3>3. g = [i \in 0 .. 1 |-> g[i]]
      BY <2>3
    <3> QED BY <2>1, <3>2, <3>3
  <2>5. D(CHOOSE f : D(f))
    BY <1>6, <2>4, Zenon
  <2>6. PICK f : f = (CHOOSE w : D(w)) /\ E(f)
    BY <1>6, <2>5, Zenon
  <2>7. f[0] = u /\ f[1] = P!processTx(f[0], b[1])
    <3>1. E(f)
      BY <2>6, Zenon
    <3> QED BY <2>1, <3>1
  <2>8. s = v
    BY <1>5, <2>1, <2>2, <2>6, <2>7
  <2>9. IsIndex(v) /\ v.h = u.h /\ u.valid \subseteq v.valid
    BY <1>3, <1>8, <2>2, Tallied
  <2> QED BY <1>3, <2>8, <2>9, Zenon
<1> QED BY <1>7, <1>8 DEF Block

(* The states a replay passes through, height by height.                   *)
Passes(c, n, f) ==
  f = [h \in 0 .. n |-> IF h = 0 THEN P!Fresh ELSE P!indexBlock(f[h - 1], c[h])]
Heights(c) == CHOOSE f : Passes(c, Len(c), f)

(* The replay's recursion has a solution, by induction on the height.      *)
LEMMA PassesExists ==
  ASSUME NEW c, NEW n \in Nat
  PROVE  \E f : Passes(c, n, f)
<1> DEFINE T == {m \in Nat : ~\E f : Passes(c, m, f)}
<1>1. SUFFICES ASSUME T # {} PROVE FALSE
  OBVIOUS
<1>2. PICK m \in T : \A k \in T : m <= k
  BY <1>1, LeastNat
<1>3. m \in Nat /\ ~\E f : Passes(c, m, f)
  BY <1>2
<1>4. CASE m = 0
  <2>1. PICK g : g = [h \in 0 .. 0 |-> P!Fresh]
    OBVIOUS
  <2>2. Passes(c, 0, g)
    BY <2>1 DEF Passes
  <2> QED BY <1>3, <1>4, <2>2
<1>5. CASE m # 0
  <2>1. m - 1 \in Nat /\ m - 1 \notin T
    BY <1>2, <1>3, <1>5
  <2>2. PICK f : Passes(c, m - 1, f)
    BY <2>1
  <2>3. PICK v : v = P!indexBlock(f[m - 1], c[m])
    OBVIOUS
  <2>4. PICK g : g = [h \in 0 .. m |-> IF h = m THEN v ELSE f[h]]
    OBVIOUS
  <2>5. /\ \A h \in 0 .. m - 1 : f[h] = IF h = 0 THEN P!Fresh ELSE P!indexBlock(f[h - 1], c[h])
    BY <2>2 DEF Passes
  <2>6. g[m] = v /\ \A h \in 0 .. m - 1 : g[h] = f[h]
    BY <1>3, <2>4
  <2>7. \A h \in 0 .. m : g[h] = IF h = 0 THEN P!Fresh ELSE P!indexBlock(g[h - 1], c[h])
    <3>1. TAKE h \in 0 .. m
    <3>2. CASE h = m
      <4>1. m - 1 \in 0 .. m - 1
        BY <2>1
      <4>2. g[h - 1] = f[m - 1]
        BY <2>6, <3>2, <4>1
      <4> QED BY <1>5, <2>3, <2>6, <3>2, <4>2
    <3>3. CASE h # m /\ h # 0
      <4>1. h \in 0 .. m - 1 /\ h - 1 \in 0 .. m - 1
        BY <1>3, <3>3
      <4>2. g[h] = f[h] /\ g[h - 1] = f[h - 1]
        BY <2>6, <4>1
      <4> QED BY <2>5, <3>3, <4>1, <4>2
    <3>4. CASE h = 0
      <4>1. 0 \in 0 .. m - 1
        BY <2>1
      <4>2. g[0] = f[0] /\ f[0] = P!Fresh
        BY <2>5, <2>6, <4>1
      <4> QED BY <3>4, <4>2
    <3> QED BY <3>2, <3>3, <3>4
  <2>8. g = [h \in 0 .. m |-> g[h]]
    BY <2>4
  <2>9. Passes(c, m, g)
    BY <2>7, <2>8 DEF Passes
  <2> QED BY <1>3, <2>9
<1> QED BY <1>4, <1>5

(* A replay goes through its heights, from nothing, a block at a time.     *)
LEMMA HeightsAre ==
  ASSUME NEW S, NEW c \in Seq(S)
  PROVE  /\ P!Replay(c) = Heights(c)[Len(c)]
         /\ Heights(c)[0] = P!Fresh
         /\ \A h \in 1 .. Len(c) : Heights(c)[h] = P!indexBlock(Heights(c)[h - 1], c[h])
<1>1. Len(c) \in Nat
  OBVIOUS
<1>2. \E f : Passes(c, Len(c), f)
  BY <1>1, PassesExists
<1>3. Passes(c, Len(c), Heights(c))
  BY <1>2, Zenon DEF Heights
<1>4. P!Replay(c) = Heights(c)[Len(c)]
  BY Zenon DEF P!Replay, Heights, Passes
<1>5. PICK f : f = Heights(c)
  OBVIOUS
<1>6. f = [h \in 0 .. Len(c) |-> IF h = 0 THEN P!Fresh ELSE P!indexBlock(f[h - 1], c[h])]
  BY <1>3, <1>5, Zenon DEF Passes
<1>7. f[0] = P!Fresh /\ \A h \in 1 .. Len(c) : f[h] = P!indexBlock(f[h - 1], c[h])
  BY <1>1, <1>6
<1> QED BY <1>4, <1>5, <1>7, Zenon

(* A chain that goes on is indexed as it was.                              *)
LEMMA HeightsKeep ==
  ASSUME NEW S, NEW c \in Seq(S), NEW R, NEW d \in Seq(R), Len(c) <= Len(d),
         \A h \in 1 .. Len(c) : d[h] = c[h]
  PROVE  \A h \in 0 .. Len(c) : Heights(d)[h] = Heights(c)[h]
<1>0. Len(c) \in Nat /\ Len(d) \in Nat
  OBVIOUS
<1> DEFINE T == {m \in Nat : m <= Len(c) /\ Heights(d)[m] # Heights(c)[m]}
<1>1. SUFFICES ASSUME T # {} PROVE FALSE
  BY <1>0
<1>2. PICK m \in T : \A k \in T : m <= k
  BY <1>1, LeastNat
<1>3. m \in Nat /\ m <= Len(c) /\ Heights(d)[m] # Heights(c)[m]
  BY <1>2
<1>4. m # 0
  BY <1>3, HeightsAre
<1>5. m - 1 \in Nat /\ m - 1 <= Len(c) /\ m - 1 \notin T
  BY <1>0, <1>2, <1>3, <1>4
<1>6. Heights(d)[m - 1] = Heights(c)[m - 1]
  BY <1>5
<1>7. m \in 1 .. Len(c) /\ m \in 1 .. Len(d)
  BY <1>0, <1>3, <1>4
<1>8. d[m] = c[m]
  BY <1>7
<1>9. Heights(c)[m] = P!indexBlock(Heights(c)[m - 1], c[m]) /\ Heights(d)[m] = P!indexBlock(Heights(d)[m - 1], d[m])
  BY <1>7, HeightsAre
<1> QED BY <1>3, <1>6, <1>8, <1>9

(* The empty index.                                                        *)
LEMMA FreshIndex == IsIndex(P!Fresh) /\ P!Fresh.h = 0 /\ P!Fresh.valid = {}
  BY DEF IsIndex, P!Fresh

(* The state at a height says that height.                                 *)
LEMMA HeightsIndex ==
  ASSUME NEW S, NEW c \in Seq(S), \A b \in S : Block(b)
  PROVE  \A h \in 0 .. Len(c) : IsIndex(Heights(c)[h]) /\ Heights(c)[h].h = h
<1>0. Len(c) \in Nat
  OBVIOUS
<1> DEFINE T == {m \in Nat : m <= Len(c) /\ ~(IsIndex(Heights(c)[m]) /\ Heights(c)[m].h = m)}
<1>1. SUFFICES ASSUME T # {} PROVE FALSE
  BY <1>0
<1>2. PICK m \in T : \A k \in T : m <= k
  BY <1>1, LeastNat
<1>3. m \in Nat /\ m <= Len(c) /\ ~(IsIndex(Heights(c)[m]) /\ Heights(c)[m].h = m)
  BY <1>2
<1>4. m # 0
  BY <1>3, HeightsAre, FreshIndex
<1>5. m - 1 \in Nat /\ m - 1 <= Len(c) /\ m - 1 \notin T
  BY <1>0, <1>2, <1>3, <1>4
<1>6. IsIndex(Heights(c)[m - 1]) /\ Heights(c)[m - 1].h = m - 1
  BY <1>5
<1>7. m \in 1 .. Len(c) /\ Block(c[m])
  BY <1>0, <1>3, <1>4
<1>8. Heights(c)[m] = P!indexBlock(Heights(c)[m - 1], c[m])
  BY <1>7, HeightsAre
<1>9. IsIndex(Heights(c)[m]) /\ Heights(c)[m].h = m - 1 + 1
  BY <1>6, <1>7, <1>8, BlockIndexed
<1> QED BY <1>3, <1>9

(* What is valid at a height stays valid to the tip.                       *)
LEMMA HeightsGrow ==
  ASSUME NEW S, NEW c \in Seq(S), \A b \in S : Block(b), NEW h \in 0 .. Len(c)
  PROVE  Heights(c)[h].valid \subseteq P!Replay(c).valid
<1>0. Len(c) \in Nat /\ h \in Nat /\ h <= Len(c)
  OBVIOUS
<1> DEFINE T == {m \in Nat : h <= m /\ m <= Len(c) /\ ~(Heights(c)[h].valid \subseteq Heights(c)[m].valid)}
<1>1. SUFFICES ASSUME T # {} PROVE FALSE
  <2>1. P!Replay(c) = Heights(c)[Len(c)]
    BY HeightsAre
  <2> QED BY <1>0, <2>1
<1>2. PICK m \in T : \A k \in T : m <= k
  BY <1>1, LeastNat
<1>3. m \in Nat /\ h <= m /\ m <= Len(c) /\ ~(Heights(c)[h].valid \subseteq Heights(c)[m].valid)
  BY <1>2
<1>4. m # h
  BY <1>3
<1>5. m - 1 \in Nat /\ h <= m - 1 /\ m - 1 <= Len(c) /\ m - 1 \notin T
  BY <1>0, <1>2, <1>3, <1>4
<1>6. Heights(c)[h].valid \subseteq Heights(c)[m - 1].valid
  BY <1>5
<1>7. m \in 1 .. Len(c) /\ Block(c[m]) /\ m - 1 \in 0 .. Len(c)
  BY <1>0, <1>3, <1>5
<1>8. Heights(c)[m] = P!indexBlock(Heights(c)[m - 1], c[m])
  BY <1>7, HeightsAre
<1>9. IsIndex(Heights(c)[m - 1])
  BY <1>7, HeightsIndex
<1>10. Heights(c)[m - 1].valid \subseteq Heights(c)[m].valid
  BY <1>7, <1>8, <1>9, BlockIndexed
<1> QED BY <1>3, <1>6, <1>10

(* What the running process has indexed of a chain no block of which was   *)
(* taken back.                                                             *)
LEMMA ReplayKeeps ==
  ASSUME NEW S, NEW c \in Seq(S), \A b \in S : Block(b), NEW b, Block(b), NEW d, d = Append(c, b)
  PROVE  /\ d \in Seq(S \cup {b}) /\ \A x \in S \cup {b} : Block(x)
         /\ Len(d) = Len(c) + 1
         /\ \A h \in 0 .. Len(c) : Heights(d)[h] = Heights(c)[h]
         /\ P!Replay(c).valid \subseteq P!Replay(d).valid
<1>1. PICK R : R = S \cup {b}
  OBVIOUS
<1>2. c \in Seq(R) /\ b \in R /\ \A x \in R : Block(x)
  BY <1>1
<1>3. d \in Seq(R) /\ Len(d) = Len(c) + 1 /\ Len(c) \in Nat /\ \A h \in 1 .. Len(c) : d[h] = c[h]
  BY <1>2
<1>4. \A h \in 0 .. Len(c) : Heights(d)[h] = Heights(c)[h]
  <2>1. Len(c) <= Len(d)
    BY <1>3
  <2> QED BY <1>3, <2>1, HeightsKeep
<1>5. P!Replay(c) = Heights(c)[Len(c)]
  BY HeightsAre
<1>6. Len(c) \in 0 .. Len(c) /\ Len(c) \in 0 .. Len(d)
  BY <1>3
<1>7. Heights(d)[Len(c)].valid \subseteq P!Replay(d).valid
  BY <1>2, <1>3, <1>6, HeightsGrow
<1>8. Heights(d)[Len(c)] = Heights(c)[Len(c)]
  BY <1>4, <1>6
<1>9. P!Replay(c).valid \subseteq P!Replay(d).valid
  BY <1>5, <1>7, <1>8
<1> QED BY <1>1, <1>2, <1>3, <1>4, <1>9

(* A step of the manifest has at most one transaction of each kind, of its *)
(* own operation.                                                          *)
OneOf(T, op) == T = {} \/ \E t : T = {t} /\ t.op = op
IsStep(m, op) ==
  /\ m = [expected |-> m.expected, recorded |-> m.recorded, done |-> m.done]
  /\ OneOf(m.expected, op) /\ OneOf(m.recorded, op)
IsManifest(m) ==
  m = [op \in P!Ops |-> m[op]] /\ \A op \in P!Ops : IsStep(m[op], op)

WorldInv ==
  /\ IsChain(chain) /\ Len(chain) \in 1 .. MaxBlocks
  /\ \A t \in mempool \cup posted : t.op \in P!Ops

(* The process works on one transaction at a time, which the manifest has  *)
(* before it is sent; signet's has it only after.                          *)
Holding == {"send", "save", "wait", "confirmed", "resolved"}
StepInv ==
  /\ mode \in {"canary", "mutinynet", "signet"}
  /\ pc \in {"off", "replay", "catchup", "resolved", "send", "save", "wait",
             "confirmed", "final", "complete"}
  /\ at \in 0 .. MaxBlocks /\ target \in 0 .. MaxBlocks
  /\ cur = [op |-> cur.op, tx |-> cur.tx]
  /\ pc \in Holding => cur.op \in P!Ops /\ \E t : cur.tx = {t} /\ t.op = cur.op
  /\ pc = "catchup" => cur.op \in P!Ops
  /\ pc = "save" => mode = "signet"
  /\ pc = "catchup" \/ (mode = "signet" /\ pc \in {"send", "save"}) => manifest[cur.op].recorded = {}
  /\ mode # "signet" /\ pc = "send" => manifest[cur.op].recorded = cur.tx

(* The faults a behaviour has met: a reorganisation, or something else.    *)
Tally(f) ==
  /\ f = [lost |-> f.lost, reorgs |-> f.reorgs, rivals |-> f.rivals, fees |-> f.fees]
  /\ f.reorgs \in Nat

(* As long as no block was taken back, the process has indexed the chain   *)
(* up to some height, and what is done is valid there.                     *)
IndexInv ==
  /\ Tally(faults)
  /\ faults.reorgs = 0 =>
       /\ live.h \in 0 .. Len(chain) /\ live = Heights(chain)[live.h]
       /\ \A op \in P!Ops : manifest[op].done \subseteq P!Replay(chain).valid

RunInv == WorldInv /\ IsManifest(manifest) /\ StepInv /\ P!SentIsRecorded /\ IndexInv

(* At first the invariant of the rehearsal holds.                          *)
LEMMA RunInit == P!Init => RunInv
<1> SUFFICES ASSUME P!Init PROVE RunInv
  OBVIOUS
<1>1. WorldInv
  <2>1. chain = << <<>> >> /\ mempool = {} /\ posted = {}
    BY DEF P!Init
  <2>2. PICK e, Z : e = <<>> /\ Z = {e}
    OBVIOUS
  <2>3. chain = <<e>> /\ e \in Z
    BY <2>1, <2>2
  <2>31. chain \in Seq(Z) /\ Len(chain) = 1
    BY <2>3
  <2>32. Block(e)
    BY <2>2 DEF Block
  <2>33. \A b \in Z : Block(b)
    BY <2>2, <2>32
  <2>4. 1 \in 1 .. MaxBlocks
    BY RehearsalAssumption
  <2>5. IsChain(chain)
    BY <2>31, <2>33 DEF IsChain
  <2>6. mempool = {} /\ posted = {}
    BY <2>1
  <2> QED BY <2>31, <2>4, <2>5, <2>6 DEF WorldInv
<1>2. IsManifest(manifest) /\ \A op \in P!Ops : manifest[op].done = {}
  <2>1. PICK e : e = [expected |-> {}, recorded |-> {}, done |-> {}]
    OBVIOUS
  <2>2. manifest = [op \in P!Ops |-> e]
    BY <2>1, Zenon DEF P!Init
  <2>3. \A op : IsStep(e, op) /\ e.done = {}
    BY <2>1 DEF IsStep, OneOf
  <2> QED BY <2>2, <2>3 DEF IsManifest
<1>3. StepInv
  BY RehearsalAssumption DEF P!Init, StepInv, P!NoStep, Holding
<1>4. P!SentIsRecorded
  BY DEF P!Init, P!SentIsRecorded
<1>5. IndexInv
  <2>1. chain = << <<>> >> /\ live = P!Fresh
    BY DEF P!Init
  <2>2. chain \in Seq({<<>>}) /\ Len(chain) = 1
    BY <2>1
  <2>3. live.h = 0 /\ live = Heights(chain)[0]
    BY <2>1, <2>2, HeightsAre, FreshIndex
  <2>4. faults = [lost |-> 0, reorgs |-> 0, rivals |-> 0, fees |-> 0]
    BY DEF P!Init
  <2>5. Tally(faults)
    BY <2>4 DEF Tally
  <2> QED BY <1>2, <2>2, <2>3, <2>5 DEF IndexInv
<1> QED BY <1>1, <1>2, <1>3, <1>4, <1>5 DEF RunInv

(* The steps of a rehearsal.                                               *)
LEMMA NextCases ==
  ASSUME [P!Next]_P!vars
  PROVE  \/ \E y \in BOOLEAN : \E x, f : P!Start(y, x, f)
         \/ P!IndexNext
         \/ P!Finalize
         \/ P!ResolveConfirmed
         \/ P!ResolvePending
         \/ P!ResolveLost
         \/ P!Export
         \/ P!Import
         \/ P!ProofBlocked
         \/ P!ProofDone
         \/ P!ProofStep
         \/ P!ProofBuild
         \/ P!ProofSave
         \/ P!Send
         \/ P!SeesConfirmed
         \/ P!TimesOut
         \/ P!Indexed
         \/ P!ReplayNext
         \/ P!Finish
         \/ \E t \in mempool : P!Mine(t)
         \/ \E t \in mempool : P!Evict(t)
         \/ \E op \in {"DEPLOY", "MINT"} : P!MineRival(op)
         \/ P!Reorg
         \/ P!Crash
         \/ UNCHANGED P!vars
<1>1. CASE P!CanaryStarts
  BY <1>1 DEF P!CanaryStarts
<1>2. CASE P!ProofStarts
  BY <1>2 DEF P!ProofStarts
<1>3. CASE P!Runner
  BY <1>3, Zenon DEF P!Runner
<1>4. CASE P!World
  BY <1>4, Zenon DEF P!World
<1>5. CASE UNCHANGED P!vars
  BY <1>5, Zenon
<1> QED BY <1>1, <1>2, <1>3, <1>4, <1>5, Zenon DEF P!Next

(* A block more: the heights below it stay.                                *)
LEMMA ChainGrows ==
  ASSUME NEW c, IsChain(c), NEW b, Block(b), NEW d, d = Append(c, b)
  PROVE  /\ IsChain(d) /\ Len(c) \in Nat /\ Len(d) = Len(c) + 1
         /\ \A h \in 0 .. Len(c) : Heights(d)[h] = Heights(c)[h]
         /\ P!Replay(c).valid \subseteq P!Replay(d).valid
<1>1. PICK S : c \in Seq(S) /\ \A x \in S : Block(x)
  BY DEF IsChain
<1>2. PICK R : R = S \cup {b}
  OBVIOUS
<1>3. d \in Seq(R) /\ Len(d) = Len(c) + 1 /\ Len(c) \in Nat
  BY <1>1, <1>2
<1>4. \A x \in R : Block(x)
  BY <1>1, <1>2
<1>5. \A h \in 0 .. Len(c) : Heights(d)[h] = Heights(c)[h]
  <2>1. c \in Seq(R) /\ b \in R
    BY <1>1, <1>2
  <2>2. Len(c) <= Len(d) /\ \A h \in 1 .. Len(c) : d[h] = c[h]
    BY <1>3, <2>1
  <2> QED BY <1>3, <2>1, <2>2, HeightsKeep
<1>6. P!Replay(c).valid \subseteq P!Replay(d).valid
  BY <1>1, ReplayKeeps
<1> QED BY <1>3, <1>4, <1>5, <1>6 DEF IsChain

(* The chain stays within its bound, of operations the index knows.        *)
LEMMA WorldStep == RunInv /\ [P!Next]_P!vars => WorldInv'
<1> SUFFICES ASSUME RunInv, [P!Next]_P!vars PROVE WorldInv'
  OBVIOUS
<1>0. PICK S : chain \in Seq(S) /\ \A b \in S : Block(b)
  BY DEF RunInv, WorldInv, IsChain
<1>1. CASE chain' = chain /\ mempool' = mempool /\ posted' = posted
  BY <1>1 DEF RunInv, WorldInv
<1>2. CASE \E y \in BOOLEAN : \E x, f : P!Start(y, x, f)
  BY <1>1, <1>2 DEF P!Start, P!disk, P!history, P!process
<1>3. CASE P!IndexNext
  BY <1>1, <1>3 DEF P!IndexNext, P!Idle, P!disk, P!history, P!process
<1>4. CASE P!Finalize
  BY <1>1, <1>4 DEF P!Finalize, P!BeginReplay, P!disk, P!history, P!process
<1>5. CASE P!ResolveConfirmed
  BY <1>1, <1>5 DEF P!ResolveConfirmed, P!disk, P!history, P!process
<1>6. CASE P!ResolvePending
  BY <1>1, <1>6 DEF P!ResolvePending, P!Exit, P!Idle, P!disk, P!history, P!process
<1>7. CASE P!ResolveLost
  BY <1>1, <1>7 DEF P!ResolveLost, P!Goto, P!disk, P!history, P!process
<1>8. CASE P!Export
  BY <1>1, <1>8 DEF P!Export, P!Idle, P!disk, P!history, P!process
<1>9. CASE P!Import
  BY <1>1, <1>9 DEF P!Import, P!Idle, P!Goto, P!disk, P!history, P!process
<1>10. CASE P!ProofBlocked
  BY <1>1, <1>10 DEF P!ProofBlocked, P!Exit, P!Idle, P!disk, P!history, P!process
<1>11. CASE P!ProofDone
  BY <1>1, <1>11 DEF P!ProofDone, P!BeginReplay, P!Goto, P!disk, P!history, P!process
<1>12. CASE P!ProofStep
  BY <1>1, <1>12 DEF P!ProofStep, P!disk, P!history, P!process
<1>13. CASE P!ProofBuild
  BY <1>1, <1>13 DEF P!ProofBuild, P!Idle, P!Goto, P!disk, P!history, P!process
<1>14. CASE P!ProofSave
  BY <1>1, <1>14 DEF P!ProofSave, P!Goto, P!disk, P!history, P!process
<1>15. CASE P!Send
  <2>1. chain' = chain /\ pc = "send" /\ mempool' \subseteq mempool \cup cur.tx /\ posted' \subseteq posted \cup cur.tx
    BY <1>15 DEF P!Send, P!Idle, P!Goto
  <2>2. \A t \in cur.tx : t.op \in P!Ops
    BY <2>1 DEF RunInv, StepInv, Holding
  <2> QED BY <2>1, <2>2 DEF RunInv, WorldInv
<1>16. CASE P!SeesConfirmed
  BY <1>1, <1>16 DEF P!SeesConfirmed, P!disk, P!history, P!process
<1>17. CASE P!TimesOut
  BY <1>1, <1>17 DEF P!TimesOut, P!Exit, P!Idle, P!disk, P!history, P!process
<1>18. CASE P!Indexed
  BY <1>1, <1>18 DEF P!Indexed, P!RecordStep, P!Idle, P!disk, P!history, P!process
<1>19. CASE P!ReplayNext
  BY <1>1, <1>19 DEF P!ReplayNext, P!Idle, P!disk, P!history, P!process
<1>20. CASE P!Finish
  BY <1>1, <1>20 DEF P!Finish, P!Goto, P!Idle, P!disk, P!history, P!process
<1>21. CASE \E t \in mempool : P!Mine(t)
  <2>1. PICK t \in mempool : P!Mine(t)
    BY <1>21
  <2>2. PICK b : b = <<t>>
    OBVIOUS
  <2>3. chain' = Append(chain, b) /\ mempool' \subseteq mempool /\ Len(chain) < MaxBlocks
    BY <2>1, <2>2 DEF P!Mine
  <2>4. Block(b)
    BY <2>2 DEF RunInv, WorldInv, Block
  <2>5. IsChain(chain) /\ Len(chain) \in 1 .. MaxBlocks
    BY DEF RunInv, WorldInv
  <2>6. IsChain(chain') /\ Len(chain) \in Nat /\ Len(chain') = Len(chain) + 1
    BY <2>3, <2>4, <2>5, ChainGrows
  <2>7. Len(chain') \in 1 .. MaxBlocks
    BY <2>3, <2>6, RehearsalAssumption
  <2>8. posted' = posted
    BY <2>1 DEF P!Mine
  <2> QED BY <2>3, <2>6, <2>7, <2>8 DEF RunInv, WorldInv
<1>22. CASE \E t \in mempool : P!Evict(t)
  BY <1>22 DEF P!Evict, P!history, RunInv, WorldInv
<1>23. CASE \E op \in {"DEPLOY", "MINT"} : P!MineRival(op)
  <2>1. PICK op \in {"DEPLOY", "MINT"} : P!MineRival(op)
    BY <1>23
  <2>2. PICK t : t = [op |-> op, ins |-> {}, fee |-> 0, by |-> "rival"]
    OBVIOUS
  <2>3. PICK b : b = <<t>>
    OBVIOUS
  <2>4. chain' = Append(chain, b) /\ mempool' = mempool /\ Len(chain) < MaxBlocks
    BY <2>1, <2>2, <2>3, Zenon DEF P!MineRival
  <2>5. Block(b)
    BY <2>2, <2>3 DEF Block, P!Ops
  <2>6. IsChain(chain) /\ Len(chain) \in 1 .. MaxBlocks
    BY DEF RunInv, WorldInv
  <2>7. IsChain(chain') /\ Len(chain) \in Nat /\ Len(chain') = Len(chain) + 1
    BY <2>4, <2>5, <2>6, ChainGrows
  <2>8. Len(chain') \in 1 .. MaxBlocks
    BY <2>4, <2>7, RehearsalAssumption
  <2>9. posted' = posted
    BY <2>1 DEF P!MineRival
  <2> QED BY <2>4, <2>7, <2>8, <2>9 DEF RunInv, WorldInv
<1>24. CASE P!Reorg
  <2>1. PICK k : k = P!Front(chain)
    OBVIOUS
  <2>2. PICK e : e = <<>>
    OBVIOUS
  <2>3. Len(chain) \in Nat /\ Len(chain) > 1
    BY <1>0, <1>24 DEF P!Reorg
  <2>4. k \in Seq(S) /\ Len(k) = Len(chain) - 1
    BY <1>0, <2>1, <2>3 DEF P!Front
  <2>5. chain' = k \/ chain' = Append(k, e)
    BY <1>24, <2>1, <2>2 DEF P!Reorg
  <2>6. Block(e)
    BY <2>2 DEF Block
  <2>7. IsChain(k)
    BY <1>0, <2>4 DEF IsChain
  <2>71. PICK j : j = Append(k, e)
    OBVIOUS
  <2>72. IsChain(j) /\ Len(j) = Len(k) + 1
    BY <2>6, <2>7, <2>71, ChainGrows
  <2>73. Len(chain) \in 1 .. MaxBlocks
    BY DEF RunInv, WorldInv
  <2>8. IsChain(chain') /\ Len(chain') \in 1 .. MaxBlocks
    <3>1. CASE chain' = k
      <4>1. Len(k) \in 1 .. MaxBlocks
        BY <2>3, <2>4, <2>73, RehearsalAssumption
      <4> QED BY <2>7, <3>1, <4>1, Zenon
    <3>2. CASE chain' = j
      <4>1. Len(j) \in 1 .. MaxBlocks
        BY <2>3, <2>4, <2>72, <2>73, RehearsalAssumption
      <4> QED BY <2>72, <3>2, <4>1, Zenon
    <3> QED BY <2>5, <2>71, <3>1, <3>2
  <2>9. \A t \in P!TxsOf(<<P!Last(chain)>>) : t.op \in P!Ops
    <3>1. PICK z : z = P!Last(chain)
      OBVIOUS
    <3>2. Block(z)
      BY <1>0, <2>3, <3>1 DEF P!Last
    <3>3. PICK w : w = <<z>>
      OBVIOUS
    <3>4. DOMAIN w = {1} /\ w[1] = z
      BY <3>3
    <3>5. SUFFICES ASSUME NEW t \in P!TxsOf(w) PROVE t.op \in P!Ops
      BY <3>1, <3>3
    <3>6. PICK i \in DOMAIN z : t = z[i]
      BY <3>4, <3>5 DEF P!TxsOf
    <3> QED BY <3>2, <3>6 DEF Block
  <2>10. \A t \in mempool' \cup posted' : t.op \in P!Ops
    BY <1>24, <2>9 DEF P!Reorg, P!Ours, RunInv, WorldInv
  <2> QED BY <2>8, <2>10 DEF WorldInv
<1>25. CASE P!Crash
  BY <1>1, <1>25 DEF P!Crash, P!Fault, P!Idle, P!disk, P!history, P!process
<1>26. CASE UNCHANGED P!vars
  BY <1>1, <1>26 DEF P!vars, P!disk, P!history, P!process
<1> QED BY <1>2, <1>3, <1>4, <1>5, <1>6, <1>7, <1>8, <1>9, <1>10, <1>11, <1>12, <1>13, <1>14, <1>15, <1>16, <1>17, <1>18, <1>19, <1>20, <1>21, <1>22, <1>23, <1>24, <1>25, <1>26, NextCases

(* A write to one field of a step keeps the others.                        *)
LEMMA StepFields ==
  ASSUME NEW m, NEW op, IsStep(m, op), NEW T
  PROVE  /\ \A s : s = [m EXCEPT !.done = T] => IsStep(s, op) /\ s.recorded = m.recorded /\ s.done = T
         /\ OneOf(T, op) => \A s : s = [m EXCEPT !.expected = T] =>
              IsStep(s, op) /\ s.recorded = m.recorded /\ s.done = m.done
         /\ OneOf(T, op) => \A s : s = [m EXCEPT !.recorded = T] =>
              IsStep(s, op) /\ s.recorded = T /\ s.done = m.done
  BY DEF IsStep

(* What a step writes to the manifest, if it writes.                       *)
Writes(m, r, op, rec, don) ==
  /\ IsManifest(r) /\ r[op].recorded = rec /\ r[op].done = don
  /\ \A x \in P!Ops : x # op => r[x] = m[x]

(* A write of the expected transaction.                                    *)
LEMMA PutExpected ==
  ASSUME NEW m, IsManifest(m), NEW op \in P!Ops, NEW T, OneOf(T, op),
         NEW r, r = [m EXCEPT ![op].expected = T]
  PROVE  Writes(m, r, op, m[op].recorded, m[op].done)
<1>1. PICK s : s = [m[op] EXCEPT !.expected = T]
  OBVIOUS
<1>2. IsStep(m[op], op)
  BY DEF IsManifest
<1>3. IsStep(s, op) /\ s.recorded = m[op].recorded /\ s.done = m[op].done
  BY <1>1, <1>2, StepFields
<1>4. r = [m EXCEPT ![op] = s]
  BY <1>1
<1>5. IsManifest(r) /\ r[op] = s /\ \A x \in P!Ops : x # op => r[x] = m[x]
  BY <1>3, <1>4 DEF IsManifest
<1> QED BY <1>3, <1>5 DEF Writes

(* A write of the recorded transaction.                                    *)
LEMMA PutRecorded ==
  ASSUME NEW m, IsManifest(m), NEW op \in P!Ops, NEW T, OneOf(T, op),
         NEW r, r = [m EXCEPT ![op].recorded = T]
  PROVE  Writes(m, r, op, T, m[op].done)
<1>1. PICK s : s = [m[op] EXCEPT !.recorded = T]
  OBVIOUS
<1>2. IsStep(m[op], op)
  BY DEF IsManifest
<1>3. IsStep(s, op) /\ s.recorded = T /\ s.done = m[op].done
  BY <1>1, <1>2, StepFields
<1>4. r = [m EXCEPT ![op] = s]
  BY <1>1
<1>5. IsManifest(r) /\ r[op] = s /\ \A x \in P!Ops : x # op => r[x] = m[x]
  BY <1>3, <1>4 DEF IsManifest
<1> QED BY <1>3, <1>5 DEF Writes

(* A write that marks a step done.                                         *)
LEMMA PutDone ==
  ASSUME NEW m, IsManifest(m), NEW op \in P!Ops, NEW T,
         NEW r, r = [m EXCEPT ![op].done = T]
  PROVE  Writes(m, r, op, m[op].recorded, T)
<1>1. PICK s : s = [m[op] EXCEPT !.done = T]
  OBVIOUS
<1>2. IsStep(m[op], op)
  BY DEF IsManifest
<1>3. IsStep(s, op) /\ s.recorded = m[op].recorded /\ s.done = T
  BY <1>1, <1>2, StepFields
<1>4. r = [m EXCEPT ![op] = s]
  BY <1>1
<1>5. IsManifest(r) /\ r[op] = s /\ \A x \in P!Ops : x # op => r[x] = m[x]
  BY <1>3, <1>4 DEF IsManifest
<1> QED BY <1>3, <1>5 DEF Writes

(* The canary decides on one of the three operations.                      *)
LEMMA OpIn == P!Deciding => P!Op \in P!Ops /\ mode = "canary" /\ pc = "replay"
  BY DEF P!Deciding, P!Op, P!decideNextCanaryAction, P!Ops, P!At

(* The export writes what it expects; nothing it recorded changes.         *)
LEMMA ExportWrites ==
  ASSUME IsManifest(manifest), P!Export
  PROVE  \/ manifest' = manifest
         \/ \E op \in P!Ops : Writes(manifest, manifest', op, manifest[op].recorded, manifest[op].done)
<1>1. PICK op : op = P!Op
  OBVIOUS
<1>2. op \in P!Ops
  BY <1>1, OpIn DEF P!Export
<1>3. SUFFICES ASSUME manifest' # manifest
               PROVE  Writes(manifest, manifest', op, manifest[op].recorded, manifest[op].done)
  BY <1>2
<1>4. PICK t : t = P!BuildTx(op, P!selectCoins(P!Confirmed, Required[op]), args.fee)
  OBVIOUS
<1>5. manifest' = [manifest EXCEPT ![op].expected = {t}]
  BY <1>1, <1>3, <1>4 DEF P!Export, P!disk
<1>6. t.op = op
  BY <1>4 DEF P!BuildTx
<1>7. PICK T, r : T = {t} /\ r = manifest'
  OBVIOUS
<1>8. OneOf(T, op)
  BY <1>6, <1>7 DEF OneOf
<1>9. r = [manifest EXCEPT ![op].expected = T]
  BY <1>5, <1>7
<1>10. Writes(manifest, r, op, manifest[op].recorded, manifest[op].done)
  BY <1>2, <1>8, <1>9, PutExpected
<1> QED BY <1>7, <1>10

(* An import that goes through is of a step with nothing recorded, or with *)
(* this very transaction.                                                  *)
Holds(step, op, t) == step.op = op /\ step.tx = {t} /\ step = [op |-> step.op, tx |-> step.tx]
LEMMA ImportWrites ==
  ASSUME IsManifest(manifest), P!Import
  PROVE  \/ P!Idle /\ manifest' = manifest
         \/ \E op \in P!Ops : \E t :
              /\ t.op = op /\ (manifest[op].recorded = {} \/ manifest[op].recorded = {t})
              /\ Writes(manifest, manifest', op, {t}, manifest[op].done)
              /\ pc' = "send" /\ Holds(cur', op, t) /\ at' = at /\ target' = target /\ live' = live
<1>1. PICK op : op = P!Op
  OBVIOUS
<1>2. op \in P!Ops
  BY <1>1, OpIn DEF P!Import
<1>3. SUFFICES ASSUME ~(P!Idle /\ manifest' = manifest)
               PROVE  \E t : /\ t.op = op /\ (manifest[op].recorded = {} \/ manifest[op].recorded = {t})
                             /\ Writes(manifest, manifest', op, {t}, manifest[op].done)
                             /\ pc' = "send" /\ Holds(cur', op, t) /\ at' = at /\ target' = target /\ live' = live
  BY <1>2, Zenon
<1>4. PICK t \in args.signed : /\ P!Imported(t)
                               /\ manifest' = [manifest EXCEPT ![P!Op].recorded = {t}]
                               /\ P!Goto("send", [op |-> P!Op, tx |-> {t}])
  BY <1>3, Zenon DEF P!Import, P!disk
<1>5. t.op = op /\ (manifest[op].recorded = {} \/ manifest[op].recorded = {t})
  BY <1>1, <1>4 DEF P!Imported, P!broadcastTxidMatches
<1>6. PICK T, r : T = {t} /\ r = manifest'
  OBVIOUS
<1>7. OneOf(T, op)
  BY <1>5, <1>6 DEF OneOf
<1>8. r = [manifest EXCEPT ![op].recorded = T]
  BY <1>1, <1>4, <1>6
<1>9. Writes(manifest, r, op, T, manifest[op].done)
  BY <1>2, <1>7, <1>8, PutRecorded
<1>10. pc' = "send" /\ cur' = [op |-> op, tx |-> {t}] /\ at' = at /\ target' = target /\ live' = live
  BY <1>1, <1>4 DEF P!Goto
<1>11. Holds(cur', op, t)
  BY <1>10 DEF Holds
<1> QED BY <1>5, <1>6, <1>9, <1>10, <1>11

(* A proof that builds records it first, but for signet's.                 *)
LEMMA ProofBuildWrites ==
  ASSUME IsManifest(manifest), StepInv, P!ProofBuild
  PROVE  \/ P!Idle /\ manifest' = manifest
         \/ \E t : /\ t.op = cur.op /\ pc' = "send" /\ Holds(cur', cur.op, t) /\ at' = at /\ target' = target /\ live' = live
                   /\ \/ mode = "signet" /\ manifest' = manifest
                      \/ mode # "signet" /\ Writes(manifest, manifest', cur.op, {t}, manifest[cur.op].done)
<1>1. cur.op \in P!Ops /\ cur = [op |-> cur.op, tx |-> cur.tx] /\ pc = "catchup"
  BY DEF P!ProofBuild, P!At, StepInv
<1>2. PICK coins : coins = P!selectCoins(IF mode = "signet" THEN P!Confirmed ELSE P!Unspent, Required[cur.op])
  OBVIOUS
<1>3. PICK t : t = P!BuildTx(cur.op, coins, args.fee)
  OBVIOUS
<1>4. t.op = cur.op
  BY <1>3 DEF P!BuildTx
<1>5. SUFFICES ASSUME ~(P!Idle /\ manifest' = manifest)
               PROVE  /\ pc' = "send" /\ Holds(cur', cur.op, t) /\ at' = at /\ target' = target /\ live' = live
                      /\ \/ mode = "signet" /\ manifest' = manifest
                         \/ mode # "signet" /\ Writes(manifest, manifest', cur.op, {t}, manifest[cur.op].done)
  BY <1>4, Zenon
<1>6. /\ P!Goto("send", [cur EXCEPT !.tx = {t}])
      /\ manifest' = IF mode = "signet" THEN manifest ELSE [manifest EXCEPT ![cur.op].recorded = {t}]
  BY <1>2, <1>3, <1>5, Zenon DEF P!ProofBuild
<1>7. PICK T, r : T = {t} /\ r = manifest'
  OBVIOUS
<1>8. OneOf(T, cur.op)
  BY <1>4, <1>7 DEF OneOf
<1>9. mode # "signet" => Writes(manifest, manifest', cur.op, {t}, manifest[cur.op].done)
  <2>1. SUFFICES ASSUME mode # "signet" PROVE Writes(manifest, manifest', cur.op, {t}, manifest[cur.op].done)
    OBVIOUS
  <2>2. PICK op : op = cur.op
    OBVIOUS
  <2>3. r = [manifest EXCEPT ![op].recorded = T]
    BY <1>6, <1>7, <2>1, <2>2
  <2>4. op \in P!Ops /\ OneOf(T, op)
    BY <1>1, <1>8, <2>2
  <2>5. Writes(manifest, r, op, T, manifest[op].done)
    BY <2>3, <2>4, PutRecorded
  <2> QED BY <1>7, <2>2, <2>5
<1>10. PICK u : u = [cur EXCEPT !.tx = T]
  OBVIOUS
<1>11. Holds(u, cur.op, t)
  BY <1>1, <1>7, <1>10 DEF Holds
<1>12. pc' = "send" /\ cur' = u /\ at' = at /\ target' = target /\ live' = live
  BY <1>6, <1>7, <1>10 DEF P!Goto
<1>13. mode = "signet" => manifest' = manifest
  BY <1>6
<1> QED BY <1>9, <1>11, <1>12, <1>13

(* Signet's records what it has sent.                                      *)
LEMMA ProofSaveWrites ==
  ASSUME IsManifest(manifest), StepInv, P!ProofSave
  PROVE  Writes(manifest, manifest', cur.op, cur.tx, manifest[cur.op].done)
<1>1. cur.op \in P!Ops /\ \E t : cur.tx = {t} /\ t.op = cur.op
  BY DEF P!ProofSave, StepInv, Holding
<1>2. PICK op, T, r : op = cur.op /\ T = cur.tx /\ r = manifest'
  OBVIOUS
<1>3. op \in P!Ops /\ OneOf(T, op)
  BY <1>1, <1>2 DEF OneOf
<1>4. r = [manifest EXCEPT ![op].recorded = T]
  BY <1>2 DEF P!ProofSave
<1>5. Writes(manifest, r, op, T, manifest[op].done)
  BY <1>3, <1>4, PutRecorded
<1> QED BY <1>2, <1>5

(* A step is marked done with what the index found valid.                  *)
LEMMA IndexedWrites ==
  ASSUME IsManifest(manifest), StepInv, P!Indexed
  PROVE  \/ P!Idle /\ manifest' = manifest
         \/ /\ cur.op \in P!Ops /\ cur.tx \subseteq live.valid
            /\ Writes(manifest, manifest', cur.op, manifest[cur.op].recorded, cur.tx)
            /\ pc' = "replay" /\ cur' = P!NoStep /\ live' = live
            /\ at' \in {at, target} /\ target' \in {at, target}
<1>1. SUFFICES ASSUME ~(P!Idle /\ manifest' = manifest)
               PROVE  /\ cur.op \in P!Ops /\ cur.tx \subseteq live.valid
                      /\ Writes(manifest, manifest', cur.op, manifest[cur.op].recorded, cur.tx)
                      /\ pc' = "replay" /\ cur' = P!NoStep /\ live' = live
                      /\ at' \in {at, target} /\ target' \in {at, target}
  OBVIOUS
<1>2. pc \in Holding
  BY DEF P!Indexed, P!At, Holding
<1>3. cur.op \in P!Ops
  BY <1>2 DEF StepInv
<1>4. cur.tx \subseteq live.valid /\ P!RecordStep(IF mode = "canary" /\ pc = "confirmed" THEN target ELSE at)
  BY <1>1, Zenon DEF P!Indexed
<1>5. PICK op, T, r : op = cur.op /\ T = cur.tx /\ r = manifest'
  OBVIOUS
<1>6. r = [manifest EXCEPT ![op].done = T]
  BY <1>4, <1>5 DEF P!RecordStep
<1>7. Writes(manifest, r, op, manifest[op].recorded, T)
  BY <1>3, <1>5, <1>6, PutDone
<1>8. pc' = "replay" /\ cur' = P!NoStep /\ live' = live /\ at' \in {at, target} /\ target' \in {at, target}
  BY <1>4 DEF P!RecordStep
<1> QED BY <1>3, <1>4, <1>5, <1>7, <1>8

(* Every step keeps the manifest's shape.                                  *)
LEMMA ManifestStep == RunInv /\ [P!Next]_P!vars => IsManifest(manifest')
<1> SUFFICES ASSUME RunInv, [P!Next]_P!vars PROVE IsManifest(manifest')
  OBVIOUS
<1>0. IsManifest(manifest) /\ StepInv
  BY DEF RunInv
<1>1. CASE manifest' = manifest
  BY <1>0, <1>1
<1>2. CASE \E y \in BOOLEAN : \E x, f : P!Start(y, x, f)
  BY <1>1, <1>2 DEF P!Start, P!disk, P!history, P!process
<1>3. CASE P!IndexNext
  BY <1>1, <1>3 DEF P!IndexNext, P!Idle, P!disk, P!history, P!process
<1>4. CASE P!Finalize
  BY <1>1, <1>4 DEF P!Finalize, P!BeginReplay, P!disk, P!history, P!process
<1>5. CASE P!ResolveConfirmed
  BY <1>1, <1>5 DEF P!ResolveConfirmed, P!disk, P!history, P!process
<1>6. CASE P!ResolvePending
  BY <1>1, <1>6 DEF P!ResolvePending, P!Exit, P!Idle, P!disk, P!history, P!process
<1>7. CASE P!ResolveLost
  BY <1>1, <1>7 DEF P!ResolveLost, P!Goto, P!disk, P!history, P!process
<1>8. CASE P!Export
  BY <1>0, <1>1, <1>8, ExportWrites DEF Writes
<1>9. CASE P!Import
  BY <1>0, <1>1, <1>9, ImportWrites DEF Writes
<1>10. CASE P!ProofBlocked
  BY <1>1, <1>10 DEF P!ProofBlocked, P!Exit, P!Idle, P!disk, P!history, P!process
<1>11. CASE P!ProofDone
  BY <1>1, <1>11 DEF P!ProofDone, P!BeginReplay, P!Goto, P!disk, P!history, P!process
<1>12. CASE P!ProofStep
  BY <1>1, <1>12 DEF P!ProofStep, P!disk, P!history, P!process
<1>13. CASE P!ProofBuild
  BY <1>0, <1>1, <1>13, ProofBuildWrites DEF Writes
<1>14. CASE P!ProofSave
  BY <1>0, <1>1, <1>14, ProofSaveWrites DEF Writes
<1>15. CASE P!Send
  BY <1>1, <1>15 DEF P!Send, P!Idle, P!Goto, P!disk, P!history, P!process
<1>16. CASE P!SeesConfirmed
  BY <1>1, <1>16 DEF P!SeesConfirmed, P!disk, P!history, P!process
<1>17. CASE P!TimesOut
  BY <1>1, <1>17 DEF P!TimesOut, P!Exit, P!Idle, P!disk, P!history, P!process
<1>18. CASE P!Indexed
  BY <1>0, <1>1, <1>18, IndexedWrites DEF Writes
<1>19. CASE P!ReplayNext
  BY <1>1, <1>19 DEF P!ReplayNext, P!Idle, P!disk, P!history, P!process
<1>20. CASE P!Finish
  BY <1>1, <1>20 DEF P!Finish, P!Goto, P!Idle, P!disk, P!history, P!process
<1>21. CASE \E t \in mempool : P!Mine(t)
  BY <1>1, <1>21 DEF P!Mine, P!disk, P!history, P!process
<1>22. CASE \E t \in mempool : P!Evict(t)
  BY <1>1, <1>22 DEF P!Evict, P!Fault, P!disk, P!history, P!process
<1>23. CASE \E op \in {"DEPLOY", "MINT"} : P!MineRival(op)
  BY <1>1, <1>23 DEF P!MineRival, P!Fault, P!disk, P!history, P!process
<1>24. CASE P!Reorg
  BY <1>1, <1>24 DEF P!Reorg, P!Fault, P!disk, P!history, P!process
<1>25. CASE P!Crash
  BY <1>1, <1>25 DEF P!Crash, P!Fault, P!Idle, P!disk, P!history, P!process
<1>26. CASE UNCHANGED P!vars
  BY <1>1, <1>26 DEF P!vars, P!disk, P!history, P!process
<1> QED BY <1>2, <1>3, <1>4, <1>5, <1>6, <1>7, <1>8, <1>9, <1>10, <1>11, <1>12, <1>13, <1>14, <1>15, <1>16, <1>17, <1>18, <1>19, <1>20, <1>21, <1>22, <1>23, <1>24, <1>25, <1>26, NextCases

(* A transaction the chain holds has a height on it.                       *)
LEMMA HeightIn ==
  ASSUME NEW T, \E t : T = {t}, T \subseteq P!TxsOf(chain), WorldInv
  PROVE  P!HeightOf(CHOOSE t \in T : TRUE) \in 1 .. MaxBlocks
<1>1. PICK t : T = {t}
  OBVIOUS
<1>2. (CHOOSE x \in T : TRUE) = t
  BY <1>1
<1>3. PICK h \in DOMAIN chain : \E i \in DOMAIN chain[h] : chain[h][i] = t
  BY <1>1 DEF P!TxsOf
<1>4. P!HeightOf(t) \in DOMAIN chain
  BY <1>3 DEF P!HeightOf
<1>5. PICK S : chain \in Seq(S)
  BY DEF WorldInv, IsChain
<1>6. DOMAIN chain = 1 .. Len(chain) /\ Len(chain) \in 1 .. MaxBlocks
  BY <1>5 DEF WorldInv
<1>7. 1 .. Len(chain) \subseteq 1 .. MaxBlocks
  BY <1>6, RehearsalAssumption
<1> QED BY <1>2, <1>4, <1>6, <1>7

(* A process that ends leaves nothing in hand.                             *)
LEMMA StepIdle ==
  ASSUME StepInv, P!Idle, mode' = mode
  PROVE  StepInv'
<1>1. /\ pc' = "off" /\ at' = 0 /\ target' = 0 /\ cur' = P!NoStep
  BY DEF P!Idle
<1>2. 0 \in 0 .. MaxBlocks
  BY RehearsalAssumption
<1>3. cur' = [op |-> cur'.op, tx |-> cur'.tx]
  BY <1>1 DEF P!NoStep
<1> QED BY <1>1, <1>2, <1>3 DEF StepInv, Holding

(* A step of the world leaves the process alone.                           *)
LEMMA StepSame ==
  ASSUME StepInv, mode' = mode, pc' = pc, at' = at, target' = target, cur' = cur, manifest' = manifest
  PROVE  StepInv'
  BY DEF StepInv

(* Every step keeps one transaction in hand, on disk before it is sent.    *)
LEMMA StepStep == RunInv /\ [P!Next]_P!vars => StepInv'
<1> SUFFICES ASSUME RunInv, [P!Next]_P!vars PROVE StepInv'
  OBVIOUS
<1>0. StepInv /\ WorldInv /\ IsManifest(manifest)
  BY DEF RunInv
<1>1. P!NoStep = [op |-> P!NoStep.op, tx |-> P!NoStep.tx]
  BY DEF P!NoStep
<1>2. CASE \E y \in BOOLEAN : \E x, f : P!Start(y, x, f)
  <2>1. mode' = mode /\ pc' = "replay" /\ cur' = P!NoStep /\ at' = Len(chain) /\ target' = Len(chain)
    BY <1>2 DEF P!Start
  <2>2. Len(chain) \in 0 .. MaxBlocks
    BY <1>0 DEF WorldInv
  <2> QED BY <1>0, <1>1, <2>1, <2>2 DEF StepInv, Holding
<1>3. CASE P!IndexNext
  <2>1. CASE P!Idle
    BY <1>0, <1>3, <2>1, StepIdle DEF P!IndexNext
  <2>2. CASE ~P!Idle
    <3>1. /\ pc' = pc /\ cur' = cur /\ target' = target /\ mode' = mode /\ manifest' = manifest
          /\ at < Len(chain) /\ at' = at + 1 /\ pc \in {"catchup", "confirmed", "resolved"}
      BY <1>3, <2>2 DEF P!IndexNext, P!disk
    <3>2. at + 1 \in 0 .. MaxBlocks
      BY <1>0, <3>1, RehearsalAssumption DEF StepInv, WorldInv
    <3> QED BY <1>0, <3>1, <3>2 DEF StepInv
  <2> QED BY <2>1, <2>2
<1>4. CASE P!Finalize
  <2>1. P!BeginReplay
    BY <1>4 DEF P!Finalize
  <2> QED
    <3>1. mode' = mode /\ pc' = "final" /\ cur' = P!NoStep /\ at' = at /\ target' \in {Len(chain), at}
      BY <1>4, <2>1 DEF P!BeginReplay
    <3>2. target' \in 0 .. MaxBlocks
      BY <1>0, <3>1 DEF StepInv, WorldInv
    <3> QED BY <1>0, <1>1, <3>1, <3>2 DEF StepInv, Holding
<1>5. CASE P!ResolveConfirmed
  <2>1. PICK o, T : o = P!Op /\ T = manifest[o].recorded
    OBVIOUS
  <2>2. o \in P!Ops /\ mode = "canary" /\ T # {}
    BY <1>5, <2>1, OpIn DEF P!ResolveConfirmed, P!Recorded
  <2>3. \E t : T = {t} /\ t.op = o
    BY <1>0, <2>1, <2>2 DEF IsManifest, IsStep, OneOf
  <2>4. pc' = "resolved" /\ cur' = [op |-> o, tx |-> T] /\ at' = at /\ mode' = mode /\ manifest' = manifest
    BY <1>5, <2>1 DEF P!ResolveConfirmed, P!disk
  <2>5. target' \in 0 .. MaxBlocks
    <3>1. T \subseteq P!TxsOf(chain) /\ target' = P!HeightOf(CHOOSE t \in T : TRUE)
      BY <1>5, <2>1 DEF P!ResolveConfirmed, P!RecordedIsIn
    <3>2. P!HeightOf(CHOOSE t \in T : TRUE) \in 1 .. MaxBlocks
      BY <1>0, <2>3, <3>1, HeightIn
    <3> QED BY <3>1, <3>2, RehearsalAssumption
  <2>6. cur'.op = o /\ cur'.tx = T /\ cur' = [op |-> cur'.op, tx |-> cur'.tx]
    BY <2>4
  <2>7. manifest'[cur'.op].recorded = cur'.tx
    BY <2>1, <2>4, <2>6
  <2> QED BY <1>0, <2>2, <2>3, <2>4, <2>5, <2>6, <2>7 DEF StepInv, Holding
<1>6. CASE P!ResolvePending
  BY <1>0, <1>6, StepIdle DEF P!ResolvePending, P!Exit
<1>7. CASE P!ResolveLost
  <2>1. PICK o, T : o = P!Op /\ T = manifest[o].recorded
    OBVIOUS
  <2>2. o \in P!Ops /\ mode = "canary" /\ T # {}
    BY <1>7, <2>1, OpIn DEF P!ResolveLost, P!Recorded
  <2>3. \E t : T = {t} /\ t.op = o
    BY <1>0, <2>1, <2>2 DEF IsManifest, IsStep, OneOf
  <2>4. pc' = "send" /\ cur' = [op |-> o, tx |-> T] /\ at' = at /\ mode' = mode /\ manifest' = manifest
    BY <1>7, <2>1 DEF P!ResolveLost, P!Goto, P!disk
  <2>5. target' \in 0 .. MaxBlocks
    BY <1>0, <1>7 DEF P!ResolveLost, P!Goto, StepInv
  <2>6. cur'.op = o /\ cur'.tx = T /\ cur' = [op |-> cur'.op, tx |-> cur'.tx]
    BY <2>4
  <2>7. manifest'[cur'.op].recorded = cur'.tx
    BY <2>1, <2>4, <2>6
  <2> QED BY <1>0, <2>2, <2>3, <2>4, <2>5, <2>6, <2>7 DEF StepInv, Holding
<1>8. CASE P!Export
  BY <1>0, <1>8, StepIdle DEF P!Export
<1>9. CASE P!Import
  <2>1. mode' = mode /\ mode = "canary"
    BY <1>9, OpIn DEF P!Import
  <2>2. CASE P!Idle
    BY <1>0, <2>1, <2>2, StepIdle
  <2>3. CASE ~P!Idle
    <3>1. PICK o \in P!Ops : \E t :
            /\ t.op = o
            /\ Writes(manifest, manifest', o, {t}, manifest[o].done)
            /\ pc' = "send" /\ Holds(cur', o, t) /\ at' = at /\ target' = target
      BY <1>0, <1>9, <2>3, ImportWrites
    <3>2. PICK t : /\ t.op = o
                   /\ Writes(manifest, manifest', o, {t}, manifest[o].done)
                   /\ pc' = "send" /\ Holds(cur', o, t) /\ at' = at /\ target' = target
      BY <3>1
    <3> QED BY <1>0, <2>1, <3>2 DEF StepInv, Holding, Holds, Writes
  <2> QED BY <2>2, <2>3
<1>10. CASE P!ProofBlocked
  BY <1>0, <1>10, StepIdle DEF P!ProofBlocked, P!Exit
<1>11. CASE P!ProofDone
  <2>1. CASE P!BeginReplay
    <3>1. mode' = mode /\ pc' = "final" /\ cur' = P!NoStep /\ at' = at /\ target' \in {Len(chain), at}
      BY <1>11, <2>1 DEF P!BeginReplay
    <3>2. target' \in 0 .. MaxBlocks
      BY <1>0, <3>1 DEF StepInv, WorldInv
    <3> QED BY <1>0, <1>1, <3>1, <3>2 DEF StepInv, Holding
  <2>2. CASE ~P!BeginReplay
    <3>1. mode' = mode /\ pc' = "complete" /\ cur' = P!NoStep /\ at' = at /\ target' = target
      BY <1>11, <2>2 DEF P!ProofDone, P!Goto
    <3> QED BY <1>0, <1>1, <3>1 DEF StepInv, Holding
  <2> QED BY <2>1, <2>2
<1>12. CASE P!ProofStep
  <2>1. PICK o : o = P!Decided
    OBVIOUS
  <2>2. o \in P!Ops
    BY <1>12, <2>1 DEF P!ProofStep
  <2>3. manifest[o].recorded = {}
    BY <2>1, <2>2 DEF P!Decided, P!decideNextAction, P!Ops
  <2>4. pc' = "catchup" /\ target' = Len(chain) /\ cur' = [op |-> o, tx |-> {}] /\ mode' = mode /\ at' = at /\ manifest' = manifest
    BY <1>12, <2>1 DEF P!ProofStep, P!disk
  <2>5. cur'.op = o /\ cur' = [op |-> cur'.op, tx |-> cur'.tx]
    BY <2>4
  <2>6. Len(chain) \in 0 .. MaxBlocks
    BY <1>0 DEF WorldInv
  <2>7. manifest'[cur'.op].recorded = {}
    BY <2>3, <2>4, <2>5
  <2> QED BY <1>0, <2>2, <2>4, <2>5, <2>6, <2>7 DEF StepInv, Holding
<1>13. CASE P!ProofBuild
  <2>1. mode' = mode /\ pc = "catchup"
    BY <1>13 DEF P!ProofBuild, P!At
  <2>2. CASE P!Idle
    BY <1>0, <2>1, <2>2, StepIdle
  <2>3. CASE ~P!Idle
    <3>1. PICK t : /\ t.op = cur.op /\ pc' = "send" /\ Holds(cur', cur.op, t) /\ at' = at /\ target' = target
                   /\ \/ mode = "signet" /\ manifest' = manifest
                      \/ mode # "signet" /\ Writes(manifest, manifest', cur.op, {t}, manifest[cur.op].done)
      BY <1>0, <1>13, <2>3, ProofBuildWrites
    <3>2. cur.op \in P!Ops /\ manifest[cur.op].recorded = {}
      BY <1>0, <2>1 DEF StepInv
    <3>3. cur'.op = cur.op /\ cur'.tx = {t} /\ cur' = [op |-> cur'.op, tx |-> cur'.tx]
      BY <3>1 DEF Holds
    <3>4. mode = "signet" => manifest'[cur'.op].recorded = {}
      BY <3>1, <3>2, <3>3
    <3>5. mode # "signet" => manifest'[cur'.op].recorded = cur'.tx
      BY <3>1, <3>3 DEF Writes
    <3> QED BY <1>0, <2>1, <3>1, <3>2, <3>3, <3>4, <3>5 DEF StepInv, Holding
  <2> QED BY <2>2, <2>3
<1>14. CASE P!ProofSave
  <2>1. mode' = mode /\ pc = "save" /\ pc' = "wait" /\ cur' = cur /\ at' = at /\ target' = target
    BY <1>14 DEF P!ProofSave, P!Goto
  <2> QED BY <1>0, <2>1 DEF StepInv, Holding
<1>15. CASE P!Send
  <2>1. mode' = mode /\ pc = "send" /\ manifest' = manifest
    BY <1>15 DEF P!Send, P!disk
  <2>2. CASE P!Idle
    BY <1>0, <2>1, <2>2, StepIdle
  <2>3. CASE ~P!Idle
    <3>1. P!Goto(IF mode = "signet" THEN "save" ELSE "wait", cur)
      BY <1>15, <2>3, Zenon DEF P!Send
    <3>2. /\ pc' = IF mode = "signet" THEN "save" ELSE "wait"
          /\ cur' = cur /\ at' = at /\ target' = target
      BY <3>1 DEF P!Goto
    <3>3. CASE mode = "signet"
      BY <1>0, <2>1, <3>2, <3>3 DEF StepInv, Holding
    <3>4. CASE mode # "signet"
      BY <1>0, <2>1, <3>2, <3>4 DEF StepInv, Holding
    <3> QED BY <3>3, <3>4
  <2> QED BY <2>2, <2>3
<1>16. CASE P!SeesConfirmed
  <2>1. /\ mode' = mode /\ pc = "wait" /\ pc' = "confirmed" /\ cur' = cur /\ at' = at
        /\ cur.tx \subseteq P!TxsOf(chain) /\ target' = P!HeightOf(CHOOSE t \in cur.tx : TRUE)
    BY <1>16 DEF P!SeesConfirmed
  <2>2. \E t : cur.tx = {t}
    BY <1>0, <2>1 DEF StepInv, Holding
  <2>3. target' \in 1 .. MaxBlocks
    BY <1>0, <2>1, <2>2, HeightIn
  <2>4. target' \in 0 .. MaxBlocks
    BY <2>3, RehearsalAssumption
  <2> QED BY <1>0, <2>1, <2>4 DEF StepInv, Holding
<1>17. CASE P!TimesOut
  BY <1>0, <1>17, StepIdle DEF P!TimesOut, P!Exit
<1>18. CASE P!Indexed
  <2>1. mode' = mode
    BY <1>18 DEF P!Indexed
  <2>2. CASE P!Idle
    BY <1>0, <2>1, <2>2, StepIdle
  <2>3. CASE ~P!Idle
    <3>1. pc' = "replay" /\ cur' = P!NoStep /\ at' \in {at, target} /\ target' \in {at, target}
      BY <1>0, <1>18, <2>3, IndexedWrites
    <3> QED BY <1>0, <1>1, <2>1, <3>1 DEF StepInv, Holding
  <2> QED BY <2>2, <2>3
<1>19. CASE P!ReplayNext
  <2>1. CASE P!Idle
    BY <1>0, <1>19, <2>1, StepIdle DEF P!ReplayNext
  <2>2. CASE ~P!Idle
    BY <1>0, <1>19, <2>2, StepSame DEF P!ReplayNext, P!disk
  <2> QED BY <2>1, <2>2
<1>20. CASE P!Finish
  <2>1. CASE P!Idle
    BY <1>0, <1>20, <2>1, StepIdle DEF P!Finish
  <2>2. CASE ~P!Idle
    <3>1. mode' = mode /\ pc' = "complete" /\ cur' = P!NoStep /\ at' = at /\ target' = target
      BY <1>20, <2>2 DEF P!Finish, P!Goto
    <3> QED BY <1>0, <1>1, <3>1 DEF StepInv, Holding
  <2> QED BY <2>1, <2>2
<1>21. CASE \E t \in mempool : P!Mine(t)
  BY <1>0, <1>21, StepSame DEF P!Mine, P!disk, P!history, P!process
<1>22. CASE \E t \in mempool : P!Evict(t)
  BY <1>0, <1>22, StepSame DEF P!Evict, P!Fault, P!disk, P!history, P!process
<1>23. CASE \E op \in {"DEPLOY", "MINT"} : P!MineRival(op)
  BY <1>0, <1>23, StepSame DEF P!MineRival, P!Fault, P!disk, P!history, P!process
<1>24. CASE P!Reorg
  BY <1>0, <1>24, StepSame DEF P!Reorg, P!Fault, P!disk, P!history, P!process
<1>25. CASE P!Crash
  BY <1>0, <1>25, StepIdle DEF P!Crash
<1>26. CASE UNCHANGED P!vars
  BY <1>0, <1>26, StepSame DEF P!vars, P!disk, P!history, P!process
<1> QED BY <1>2, <1>3, <1>4, <1>5, <1>6, <1>7, <1>8, <1>9, <1>10, <1>11, <1>12, <1>13, <1>14, <1>15, <1>16, <1>17, <1>18, <1>19, <1>20, <1>21, <1>22, <1>23, <1>24, <1>25, <1>26, NextCases

(* What was sent stays recorded when no record changes.                    *)
LEMMA SentKeep ==
  ASSUME P!SentIsRecorded, mode' = mode, posted' = posted, unsaved' = unsaved,
         \A t \in posted : manifest'[t.op].recorded = manifest[t.op].recorded,
         pc # "save" \/ (pc' = pc /\ cur' = cur)
  PROVE  P!SentIsRecorded'
  BY DEF P!SentIsRecorded

(* Every step keeps what was sent recorded.                                *)
LEMMA SentStep == RunInv /\ [P!Next]_P!vars => P!SentIsRecorded'
<1> SUFFICES ASSUME RunInv, [P!Next]_P!vars PROVE P!SentIsRecorded'
  OBVIOUS
<1>0. StepInv /\ WorldInv /\ IsManifest(manifest) /\ P!SentIsRecorded
  BY DEF RunInv
<1>2. CASE \E y \in BOOLEAN : \E x, f : P!Start(y, x, f)
  <2>1. pc # "save"
    BY <1>2 DEF P!Start
  <2>2. mode' = mode /\ posted' = posted /\ unsaved' = unsaved /\ manifest' = manifest
    BY <1>2 DEF P!Start, P!disk, P!history
  <2> QED BY <1>0, <2>1, <2>2, SentKeep
<1>3. CASE P!IndexNext
  <2>1. pc # "save"
    BY <1>3 DEF P!IndexNext
  <2>2. mode' = mode /\ posted' = posted /\ unsaved' = unsaved /\ manifest' = manifest
    BY <1>3 DEF P!IndexNext, P!disk, P!history
  <2> QED BY <1>0, <2>1, <2>2, SentKeep
<1>4. CASE P!Finalize
  <2>1. pc # "save"
    BY <1>4 DEF P!Finalize, P!At
  <2>2. mode' = mode /\ posted' = posted /\ unsaved' = unsaved /\ manifest' = manifest
    BY <1>4 DEF P!Finalize, P!BeginReplay, P!disk, P!history
  <2> QED BY <1>0, <2>1, <2>2, SentKeep
<1>5. CASE P!ResolveConfirmed
  <2>1. pc # "save"
    BY <1>5, OpIn DEF P!ResolveConfirmed, P!Recorded
  <2>2. mode' = mode /\ posted' = posted /\ unsaved' = unsaved /\ manifest' = manifest
    BY <1>5 DEF P!ResolveConfirmed, P!disk, P!history
  <2> QED BY <1>0, <2>1, <2>2, SentKeep
<1>6. CASE P!ResolvePending
  <2>1. pc # "save"
    BY <1>6, OpIn DEF P!ResolvePending, P!Recorded
  <2>2. mode' = mode /\ posted' = posted /\ unsaved' = unsaved /\ manifest' = manifest
    BY <1>6 DEF P!ResolvePending, P!Exit, P!disk, P!history
  <2> QED BY <1>0, <2>1, <2>2, SentKeep
<1>7. CASE P!ResolveLost
  <2>1. pc # "save"
    BY <1>7, OpIn DEF P!ResolveLost, P!Recorded
  <2>2. mode' = mode /\ posted' = posted /\ unsaved' = unsaved /\ manifest' = manifest
    BY <1>7 DEF P!ResolveLost, P!disk, P!history
  <2> QED BY <1>0, <2>1, <2>2, SentKeep
<1>8. CASE P!Export
  <2>1. pc # "save" /\ mode' = mode /\ posted' = posted /\ unsaved' = unsaved
    BY <1>8, OpIn DEF P!Export, P!history
  <2>2. \A t \in posted : manifest'[t.op].recorded = manifest[t.op].recorded
    BY <1>0, <1>8, ExportWrites DEF Writes, WorldInv
  <2> QED BY <1>0, <2>1, <2>2, SentKeep
<1>9. CASE P!Import
  <2>1. pc # "save" /\ mode = "canary" /\ mode' = mode /\ posted' = posted /\ unsaved' = unsaved
    BY <1>9, OpIn DEF P!Import, P!history
  <2>2. CASE manifest' = manifest
    BY <1>0, <2>1, <2>2, SentKeep
  <2>3. CASE manifest' # manifest
    <3>1. PICK o \in P!Ops : \E t : /\ manifest[o].recorded = {} \/ manifest[o].recorded = {t}
                                   /\ Writes(manifest, manifest', o, {t}, manifest[o].done)
      BY <1>0, <1>9, <2>3, ImportWrites
    <3>2. PICK t : /\ manifest[o].recorded = {} \/ manifest[o].recorded = {t}
                   /\ Writes(manifest, manifest', o, {t}, manifest[o].done)
      BY <3>1
    <3>3. SUFFICES ASSUME NEW u \in posted' \ unsaved' PROVE manifest'[u.op].recorded = {u}
      BY DEF P!SentIsRecorded
    <3>4. u.op \in P!Ops /\ manifest[u.op].recorded = {u}
      BY <1>0, <2>1, <3>3 DEF P!SentIsRecorded, WorldInv
    <3>5. CASE u.op = o
      BY <3>2, <3>4, <3>5 DEF Writes
    <3>6. CASE u.op # o
      BY <3>2, <3>4, <3>6 DEF Writes
    <3> QED BY <3>5, <3>6
  <2> QED BY <2>2, <2>3
<1>10. CASE P!ProofBlocked
  <2>1. pc # "save"
    BY <1>10 DEF P!ProofBlocked, P!AtDecision, P!At
  <2>2. mode' = mode /\ posted' = posted /\ unsaved' = unsaved /\ manifest' = manifest
    BY <1>10 DEF P!ProofBlocked, P!Exit, P!disk, P!history
  <2> QED BY <1>0, <2>1, <2>2, SentKeep
<1>11. CASE P!ProofDone
  <2>1. pc # "save"
    BY <1>11 DEF P!ProofDone, P!AtDecision, P!At
  <2>2. mode' = mode /\ posted' = posted /\ unsaved' = unsaved /\ manifest' = manifest
    BY <1>11 DEF P!ProofDone, P!BeginReplay, P!disk, P!history
  <2> QED BY <1>0, <2>1, <2>2, SentKeep
<1>12. CASE P!ProofStep
  <2>1. pc # "save"
    BY <1>12 DEF P!ProofStep, P!AtDecision, P!At
  <2>2. mode' = mode /\ posted' = posted /\ unsaved' = unsaved /\ manifest' = manifest
    BY <1>12 DEF P!ProofStep, P!disk, P!history
  <2> QED BY <1>0, <2>1, <2>2, SentKeep
<1>13. CASE P!ProofBuild
  <2>1. pc = "catchup" /\ mode' = mode /\ posted' = posted /\ unsaved' = unsaved
    BY <1>13 DEF P!ProofBuild, P!At, P!history
  <2>2. CASE manifest' = manifest
    BY <1>0, <2>1, <2>2, SentKeep
  <2>3. CASE manifest' # manifest
    <3>1. mode # "signet" /\ \A x \in P!Ops : x # cur.op => manifest'[x] = manifest[x]
      BY <1>0, <1>13, <2>3, ProofBuildWrites DEF Writes
    <3>2. manifest[cur.op].recorded = {}
      BY <1>0, <2>1 DEF StepInv
    <3>3. SUFFICES ASSUME NEW u \in posted' \ unsaved' PROVE manifest'[u.op].recorded = {u}
      BY DEF P!SentIsRecorded
    <3>4. u.op \in P!Ops /\ manifest[u.op].recorded = {u}
      BY <1>0, <2>1, <3>1, <3>3 DEF P!SentIsRecorded, WorldInv
    <3>5. u.op # cur.op
      BY <3>2, <3>4
    <3> QED BY <3>1, <3>4, <3>5
  <2> QED BY <2>2, <2>3
<1>14. CASE P!ProofSave
  <2>1. pc = "save" /\ mode' = mode /\ posted' = posted /\ unsaved' = unsaved
    BY <1>14 DEF P!ProofSave, P!history
  <2>2. Writes(manifest, manifest', cur.op, cur.tx, manifest[cur.op].done)
    BY <1>0, <1>14, ProofSaveWrites
  <2>3. /\ manifest[cur.op].recorded = {} /\ mode = "signet"
        /\ \E t : cur.tx = {t} /\ t.op = cur.op
    BY <1>0, <2>1 DEF StepInv, Holding
  <2>4. CASE unsaved # {}
    BY <2>1, <2>3, <2>4 DEF P!SentIsRecorded
  <2>5. CASE unsaved = {}
    <3>1. SUFFICES ASSUME NEW u \in posted' \ unsaved' PROVE manifest'[u.op].recorded = {u}
      BY DEF P!SentIsRecorded
    <3>2. u.op \in P!Ops /\ (manifest[u.op].recorded = {u} \/ cur.tx = {u})
      BY <1>0, <2>1, <2>5, <3>1 DEF P!SentIsRecorded, WorldInv
    <3>3. CASE cur.tx = {u}
      BY <2>2, <2>3, <3>3 DEF Writes
    <3>4. CASE cur.tx # {u}
      <4>1. u.op # cur.op
        BY <2>3, <3>2, <3>4
      <4> QED BY <2>2, <3>2, <3>4, <4>1 DEF Writes
    <3> QED BY <3>3, <3>4
  <2> QED BY <2>4, <2>5
<1>15. CASE P!Send
  <2>1. pc = "send" /\ mode' = mode /\ manifest' = manifest /\ unsaved' = unsaved
    BY <1>15 DEF P!Send, P!disk
  <2>2. CASE P!Idle
    <3>1. CASE posted' = posted
      BY <1>0, <2>1, <3>1, SentKeep
    <3>2. CASE posted' # posted
      BY <1>15, <2>2, <3>2 DEF P!Send, P!Idle, P!Goto
    <3> QED BY <3>1, <3>2
  <2>3. CASE ~P!Idle
    <3>1. posted' = posted \cup cur.tx /\ P!Goto(IF mode = "signet" THEN "save" ELSE "wait", cur)
      BY <1>15, <2>3, Zenon DEF P!Send
    <3>2. cur' = cur /\ (mode = "signet" => pc' = "save")
      BY <3>1 DEF P!Goto
    <3>3. PICK t : cur.tx = {t} /\ t.op = cur.op
      BY <1>0, <2>1 DEF StepInv, Holding
    <3>4. mode # "signet" => manifest[cur.op].recorded = cur.tx
      BY <1>0, <2>1 DEF StepInv
    <3>5. SUFFICES ASSUME NEW u \in posted' \ unsaved'
                   PROVE  \/ manifest'[u.op].recorded = {u}
                          \/ mode' = "signet" /\ (unsaved' # {} \/ (pc' = "save" /\ cur'.tx = {u}))
      BY DEF P!SentIsRecorded
    <3>6. CASE u = t
      BY <2>1, <3>2, <3>3, <3>4, <3>6
    <3>7. CASE u # t
      BY <1>0, <2>1, <3>1, <3>3, <3>5, <3>7 DEF P!SentIsRecorded
    <3> QED BY <3>6, <3>7
  <2> QED BY <2>2, <2>3
<1>16. CASE P!SeesConfirmed
  <2>1. pc # "save"
    BY <1>16 DEF P!SeesConfirmed
  <2>2. mode' = mode /\ posted' = posted /\ unsaved' = unsaved /\ manifest' = manifest
    BY <1>16 DEF P!SeesConfirmed, P!disk, P!history
  <2> QED BY <1>0, <2>1, <2>2, SentKeep
<1>17. CASE P!TimesOut
  <2>1. pc # "save"
    BY <1>17 DEF P!TimesOut
  <2>2. mode' = mode /\ posted' = posted /\ unsaved' = unsaved /\ manifest' = manifest
    BY <1>17 DEF P!TimesOut, P!Exit, P!disk, P!history
  <2> QED BY <1>0, <2>1, <2>2, SentKeep
<1>18. CASE P!Indexed
  <2>1. pc # "save" /\ mode' = mode /\ posted' = posted /\ unsaved' = unsaved
    BY <1>18 DEF P!Indexed, P!At, P!history
  <2>2. \A t \in posted : manifest'[t.op].recorded = manifest[t.op].recorded
    BY <1>0, <1>18, IndexedWrites DEF Writes, WorldInv
  <2> QED BY <1>0, <2>1, <2>2, SentKeep
<1>19. CASE P!ReplayNext
  <2>1. pc # "save"
    BY <1>19 DEF P!ReplayNext
  <2>2. mode' = mode /\ posted' = posted /\ unsaved' = unsaved /\ manifest' = manifest
    BY <1>19 DEF P!ReplayNext, P!disk, P!history
  <2> QED BY <1>0, <2>1, <2>2, SentKeep
<1>20. CASE P!Finish
  <2>1. pc # "save"
    BY <1>20 DEF P!Finish
  <2>2. mode' = mode /\ posted' = posted /\ unsaved' = unsaved /\ manifest' = manifest
    BY <1>20 DEF P!Finish, P!disk, P!history
  <2> QED BY <1>0, <2>1, <2>2, SentKeep
<1>21. CASE \E t \in mempool : P!Mine(t)
  BY <1>0, <1>21, SentKeep DEF P!Mine, P!disk, P!history, P!process
<1>22. CASE \E t \in mempool : P!Evict(t)
  BY <1>0, <1>22, SentKeep DEF P!Evict, P!Fault, P!disk, P!history, P!process
<1>23. CASE \E op \in {"DEPLOY", "MINT"} : P!MineRival(op)
  BY <1>0, <1>23, SentKeep DEF P!MineRival, P!Fault, P!disk, P!history, P!process
<1>24. CASE P!Reorg
  BY <1>0, <1>24, SentKeep DEF P!Reorg, P!Fault, P!disk, P!history, P!process
<1>25. CASE P!Crash
  <2>1. /\ mode' = mode /\ posted' = posted /\ manifest' = manifest
        /\ unsaved' = IF pc = "save" THEN unsaved \cup cur.tx ELSE unsaved
    BY <1>25 DEF P!Crash, P!disk
  <2>2. CASE pc # "save"
    BY <1>0, <2>1, <2>2, SentKeep
  <2>3. CASE pc = "save"
    <3>1. mode = "signet" /\ unsaved' # {}
      BY <1>0, <2>1, <2>3 DEF StepInv, Holding
    <3> QED BY <2>1, <3>1 DEF P!SentIsRecorded
  <2> QED BY <2>2, <2>3
<1>26. CASE UNCHANGED P!vars
  BY <1>0, <1>26, SentKeep DEF P!vars, P!disk, P!history, P!process
<1> QED BY <1>2, <1>3, <1>4, <1>5, <1>6, <1>7, <1>8, <1>9, <1>10, <1>11, <1>12, <1>13, <1>14, <1>15, <1>16, <1>17, <1>18, <1>19, <1>20, <1>21, <1>22, <1>23, <1>24, <1>25, <1>26, NextCases


(* A fault adds one to its own count.                                      *)
LEMMA FaultTally ==
  ASSUME NEW f, Tally(f), NEW k \in {"lost", "rivals", "fees", "reorgs"}, NEW g, g = [f EXCEPT ![k] = @ + 1]
  PROVE  Tally(g) /\ g.reorgs = IF k = "reorgs" THEN f.reorgs + 1 ELSE f.reorgs
<1>1. PICK x : x = f[k] + 1
  OBVIOUS
<1>2. g = [f EXCEPT ![k] = x]
  BY <1>1
<1>3. CASE k = "lost"
  <2>1. g = [f EXCEPT !.lost = x]
    BY <1>2, <1>3
  <2> QED BY <1>3, <2>1 DEF Tally
<1>4. CASE k = "rivals"
  <2>1. g = [f EXCEPT !.rivals = x]
    BY <1>2, <1>4
  <2> QED BY <1>4, <2>1 DEF Tally
<1>5. CASE k = "fees"
  <2>1. g = [f EXCEPT !.fees = x]
    BY <1>2, <1>5
  <2> QED BY <1>5, <2>1 DEF Tally
<1>6. CASE k = "reorgs"
  <2>1. g = [f EXCEPT !.reorgs = x] /\ x = f.reorgs + 1
    BY <1>1, <1>2, <1>6
  <2>2. x \in Nat
    BY <2>1 DEF Tally
  <2>3. g.reorgs = x /\ g = [lost |-> g.lost, reorgs |-> g.reorgs, rivals |-> g.rivals, fees |-> g.fees]
    BY <2>1 DEF Tally
  <2> QED BY <1>6, <2>1, <2>2, <2>3 DEF Tally
<1> QED BY <1>3, <1>4, <1>5, <1>6

(* Only a reorganisation counts as one.                                    *)
LEMMA FaultKeeps ==
  ASSUME NEW k \in {"lost", "rivals", "fees", "reorgs"}, Tally(faults), P!Fault(k)
  PROVE  Tally(faults') /\ faults'.reorgs = IF k = "reorgs" THEN faults.reorgs + 1 ELSE faults.reorgs
<1>1. PICK g : g = faults'
  OBVIOUS
<1>2. g = [faults EXCEPT ![k] = @ + 1]
  BY <1>1 DEF P!Fault
<1>3. Tally(g)
  BY <1>2, FaultTally
<1>4. CASE k = "reorgs"
  <2>1. PICK x : x = faults.reorgs + 1
    OBVIOUS
  <2>2. g = [faults EXCEPT !.reorgs = x]
    BY <1>2, <1>4, <2>1
  <2>3. g.reorgs = faults.reorgs + 1
    BY <2>1, <2>2 DEF Tally
  <2> QED BY <1>1, <1>3, <1>4, <2>3
<1>5. CASE k # "reorgs"
  <2>1. g.reorgs = faults.reorgs
    BY <1>2, <1>5, FaultTally
  <2> QED BY <1>1, <1>3, <1>5, <2>1
<1> QED BY <1>4, <1>5

(* The index kept or dropped on an unmoved chain.                          *)
LEMMA IndexKeep ==
  ASSUME IndexInv, WorldInv, Tally(faults'), faults'.reorgs = faults.reorgs, chain' = chain,
         live' = live \/ live' = P!Fresh,
         \A op \in P!Ops : manifest'[op].done = manifest[op].done
  PROVE  IndexInv'
<1>1. PICK S : chain \in Seq(S)
  BY DEF WorldInv, IsChain
<1>2. P!Fresh.h = 0 /\ P!Fresh = Heights(chain)[0] /\ 0 \in 0 .. Len(chain)
  BY <1>1, HeightsAre, FreshIndex
<1>3. CASE live' = live
  BY <1>3 DEF IndexInv
<1>4. CASE live' = P!Fresh
  <2>1. live'.h \in 0 .. Len(chain) /\ live' = Heights(chain)[live'.h]
    BY <1>2, <1>4
  <2> QED BY <2>1 DEF IndexInv
<1> QED BY <1>3, <1>4

(* A block more on the chain leaves what is indexed, and what is done.     *)
LEMMA IndexGrow ==
  ASSUME IndexInv, WorldInv, Tally(faults'), faults'.reorgs = faults.reorgs,
         NEW b, Block(b), chain' = Append(chain, b), live' = live, manifest' = manifest
  PROVE  IndexInv'
<1>1. PICK d : d = chain'
  OBVIOUS
<1>2. /\ Len(chain) \in Nat /\ Len(d) = Len(chain) + 1
      /\ \A h \in 0 .. Len(chain) : Heights(d)[h] = Heights(chain)[h]
      /\ P!Replay(chain).valid \subseteq P!Replay(d).valid
  BY <1>1, ChainGrows DEF WorldInv
<1>3. SUFFICES ASSUME faults'.reorgs = 0
               PROVE  /\ live'.h \in 0 .. Len(d) /\ live' = Heights(d)[live'.h]
                      /\ \A op \in P!Ops : manifest'[op].done \subseteq P!Replay(d).valid
  BY <1>1 DEF IndexInv
<1>4. /\ live.h \in 0 .. Len(chain) /\ live = Heights(chain)[live.h]
      /\ \A op \in P!Ops : manifest[op].done \subseteq P!Replay(chain).valid
  BY <1>3 DEF IndexInv
<1>5. live.h \in 0 .. Len(d)
  BY <1>2, <1>4
<1>6. Heights(d)[live.h] = Heights(chain)[live.h]
  BY <1>2, <1>4
<1> QED BY <1>2, <1>4, <1>5, <1>6

(* Every step keeps the index on the chain and what is done valid.         *)
LEMMA IndexStep == RunInv /\ [P!Next]_P!vars => IndexInv'
<1> SUFFICES ASSUME RunInv, [P!Next]_P!vars PROVE IndexInv'
  OBVIOUS
<1>0. StepInv /\ WorldInv /\ IsManifest(manifest) /\ IndexInv
  BY DEF RunInv
<1>1. Tally(faults)
  BY <1>0 DEF IndexInv
<1>s. PICK S : chain \in Seq(S) /\ \A b \in S : Block(b)
  BY <1>0 DEF WorldInv, IsChain
<1>2. CASE \E y \in BOOLEAN : \E x, f : P!Start(y, x, f)
  <2>1. live' = P!Replay(chain) /\ chain' = chain /\ manifest' = manifest /\ (faults' = faults \/ P!Fault("fees"))
    BY <1>2 DEF P!Start, P!disk
  <2>2. Tally(faults') /\ faults'.reorgs = faults.reorgs
    BY <1>1, <2>1, FaultKeeps
  <2>3. Len(chain) \in Nat /\ Len(chain) \in 0 .. Len(chain)
    BY <1>s
  <2>4. P!Replay(chain) = Heights(chain)[Len(chain)] /\ Heights(chain)[Len(chain)].h = Len(chain)
    BY <1>s, <2>3, HeightsAre, HeightsIndex
  <2> QED BY <1>0, <2>1, <2>2, <2>3, <2>4 DEF IndexInv
<1>3. CASE P!IndexNext
  <2>1. chain' = chain /\ manifest' = manifest /\ faults' = faults
    BY <1>3 DEF P!IndexNext, P!disk
  <2>2. CASE P!Idle
    BY <1>0, <1>1, <2>1, <2>2, IndexKeep DEF P!Idle
  <2>3. CASE ~P!Idle
    <3>1. at < Len(chain) /\ live.h = at /\ live' = P!indexBlock(live, chain[at + 1])
      BY <1>3, <2>3 DEF P!IndexNext
    <3>2. SUFFICES ASSUME faults.reorgs = 0
                   PROVE  live'.h \in 0 .. Len(chain) /\ live' = Heights(chain)[live'.h]
      BY <1>0, <1>1, <2>1 DEF IndexInv
    <3>3. live.h \in 0 .. Len(chain) /\ live = Heights(chain)[live.h] /\ Len(chain) \in Nat
      BY <1>0, <1>s, <3>2 DEF IndexInv
    <3>4. PICK k : k = live.h + 1
      OBVIOUS
    <3>5. k \in 1 .. Len(chain) /\ k \in 0 .. Len(chain) /\ k - 1 = live.h /\ k = at + 1
      BY <3>1, <3>3, <3>4
    <3>6. Heights(chain)[k] = P!indexBlock(Heights(chain)[k - 1], chain[k])
      BY <1>s, <3>5, HeightsAre
    <3>7. live' = Heights(chain)[k]
      BY <3>1, <3>3, <3>5, <3>6
    <3>8. Heights(chain)[k].h = k
      BY <1>s, <3>5, HeightsIndex
    <3> QED BY <3>5, <3>7, <3>8
  <2> QED BY <2>2, <2>3
<1>4. CASE P!Finalize
  <2>1. chain' = chain /\ faults' = faults /\ manifest' = manifest /\ (live' = live \/ live' = P!Fresh)
    BY <1>4 DEF P!Finalize, P!BeginReplay, P!disk, P!history, P!process
  <2> QED BY <1>0, <1>1, <2>1, IndexKeep
<1>5. CASE P!ResolveConfirmed
  <2>1. chain' = chain /\ faults' = faults /\ manifest' = manifest /\ (live' = live \/ live' = P!Fresh)
    BY <1>5 DEF P!ResolveConfirmed, P!disk, P!history, P!process
  <2> QED BY <1>0, <1>1, <2>1, IndexKeep
<1>6. CASE P!ResolvePending
  <2>1. chain' = chain /\ faults' = faults /\ manifest' = manifest /\ (live' = live \/ live' = P!Fresh)
    BY <1>6 DEF P!ResolvePending, P!Exit, P!Idle, P!disk, P!history, P!process
  <2> QED BY <1>0, <1>1, <2>1, IndexKeep
<1>7. CASE P!ResolveLost
  <2>1. chain' = chain /\ faults' = faults /\ manifest' = manifest /\ (live' = live \/ live' = P!Fresh)
    BY <1>7 DEF P!ResolveLost, P!Goto, P!disk, P!history, P!process
  <2> QED BY <1>0, <1>1, <2>1, IndexKeep
<1>8. CASE P!Export
  <2>1. chain' = chain /\ faults' = faults /\ (live' = live \/ live' = P!Fresh)
    BY <1>8 DEF P!Export, P!Idle
  <2>2. \A op \in P!Ops : manifest'[op].done = manifest[op].done
    BY <1>0, <1>8, ExportWrites DEF Writes
  <2> QED BY <1>0, <1>1, <2>1, <2>2, IndexKeep
<1>9. CASE P!Import
  <2>1. chain' = chain /\ faults' = faults /\ (live' = live \/ live' = P!Fresh)
    BY <1>9 DEF P!Import, P!Idle, P!Goto
  <2>2. \A op \in P!Ops : manifest'[op].done = manifest[op].done
    BY <1>0, <1>9, ImportWrites DEF Writes
  <2> QED BY <1>0, <1>1, <2>1, <2>2, IndexKeep
<1>10. CASE P!ProofBlocked
  <2>1. chain' = chain /\ faults' = faults /\ manifest' = manifest /\ (live' = live \/ live' = P!Fresh)
    BY <1>10 DEF P!ProofBlocked, P!Exit, P!Idle, P!disk, P!history, P!process
  <2> QED BY <1>0, <1>1, <2>1, IndexKeep
<1>11. CASE P!ProofDone
  <2>1. chain' = chain /\ faults' = faults /\ manifest' = manifest /\ (live' = live \/ live' = P!Fresh)
    BY <1>11 DEF P!ProofDone, P!BeginReplay, P!Goto, P!disk, P!history, P!process
  <2> QED BY <1>0, <1>1, <2>1, IndexKeep
<1>12. CASE P!ProofStep
  <2>1. chain' = chain /\ faults' = faults /\ manifest' = manifest /\ (live' = live \/ live' = P!Fresh)
    BY <1>12 DEF P!ProofStep, P!disk, P!history, P!process
  <2> QED BY <1>0, <1>1, <2>1, IndexKeep
<1>13. CASE P!ProofBuild
  <2>1. chain' = chain /\ faults' = faults /\ (live' = live \/ live' = P!Fresh)
    BY <1>13 DEF P!ProofBuild, P!Idle, P!Goto
  <2>2. \A op \in P!Ops : manifest'[op].done = manifest[op].done
    BY <1>0, <1>13, ProofBuildWrites DEF Writes
  <2> QED BY <1>0, <1>1, <2>1, <2>2, IndexKeep
<1>14. CASE P!ProofSave
  <2>1. chain' = chain /\ faults' = faults /\ (live' = live \/ live' = P!Fresh)
    BY <1>14 DEF P!ProofSave, P!Goto
  <2>2. \A op \in P!Ops : manifest'[op].done = manifest[op].done
    BY <1>0, <1>14, ProofSaveWrites DEF Writes
  <2> QED BY <1>0, <1>1, <2>1, <2>2, IndexKeep
<1>15. CASE P!Send
  <2>1. chain' = chain /\ faults' = faults /\ manifest' = manifest /\ (live' = live \/ live' = P!Fresh)
    BY <1>15 DEF P!Send, P!Idle, P!Goto, P!disk, P!history, P!process
  <2> QED BY <1>0, <1>1, <2>1, IndexKeep
<1>16. CASE P!SeesConfirmed
  <2>1. chain' = chain /\ faults' = faults /\ manifest' = manifest /\ (live' = live \/ live' = P!Fresh)
    BY <1>16 DEF P!SeesConfirmed, P!disk, P!history, P!process
  <2> QED BY <1>0, <1>1, <2>1, IndexKeep
<1>17. CASE P!TimesOut
  <2>1. chain' = chain /\ faults' = faults /\ manifest' = manifest /\ (live' = live \/ live' = P!Fresh)
    BY <1>17 DEF P!TimesOut, P!Exit, P!Idle, P!disk, P!history, P!process
  <2> QED BY <1>0, <1>1, <2>1, IndexKeep
<1>18. CASE P!Indexed
  <2>1. chain' = chain /\ faults' = faults
    BY <1>18 DEF P!Indexed
  <2>2. CASE P!Idle /\ manifest' = manifest
    BY <1>0, <1>1, <2>1, <2>2, IndexKeep DEF P!Idle
  <2>3. CASE ~(P!Idle /\ manifest' = manifest)
    <3>1. /\ cur.op \in P!Ops /\ cur.tx \subseteq live.valid /\ live' = live
          /\ Writes(manifest, manifest', cur.op, manifest[cur.op].recorded, cur.tx)
      BY <1>0, <1>18, <2>3, IndexedWrites
    <3>2. SUFFICES ASSUME faults.reorgs = 0
                   PROVE  \A op \in P!Ops : manifest'[op].done \subseteq P!Replay(chain).valid
      BY <1>0, <1>1, <2>1, <3>1 DEF IndexInv
    <3>3. /\ live.h \in 0 .. Len(chain) /\ live = Heights(chain)[live.h]
          /\ \A op \in P!Ops : manifest[op].done \subseteq P!Replay(chain).valid
      BY <1>0, <3>2 DEF IndexInv
    <3>4. Heights(chain)[live.h].valid \subseteq P!Replay(chain).valid
      BY <1>s, <3>3, HeightsGrow
    <3>5. cur.tx \subseteq P!Replay(chain).valid
      BY <3>1, <3>3, <3>4
    <3> QED BY <3>1, <3>3, <3>5 DEF Writes
  <2> QED BY <2>2, <2>3
<1>19. CASE P!ReplayNext
  <2>1. chain' = chain /\ faults' = faults /\ manifest' = manifest /\ (live' = live \/ live' = P!Fresh)
    BY <1>19 DEF P!ReplayNext, P!Idle, P!disk, P!history, P!process
  <2> QED BY <1>0, <1>1, <2>1, IndexKeep
<1>20. CASE P!Finish
  <2>1. chain' = chain /\ faults' = faults /\ manifest' = manifest /\ (live' = live \/ live' = P!Fresh)
    BY <1>20 DEF P!Finish, P!Goto, P!Idle, P!disk, P!history, P!process
  <2> QED BY <1>0, <1>1, <2>1, IndexKeep
<1>21. CASE \E t \in mempool : P!Mine(t)
  <2>1. PICK t \in mempool : P!Mine(t)
    BY <1>21
  <2>2. PICK b : b = <<t>>
    OBVIOUS
  <2>3. Block(b)
    BY <1>0, <2>2 DEF WorldInv, Block
  <2>4. chain' = Append(chain, b) /\ live' = live /\ manifest' = manifest /\ faults' = faults
    BY <2>1, <2>2 DEF P!Mine, P!process, P!disk
  <2> QED BY <1>0, <1>1, <2>3, <2>4, IndexGrow
<1>22. CASE \E t \in mempool : P!Evict(t)
  <2>1. chain' = chain /\ P!Fault("lost") /\ manifest' = manifest /\ (live' = live \/ live' = P!Fresh)
    BY <1>22 DEF P!Evict, P!disk, P!process
  <2>2. Tally(faults') /\ faults'.reorgs = faults.reorgs
    BY <1>1, <2>1, FaultKeeps
  <2> QED BY <1>0, <2>1, <2>2, IndexKeep
<1>23. CASE \E op \in {"DEPLOY", "MINT"} : P!MineRival(op)
  <2>1. PICK op \in {"DEPLOY", "MINT"} : P!MineRival(op)
    BY <1>23
  <2>2. PICK t : t = [op |-> op, ins |-> {}, fee |-> 0, by |-> "rival"]
    OBVIOUS
  <2>3. PICK b : b = <<t>>
    OBVIOUS
  <2>4. Block(b)
    BY <2>2, <2>3 DEF Block, P!Ops
  <2>5. chain' = Append(chain, b) /\ P!Fault("rivals")
    BY <2>1, <2>2, <2>3, Zenon DEF P!MineRival
  <2>6. live' = live /\ manifest' = manifest
    BY <2>1 DEF P!MineRival, P!process, P!disk
  <2>7. Tally(faults') /\ faults'.reorgs = faults.reorgs
    BY <1>1, <2>5, FaultKeeps
  <2> QED BY <1>0, <2>4, <2>5, <2>6, <2>7, IndexGrow
<1>24. CASE P!Reorg
  <2>1. P!Fault("reorgs")
    BY <1>24 DEF P!Reorg
  <2>2. Tally(faults') /\ faults'.reorgs = faults.reorgs + 1
    BY <1>1, <2>1, FaultKeeps
  <2>3. faults.reorgs \in Nat
    BY <1>1 DEF Tally
  <2>4. faults'.reorgs # 0
    BY <2>2, <2>3
  <2> QED BY <2>2, <2>4 DEF IndexInv
<1>25. CASE P!Crash
  <2>1. chain' = chain /\ P!Fault("lost") /\ manifest' = manifest /\ (live' = live \/ live' = P!Fresh)
    BY <1>25 DEF P!Crash, P!Idle, P!disk, P!process
  <2>2. Tally(faults') /\ faults'.reorgs = faults.reorgs
    BY <1>1, <2>1, FaultKeeps
  <2> QED BY <1>0, <2>1, <2>2, IndexKeep
<1>26. CASE UNCHANGED P!vars
  <2>1. chain' = chain /\ faults' = faults /\ manifest' = manifest /\ (live' = live \/ live' = P!Fresh)
    BY <1>26 DEF P!vars, P!disk, P!history, P!process
  <2> QED BY <1>0, <1>1, <2>1, IndexKeep
<1> QED BY <1>2, <1>3, <1>4, <1>5, <1>6, <1>7, <1>8, <1>9, <1>10, <1>11, <1>12, <1>13, <1>14, <1>15, <1>16, <1>17, <1>18, <1>19, <1>20, <1>21, <1>22, <1>23, <1>24, <1>25, <1>26, NextCases

(* The invariant of the rehearsal is inductive.                            *)
LEMMA RunStep == RunInv /\ [P!Next]_P!vars => RunInv'
  BY WorldStep, ManifestStep, StepStep, SentStep, IndexStep DEF RunInv

(* The instance's Cardinality is the library's.                            *)
LEMMA ProofRunCardinality == \A S : P!Cardinality(S) = Cardinality(S)
  BY DEF P!Cardinality, Cardinality

(* The invariant gives the three promises.                                 *)
LEMMA RunSafe == RunInv => P!TypeOK /\ P!SentIsRecorded /\ P!DoneIsValid
<1> SUFFICES ASSUME RunInv PROVE P!TypeOK /\ P!SentIsRecorded /\ P!DoneIsValid
  OBVIOUS
<1>1. WorldInv /\ IsManifest(manifest) /\ StepInv /\ P!SentIsRecorded /\ IndexInv
  BY DEF RunInv
<1>2. \A op \in P!Ops : \A t \in manifest[op].expected \cup manifest[op].recorded : t.op = op
  BY <1>1 DEF IsManifest, IsStep, OneOf
<1>3. pc \in {"send", "save", "wait", "confirmed", "resolved"} => P!Cardinality(cur.tx) = 1
  <2>1. SUFFICES ASSUME pc \in Holding PROVE P!Cardinality(cur.tx) = 1
    BY DEF Holding
  <2>2. PICK t : cur.tx = {t}
    BY <1>1, <2>1 DEF StepInv
  <2>3. Cardinality({t}) = 1
    BY FS_Singleton
  <2> QED BY <2>2, <2>3, ProofRunCardinality
<1>4. P!TypeOK
  BY <1>1, <1>2, <1>3 DEF P!TypeOK, StepInv, WorldInv
<1>5. P!DoneIsValid
  BY <1>1 DEF P!DoneIsValid, IndexInv
<1> QED BY <1>1, <1>4, <1>5

(* The rehearsal holds its promises whatever crashes, evictions,           *)
(* reorganisations and rivals it meets, and however often it is restarted. *)
THEOREM RehearsalRunSafe == P!Spec => [](P!TypeOK /\ P!SentIsRecorded /\ P!DoneIsValid)
<1>1. P!Init => RunInv
  BY RunInit
<1>2. RunInv /\ [P!Next]_P!vars => RunInv'
  BY RunStep
<1>3. RunInv => P!TypeOK /\ P!SentIsRecorded /\ P!DoneIsValid
  BY RunSafe
<1> QED BY <1>1, <1>2, <1>3, PTL DEF P!Spec

(* A rehearsal never has two transactions of a step on the network and     *)
(* marks as done only what is valid on the chain, and the V1 services open *)
(* to the public only with the record of a complete canary: of both specs  *)
(* together, for every environment, chain length and number of faults.     *)
THEOREM RehearsalIsSafe == V!Spec /\ P!Spec => []RehearsalSafe
<1>1. P!Spec => [](P!TypeOK /\ P!SentIsRecorded /\ P!DoneIsValid)
  BY RehearsalRunSafe
<1>2. V!Spec => []V!GateAgrees
  BY ConfigGateAgrees
<1> QED BY <1>1, <1>2, PTL DEF RehearsalSafe
=============================================================================
