----------------------------- MODULE Deployment -----------------------------
(* The services of a deployment: how each one starts from its environment  *)
(* and the committed mainnet profile, how the web app and the worker       *)
(* compare that profile with the Guardian's, how a transition built by the *)
(* web app is signed by the remote Guardian, and what the readiness tool   *)
(* reports.  Operators deploy a service again at any time, so any two of   *)
(* them may run different commits, fee addresses or keys for a while.      *)
(* An optional value is a set of at most one element.                      *)
EXTENDS Integers, FiniteSets, Sequences

CONSTANTS
  CommittedJson,   \* what each commit writes in its profile, by commit
  TestJson,        \* test-only profile files, by path
  Trades,          \* the transitions users may ask for, with their numbers
  AppEnvs,         \* the environments the web app and the worker may get
  GuardianEnvs,    \* the environments the Guardian may get
  Approved,        \* the profile hash the operators approved
  OnCurve,         \* the keys that are points of the curve (keys are numbers)
  TestKeys,        \* the keys whose private half is in the repository
  TestScripts,     \* the scripts those keys control
  ScriptOf,        \* network -> address -> script, for its valid addresses
  Supply,          \* the code's constants: the supply, the frozen surface
  Surface,         \* and the cap on the miner fee
  MaxMinerFee,
  MaxDeploys       \* bound on the deployments of a behaviour

Networks == {"regtest", "signet", "testnet", "mainnet"}
Apps == {"web", "worker"}
Services == Apps \cup {"guardian"}
Caps == {"maxBackingSats", "maxSingleBuySats", "maxSingleRedeemPayoutSats",
         "maxP2pSettlementSats", "maxMintAtoms", "minMintGrossSats"}

(* A profile as a commit writes it.                                        *)
Profile ==
  [wellFormed : BOOLEAN, identity : STRING, surface : STRING,
   activation : SUBSET Nat, guardian : SUBSET Nat, threshold : Nat,
   pubkeys : Seq(Nat), csv : SUBSET Nat, feeScript : SUBSET STRING,
   bps : [{"buy", "redeem", "p2p"} -> SUBSET Nat],
   wallets : SUBSET STRING, tokens : SUBSET STRING, caps : [Caps -> SUBSET Nat]]

ASSUME DeployAssumption == MaxDeploys \in Nat

(* Well formed is what the parser calls well typed: every field is there,  *)
(* and the Guardian's key is one key or none.                              *)
ASSUME ProfileAssumption ==
  \A json \in {CommittedJson[c] : c \in DOMAIN CommittedJson}
               \cup {TestJson[f] : f \in DOMAIN TestJson} :
    json.wellFormed =>
      /\ json \in Profile
      /\ \A x, y \in json.guardian : x = y
ASSUME EnvAssumption ==
  /\ \A e \in AppEnvs \cup GuardianEnvs : e.commit \in DOMAIN CommittedJson
  /\ \A e \in GuardianEnvs : e.testPath \subseteq DOMAIN TestJson

VARIABLES
  proc,      \* the running process of each service
  health,    \* a Guardian answer on its way to an app that compares profiles
  sess,      \* the transition session of the web app (a database row)
  sent,      \* transitions broadcast, with the configurations they passed
  cores,     \* the two Core nodes are reachable and agree
  tool,      \* the readiness tool: what it has probed so far, its report
  deploys

vars == <<proc, health, sess, sent, cores, tool, deploys>>

-----------------------------------------------------------------------------
(* The profile *)

(* An optional value is given and valid. *)
Decided(o, Valid) == Cardinality(o) = 1 /\ o \subseteq Valid

(* The recovery keys in lexicographic order: the n-th smallest is the key  *)
(* that fewer than n keys precede and at least n do not follow.            *)
NthSmallest(ks, n) ==
  CHOOSE k \in {ks[i] : i \in 1 .. Len(ks)} :
    /\ Cardinality({i \in 1 .. Len(ks) : ks[i] < k}) < n
    /\ Cardinality({i \in 1 .. Len(ks) : ks[i] <= k}) >= n
normalizePubkeys(ks) == [n \in 1 .. Len(ks) |-> NthSmallest(ks, n)]

(* The parser keeps every field, or throws: unknown keys, a missing or     *)
(* ill-typed field, a frozen identity other than this one.                 *)
Parses(json) == json.wellFormed /\ json.identity = "bitcoin-mainnet"
parseMainnetProfileJson(json) == [json EXCEPT !.pubkeys = normalizePubkeys(@)]

MaxCsv == 65535   \* a BIP-68 relative lock in blocks
MaxBps == 10000
isXOnlyKey(k) == k \in OnCurve

RecoveryOk(p) ==
  /\ <<p.threshold, Len(p.pubkeys)>> \in {<<2, 3>>, <<1, 1>>}
  /\ \A i \in DOMAIN p.pubkeys :
       /\ isXOnlyKey(p.pubkeys[i])
       /\ p.pubkeys[i] \notin p.guardian
       /\ \A j \in 1 .. i - 1 : p.pubkeys[j] # p.pubkeys[i]
  /\ Decided(p.csv, 1 .. MaxCsv)

FeesOk(p) ==
  /\ Cardinality(p.feeScript) = 1
  /\ \A op \in {"buy", "redeem", "p2p"} :
       Decided(p.bps[op], 0 .. MaxBps)

CanaryOk(p) ==
  /\ p.wallets # {} /\ p.tokens # {}
  /\ \A c \in Caps : Decided(p.caps[c], Nat \ {0})
  /\ \A v \in p.caps["maxMintAtoms"] : v <= Supply

NoTestKeys(p) ==
  /\ p.guardian \cap TestKeys = {}
  /\ \A i \in DOMAIN p.pubkeys : p.pubkeys[i] \notin TestKeys
  /\ p.feeScript \cap TestScripts = {}
  /\ p.wallets \cap TestScripts = {}

validateMainnetProfile(p, allowTestKeys) ==
  /\ p.surface = Surface
  /\ Decided(p.activation, Nat \ {0})
  /\ Decided(p.guardian, OnCurve)
  /\ RecoveryOk(p) /\ FeesOk(p) /\ CanaryOk(p)
  /\ allowTestKeys \/ NoTestKeys(p)

(* The canonical bytes hold every field, so a collision-free hash of them  *)
(* is the profile itself.                                                  *)
hashMainnetProfile(p) == p

FeeValid(network, fee) == fee \subseteq DOMAIN ScriptOf[network]
feeScriptFromAddress(network, fee) == {ScriptOf[network][a] : a \in fee}

CommittedParses(e) ==
  Parses(CommittedJson[e.commit]) /\ FeeValid("mainnet", e.fee)
committedMainnetProfile(e) ==
  [parseMainnetProfileJson(CommittedJson[e.commit])
     EXCEPT !.feeScript = IF e.fee = {} THEN @ ELSE feeScriptFromAddress("mainnet", e.fee)]

-----------------------------------------------------------------------------
(* Starting a service *)

(* loadV3AppConfig on mainnet: no private key in the environment, the      *)
(* committed profile with the environment's fee address must validate, and *)
(* signing goes to a remote Guardian (the watch below stops a process that *)
(* names none as soon as it starts).                                       *)
MainnetAppBoots(e) ==
  /\ e.keys = {}
  /\ CommittedParses(e)
  /\ validateMainnetProfile(committedMainnetProfile(e), FALSE)
  /\ e.endpoint

(* On the other networks the app signs with its own key. *)
LocalAppBoots(e) ==
  \/ e.network = "regtest" /\ FeeValid(e.network, e.fee)
  \/ /\ e.network # "regtest"
     /\ {"guardian", "recovery"} \subseteq e.keys
     /\ "fee" \in e.keys \/ e.fee # {}
     /\ FeeValid(e.network, e.fee)

AppBoots(e) ==
  /\ e.network \in Networks
  /\ e.core \/ e.network = "regtest"
  /\ e.db
  /\ IF e.network = "mainnet" THEN MainnetAppBoots(e) ELSE LocalAppBoots(e)

(* The profile a Guardian or the readiness tool resolves: the committed    *)
(* one, or a test-only file off mainnet.                                   *)
ProfileResolves(e) ==
  IF e.testPath = {}
    THEN CommittedParses(e)
    ELSE e.network # "mainnet" /\ \A f \in e.testPath : Parses(TestJson[f])
resolveMainnetProfile(e) ==
  IF e.testPath = {}
    THEN committedMainnetProfile(e)
    ELSE parseMainnetProfileJson(TestJson[CHOOSE f \in e.testPath : TRUE])

(* GUARDIAN_KEY_HEX (never a public test key) or, off mainnet only,        *)
(* GUARDIAN_TEST_KEY_HEX or no key at all.                                 *)
CustodySelects(e) ==
  /\ e.key = {} \/ e.testKey = {}
  /\ e.key \cap TestKeys = {}
  /\ e.network = "mainnet" => e.testKey = {} /\ e.key # {}
CustodyKey(e) == e.key \cup e.testKey

GuardianBoots(e) ==
  /\ e.network \in Networks /\ e.token /\ e.db /\ e.core
  /\ ProfileResolves(e)
  /\ e.testPath = {} => e.network = "mainnet"
  /\ CustodySelects(e)
  /\ validateMainnetProfile(resolveMainnetProfile(e), e.testPath # {})
  /\ e.nodeChain = e.network
  /\ CustodyKey(e) \subseteq resolveMainnetProfile(e).guardian

Down == [up |-> FALSE]
Running(s, e) ==
  [up |-> TRUE, env |-> e, watching |-> s \in Apps /\ e.network = "mainnet"]
NoAnswer == [up |-> FALSE]
NoSession == [st |-> "none"]

Mainnet(s) == proc[s].up /\ proc[s].env.network = "mainnet"
ProfileOf(s) == IF s = "guardian" THEN resolveMainnetProfile(proc[s].env)
                                  ELSE committedMainnetProfile(proc[s].env)

Boots(s, e) == IF s \in Apps THEN AppBoots(e) ELSE GuardianBoots(e)

(* A process that stops loses the answers it was waiting for; the session  *)
(* row stays in the database.                                              *)
Stop(s) ==
  /\ health' = [health EXCEPT ![s] = NoAnswer]
  /\ sess' = IF s = "web" /\ sess.st = "answered"
               THEN [st |-> "built", tx |-> sess.tx] ELSE sess

Deploy(s, e) ==
  /\ deploys < MaxDeploys
  /\ deploys' = deploys + 1
  /\ proc' = [proc EXCEPT ![s] = IF Boots(s, e) THEN Running(s, e) ELSE Down]
  /\ Stop(s)
  /\ UNCHANGED <<sent, cores, tool>>

-----------------------------------------------------------------------------
(* watchGuardianAgreement: ask, then compare what came back *)

AskHealth(s) ==
  /\ proc[s].up /\ proc[s].watching /\ ~health[s].up
  /\ proc["guardian"].up
  /\ health' = [health EXCEPT ![s] =
       [up |-> TRUE, hash |-> hashMainnetProfile(ProfileOf("guardian"))]]
  /\ UNCHANGED <<proc, sess, sent, cores, tool, deploys>>

CompareHealth(s) ==
  /\ proc[s].up /\ health[s].up
  /\ IF health[s].hash = hashMainnetProfile(ProfileOf(s))
       THEN /\ proc' = [proc EXCEPT ![s].watching = FALSE]
            /\ health' = [health EXCEPT ![s] = NoAnswer]
            /\ UNCHANGED sess
       ELSE /\ proc' = [proc EXCEPT ![s] = Down]
            /\ Stop(s)
  /\ UNCHANGED <<sent, cores, tool, deploys>>

-----------------------------------------------------------------------------
(* A transition: built by the web app, signed by the Guardian *)

(* What a transition shows of the configuration that built it, and what   *)
(* the user asked for.                                                     *)
TxOf(p, trade) ==
  [guardian |-> p.guardian, recovery |-> p.pubkeys, csv |-> p.csv, fee |-> p.feeScript,
   bps |-> p.bps[IF trade.op = "MINT" THEN "buy" ELSE "redeem"], trade |-> trade]

(* The web app enforces the canary allowlists; the caps of the profile     *)
(* only shape the quotes it shows, so any amount can be asked for.         *)
Build(trade, wallet) ==
  LET p == ProfileOf("web")
  IN /\ Mainnet("web") /\ sess.st = "none"
     /\ trade.token \in p.tokens /\ wallet \in p.wallets
     /\ sess' = [st |-> "built", tx |-> TxOf(p, trade)]
     /\ UNCHANGED <<proc, health, sent, cores, tool, deploys>>

(* The Guardian's policy: each cap of the profile it runs, and its own cap *)
(* on the miner fee.                                                       *)
MaxOf(p, cap) == CHOOSE v \in p.caps[cap] : TRUE
checkRiskPolicy(p, trade) ==
  /\ trade.token \in p.tokens
  /\ trade.gross <= MaxOf(p, "maxSingleBuySats")
  /\ trade.op = "MINT" => /\ trade.amount <= MaxOf(p, "maxMintAtoms")
                          /\ trade.gross >= MaxOf(p, "minMintGrossSats")
  /\ trade.backing <= MaxOf(p, "maxBackingSats")
  /\ trade.minerFee <= MaxMinerFee
  /\ trade.op = "REDEEM" => trade.payout <= MaxOf(p, "maxSingleRedeemPayoutSats")

(* The service's own profile decides: the vault and the fees it derives,   *)
(* then its risk policy.                                                   *)
GuardianSigns(p, tx) ==
  /\ TxOf(p, tx.trade) = tx
  /\ checkRiskPolicy(p, tx.trade)

Ask ==
  /\ Mainnet("web") /\ Mainnet("guardian") /\ sess.st = "built"
  /\ LET p == ProfileOf("guardian")
     IN /\ GuardianSigns(p, sess.tx)
        /\ sess' = [st |-> "answered", tx |-> sess.tx, hash |-> hashMainnetProfile(p),
                    key |-> CustodyKey(proc["guardian"].env)]
  /\ UNCHANGED <<proc, health, sent, cores, tool, deploys>>

(* No answer in time, an error, a lost connection. *)
LoseAnswer ==
  /\ sess.st = "answered"
  /\ sess' = [st |-> "built", tx |-> sess.tx]
  /\ UNCHANGED <<proc, health, sent, cores, tool, deploys>>

Broadcast ==
  sent' = sent \cup {[tx |-> sess.tx, web |-> hashMainnetProfile(ProfileOf("web")),
                      signer |-> sess.hash, key |-> sess.key]}

(* Mutant: the answer is used as it is.                                    *)
ReceiveUnchecked ==
  /\ sess.st = "answered" /\ Mainnet("web")
  /\ Broadcast /\ sess' = NoSession
  /\ UNCHANGED <<proc, health, cores, tool, deploys>>

(* The remote signer compares the profile hash and the key of the answer,  *)
(* and checks the signature itself, before it uses it.                     *)
Receive ==
  /\ sess.st = "answered" /\ Mainnet("web")
  /\ IF /\ sess.hash = hashMainnetProfile(ProfileOf("web"))
        /\ sess.key = ProfileOf("web").guardian
       THEN Broadcast /\ sess' = NoSession
       ELSE sess' = [st |-> "built", tx |-> sess.tx] /\ UNCHANGED sent
  /\ UNCHANGED <<proc, health, cores, tool, deploys>>

(* Sessions expire. *)
Expire ==
  /\ sess.st = "built"
  /\ sess' = NoSession
  /\ UNCHANGED <<proc, health, sent, cores, tool, deploys>>

-----------------------------------------------------------------------------
(* The readiness tool probes the nodes, then the database, then the        *)
(* Guardian, and reports.                                                  *)

CoresMove ==
  /\ cores' = ~cores
  /\ UNCHANGED <<proc, health, sess, sent, tool, deploys>>

ProbeCores ==
  /\ tool.at = "idle"
  /\ tool' = [at |-> "worker", cores |-> cores]
  /\ UNCHANGED <<proc, health, sess, sent, cores, deploys>>

(* The index may be healthy and at the expected root or not; pg_locks      *)
(* shows the advisory lock of the network's worker.                        *)
ProbeWorker ==
  /\ tool.at = "worker"
  /\ \E index \in BOOLEAN :
       tool' = [at |-> "guardian", cores |-> tool.cores,
                worker |-> index /\ Mainnet("worker")]
  /\ UNCHANGED <<proc, health, sess, sent, cores, deploys>>

(* computeMainnetReadiness and deriveReadinessState over the probes and    *)
(* the Guardian's answer: the hash and the key of the profile it runs, and *)
(* how its journal and its audit are.  The profile is validated without    *)
(* the allowance for test keys, whatever file it came from.  Whether the   *)
(* Guardian holds that key, and on which network it runs, is not asked.    *)
Readiness(p, g, journal) ==
  IF ~ validateMainnetProfile(p, FALSE) THEN "CEREMONY"
  ELSE IF /\ hashMainnetProfile(p) = Approved
          /\ tool.cores /\ tool.worker
          /\ g.up /\ journal
          /\ g.up => LET q == resolveMainnetProfile(g.env)
                     IN hashMainnetProfile(q) = Approved /\ q.guardian = p.guardian
         THEN "READY" ELSE "NOT_READY"

(* The tool runs from the environment of one of the services, which may    *)
(* name a test-only profile file: it resolves its profile as "tooling".    *)
ToolEnv(e, path) ==
  [network |-> "tooling", commit |-> e.commit, fee |-> e.fee, testPath |-> path]
Report(e, path) ==
  /\ tool.at = "guardian"
  /\ ProfileResolves(ToolEnv(e, path))
  /\ \E journal \in BOOLEAN :
       tool' = [at |-> "idle", report |->
         Readiness(resolveMainnetProfile(ToolEnv(e, path)), proc["guardian"], journal)]
  /\ UNCHANGED <<proc, health, sess, sent, cores, deploys>>

-----------------------------------------------------------------------------
Init ==
  /\ proc = [s \in Services |-> Down]
  /\ health = [s \in Services |-> NoAnswer]
  /\ sess = NoSession
  /\ sent = {}
  /\ cores \in BOOLEAN
  /\ tool = [at |-> "idle", report |-> "none"]
  /\ deploys = 0

Wallets == UNION {CommittedJson[c].wallets : c \in DOMAIN CommittedJson}
TestPaths == {{}} \cup {{f} : f \in DOMAIN TestJson}

Deploys == \/ \E s \in Apps, e \in AppEnvs : Deploy(s, e)
           \/ \E e \in GuardianEnvs : Deploy("guardian", e)
Watch(s) == AskHealth(s) \/ CompareHealth(s)
Trade == \/ \E trade \in Trades, w \in Wallets : Build(trade, w)
         \/ Ask \/ LoseAnswer \/ Receive \/ Expire
Tool == \/ CoresMove \/ ProbeCores \/ ProbeWorker
        \/ \E e \in AppEnvs, path \in TestPaths : Report(e, path)

Next == Deploys \/ (\E s \in Apps : Watch(s)) \/ Trade \/ Tool

Spec == Init /\ [][Next]_vars

(* The watch of a running app asks again every 15 seconds and handles each *)
(* answer.                                                                 *)
Fairness == \A s \in Apps : WF_vars(AskHealth(s)) /\ WF_vars(CompareHealth(s))
FairSpec == Spec /\ Fairness

-----------------------------------------------------------------------------
TypeOK ==
  /\ DOMAIN proc = Services
  /\ \A s \in Services : proc[s] = Down \/
       /\ proc[s].env \in (IF s \in Apps THEN AppEnvs ELSE GuardianEnvs)
       /\ proc[s].watching => Mainnet(s) /\ s \in Apps
  /\ \A s \in Services : health[s].up => proc[s].up /\ proc[s].watching
  /\ sess.st \in {"none", "built", "answered"}
  /\ cores \in BOOLEAN
  /\ tool.at \in {"idle", "worker", "guardian"}
  /\ deploys \in 0 .. MaxDeploys

(* A vault of profile p needs the Guardian's key or enough distinct other  *)
(* keys, all of them usable and none of them public, and pays its fees to  *)
(* a script no public key controls.                                        *)
SafeVaults(p) ==
  LET recovery == {p.pubkeys[i] : i \in DOMAIN p.pubkeys}
  IN /\ Cardinality(recovery \ p.guardian) >= p.threshold
     /\ Cardinality(recovery) = Len(p.pubkeys)
     /\ recovery \cup p.guardian \subseteq OnCurve \ TestKeys
     /\ p.feeScript # {} /\ p.feeScript \cap TestScripts = {}

(* Whatever was deployed, every service that runs on mainnet runs a        *)
(* profile with safe vaults, its apps hold no private key and its Guardian *)
(* holds exactly the key the vaults name (the boot gates together).        *)
MainnetRuns ==
  \A s \in Services : Mainnet(s) =>
    /\ SafeVaults(ProfileOf(s))
    /\ IF s \in Apps THEN proc[s].env.keys = {}
                     ELSE CustodyKey(proc[s].env) = ProfileOf(s).guardian

(* A broadcast transition was accepted by a web app and signed by a        *)
(* Guardian that ran the same profile, with the key its vault names, and   *)
(* it pays the fee of that profile and is within every cap of it — though  *)
(* it may have been built by an earlier deployment of the web app.         *)
SentAgreed ==
  \A x \in sent :
    /\ x.web = x.signer
    /\ x.key = x.tx.guardian
    /\ TxOf(x.signer, x.tx.trade) = x.tx
    /\ checkRiskPolicy(x.signer, x.tx.trade)

(* The readiness tool says READY only of a Guardian that runs the approved *)
(* profile at that moment, and the vaults of that profile are safe; the    *)
(* Guardian runs on mainnet and holds the key the vaults name, unless it   *)
(* took a copy of the approved profile from a test-only file.              *)
ReadyIsApproved ==
  [][tool.at = "guardian" /\ tool'.at = "idle" /\ tool'.report = "READY" =>
       /\ proc["guardian"].up /\ ProfileOf("guardian") = Approved
       /\ SafeVaults(Approved)
       /\ \/ Mainnet("guardian") /\ CustodyKey(proc["guardian"].env) = Approved.guardian
          \/ proc["guardian"].env.testPath # {}]_vars

Disagrees(s) ==
  /\ Mainnet(s) /\ proc[s].watching /\ proc["guardian"].up
  /\ hashMainnetProfile(ProfileOf(s)) # hashMainnetProfile(ProfileOf("guardian"))

(* An app that started beside a Guardian with another profile does not     *)
(* keep running beside it: it stops, unless one of the two is redeployed.  *)
MismatchStops == \A s \in Apps : Disagrees(s) ~> ~Disagrees(s)

(* Whatever mixture of commits and keys runs, mainnet services are safe    *)
(* and what they broadcast together was agreed by both.                    *)
ServicesSafe == TypeOK /\ MainnetRuns /\ SentAgreed
=============================================================================
