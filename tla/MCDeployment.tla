---------------------------- MODULE MCDeployment ----------------------------
(***************************************************************************)
(* Model checking of Deployment.  Three commits carry a complete profile   *)
(* (they differ in a cap and in a fee rate), the others one mistake each   *)
(* of the ceremony that fills the profile in.  Keys are numbers: 1 is the  *)
(* Guardian's, 2 to 4 the recovery keys, 5 another Guardian's, 6 a public  *)
(* test key, 7 no point of the curve.  The rehearsals on public chains     *)
(* (ProofRun) and the configuration of the V1 services (RuntimeConfig)     *)
(* share no state with these services, and the readiness tool reads the    *)
(* processes but nothing of their trades: a behaviour is one of trading    *)
(* services, of services beside the tool, or of one of the other two, as   *)
(* part says.                                                              *)
(***************************************************************************)
EXTENDS Deployment, Rehearsal

mcCaps == [c \in Caps |-> IF c = "minMintGrossSats" THEN {1}
                          ELSE IF c = "maxSingleBuySats" THEN {2} ELSE {3}]
Complete ==
  [wellFormed |-> TRUE, identity |-> "bitcoin-mainnet", surface |-> "v3",
   activation |-> {9}, guardian |-> {1}, threshold |-> 2,
   pubkeys |-> <<3, 2, 4>>, csv |-> {144}, feeScript |-> {},
   bps |-> [buy |-> {75}, redeem |-> {75}, p2p |-> {25}],
   wallets |-> {"alice"}, tokens |-> {"t"}, caps |-> mcCaps]

mcCommitted ==
  [v1 |-> Complete,
   caps |-> [Complete EXCEPT !.caps["maxSingleBuySats"] = {3}],
   fees |-> [Complete EXCEPT !.bps["buy"] = {80}],
   open |-> [Complete EXCEPT !.guardian = {}],
   shared |-> [Complete EXCEPT !.pubkeys = <<1, 2, 3>>],
   twice |-> [Complete EXCEPT !.pubkeys = <<2, 2, 3>>],
   offcurve |-> [Complete EXCEPT !.pubkeys = <<2, 3, 7>>],
   public |-> [Complete EXCEPT !.pubkeys = <<6>>, !.threshold = 1],
   drift |-> [Complete EXCEPT !.surface = "v2"],
   uncapped |-> [Complete EXCEPT !.caps["maxMintAtoms"] = {}]]

(* The fixture of the tests, and a copy of the approved profile.           *)
mcTest == [fixture |-> [Complete EXCEPT !.guardian = {6}, !.feeScript = {"testScript"}],
           copy |-> [Complete EXCEPT !.feeScript = {"feeScript"}]]

(* A mint and a redemption within every cap, a mint that only the commit   *)
(* with a larger cap allows, and one trade beyond each of the others.      *)
Mint == [op |-> "MINT", token |-> "t", gross |-> 2, amount |-> 1, backing |-> 3,
         minerFee |-> 1, payout |-> 0]
Redeem == [Mint EXCEPT !.op = "REDEEM", !.payout = 2, !.gross = 2]
mcTrades ==
  {Mint, [Mint EXCEPT !.gross = 3], [Mint EXCEPT !.amount = 4],
   [Mint EXCEPT !.backing = 4], [Mint EXCEPT !.gross = 0], [Mint EXCEPT !.minerFee = 3],
   Redeem, [Redeem EXCEPT !.payout = 4]}

Env(commit) ==
  [network |-> "mainnet", commit |-> commit, fee |-> {"addr"}, core |-> TRUE,
   db |-> TRUE, keys |-> {}, endpoint |-> TRUE]
mcAppEnvs ==
  {Env(c) : c \in DOMAIN mcCommitted \ {"offcurve", "drift", "uncapped"}} \cup
  {[Env("v1") EXCEPT !.fee = {"other"}], [Env("v1") EXCEPT !.fee = {}],
   [Env("v1") EXCEPT !.fee = {"public"}],
   [Env("v1") EXCEPT !.keys = {"guardian"}],
   [Env("open") EXCEPT !.network = "regtest", !.core = FALSE],
   [Env("open") EXCEPT !.network = "signet", !.keys = {"guardian", "recovery"}, !.fee = {}]}

GuardianEnv(commit) ==
  [network |-> "mainnet", commit |-> commit, fee |-> {"addr"}, testPath |-> {},
   key |-> {1}, testKey |-> {}, token |-> TRUE, db |-> TRUE, core |-> TRUE,
   nodeChain |-> "mainnet"]
mcGuardianEnvs ==
  {GuardianEnv(c) : c \in DOMAIN mcCommitted \ {"open", "twice", "public"}} \cup
  {[GuardianEnv("v1") EXCEPT !.key = {5}], [GuardianEnv("v1") EXCEPT !.fee = {"other"}],
   [GuardianEnv("v1") EXCEPT !.nodeChain = "signet"],
   [GuardianEnv("v1") EXCEPT !.testPath = {"fixture"}],
   [GuardianEnv("open") EXCEPT !.network = "regtest", !.nodeChain = "regtest",
      !.testPath = {"fixture"}, !.key = {}, !.testKey = {6}],
   [GuardianEnv("open") EXCEPT !.network = "regtest", !.nodeChain = "regtest",
      !.testPath = {"copy"}, !.key = {}]}

mcApproved ==
  [Complete EXCEPT !.feeScript = {"feeScript"}, !.pubkeys = <<2, 3, 4>>]
mcScriptOf ==
  [n \in Networks |-> IF n = "mainnet"
     THEN [addr |-> "feeScript", other |-> "otherScript", public |-> "testScript"]
     ELSE [naddr |-> "feeScript"]]

(* The rehearsals: two coins, so that a second transaction can be paid.    *)
mcCoins == {40, 30}
mcCost == [DEPLOY |-> 10, MINT |-> 3, TRANSFER |-> 1]
mcRequired == [DEPLOY |-> 13, MINT |-> 5, TRANSFER |-> 3]
mcFeeRates == {1, 2}

(* An environment with everything set for public writes on mainnet, and    *)
(* every one that differs from it in at most two settings.                 *)
AllOn == [op \in {"deploy", "mint", "transfer", "market", "graduation"} |-> "1"]
PublicEnv ==
  [network |-> "mainnet", nodeEnv |-> "production", secret |-> "s", verified |-> "true",
   crc |-> AllOn, enabled |-> "yes", cove |-> AllOn, genesis |-> "9",
   txids |-> [op \in {"deploy", "mint", "transfer"} |-> "hash"],
   stateRoot |-> "hash", replayRoot |-> "hash", treasury |-> "bc1"]
AllOff == [op \in DOMAIN AllOn |-> ""]
Settings ==
  [network |-> {"", "mock", "signet", "mainnet-read-only", "liquid"}, nodeEnv |-> {""}, secret |-> {""},
   verified |-> {"off"}, crc |-> {AllOff, [AllOff EXCEPT !["mint"] = "on"]}, enabled |-> {""},
   cove |-> {AllOff, [AllOff EXCEPT !["transfer"] = "true"]}, genesis |-> {"", "0", "x"},
   txids |-> {[PublicEnv.txids EXCEPT !["mint"] = ""]},
   stateRoot |-> {"", "other"}, replayRoot |-> {"0xhash"}, treasury |-> {"", "tb1", "junk"}]
Changed(E) == UNION {UNION {{[e EXCEPT ![f] = v] : v \in Settings[f]} : f \in DOMAIN Settings} : e \in E}
mcEnvironments == {PublicEnv} \cup Changed({PublicEnv}) \cup Changed(Changed({PublicEnv}))
mcNumber == [n \in {"0", "9"} |-> IF n = "0" THEN 0 ELSE 9]
mcTxid == {"hash", "other"}
mcPaysOn == [a \in {"bc1", "tb1"} |-> IF a = "bc1" THEN "mainnet" ELSE "testnet"]

config == <<services, canary>>

VARIABLE part
rehearsal == <<mode, chain, mempool, manifest, exported, pc, args, live, at,
               target, cur, clean, posted, unsaved, stood, faults>>

MCInit ==
  /\ part \in {"trades", "tool", "rehearsal", "config"}
  /\ Init
  /\ P!Init
  /\ V!Init
  /\ part # "rehearsal" => mode = "signet"
  /\ part # "tool" => cores

MCNext ==
  \/ /\ part \in {"trades", "tool"}
     /\ Next
     /\ part = "trades" => UNCHANGED <<cores, tool>>
     /\ part = "tool" => UNCHANGED <<sess, sent>>
     /\ UNCHANGED <<part, rehearsal, config>>
  \/ part = "rehearsal" /\ P!Next /\ UNCHANGED <<part, vars, config>>
  \/ part = "config" /\ V!Next /\ UNCHANGED <<part, vars, rehearsal>>

MCSpec ==
  /\ MCInit /\ [][MCNext]_<<part, vars, rehearsal, config>>
  /\ Fairness /\ P!Fairness

-----------------------------------------------------------------------------
(* READY is said only of the approved profile, a process that disagrees    *)
(* with the Guardian it started beside stops, a rehearsal reports that it  *)
(* is complete only on an outcome the chain had while it compared, and a   *)
(* canary whose owner follows its instructions completes.                  *)
Outcomes ==
  ReadyIsApproved /\ MismatchStops /\ []P!CompleteStood /\ P!Completes
=============================================================================
