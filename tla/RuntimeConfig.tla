---------------------------- MODULE RuntimeConfig ----------------------------
(***************************************************************************)
(* The configuration of the V1 services (packages/config): what loadConfig *)
(* makes of an environment, which configurations validateConfig lets a     *)
(* service start with, and what flags.ts says such a service may do.  The  *)
(* web application keeps the configuration of its first use, the worker    *)
(* that of its start; the owner canary loads one and checks less, since it *)
(* is what produces the proof the others ask for.                          *)
(* An environment maps names to strings, "" where one is not set.          *)
(***************************************************************************)
EXTENDS Naturals

CONSTANTS Environments,   \* what operators may start a process with
          Number,         \* the strings that are integers, with their value
          Txid,           \* the strings of 64 lower-case hex digits
          PaysOn          \* address -> the chain it decodes for

VARIABLES services,   \* the configurations the running services have
          canary      \* the configuration of the owner canary, if it runs
vars == <<services, canary>>

-----------------------------------------------------------------------------
(* load.ts *)
bool(v) == v \in {"true", "1", "yes", "on"}
bigintOrNull(v) == IF v = "" THEN {} ELSE {Number[v]}

Known == {"mock", "test", "mainnet", "mainnet-read-only", "mutinynet", "signet", "regtest", "testnet"}
parseNetwork(raw) == IF raw \in {"mutinynet", "signet", "regtest", "testnet"} THEN "test" ELSE raw

(* It throws on an unknown network and on what should be a number.         *)
Loads(e) == e.network \in Known \cup {""} /\ e.genesis \in DOMAIN Number \cup {""}

CrcFlags == {"deploy", "mint", "market", "graduation"}
CoveFlags == {"deploy", "mint", "transfer"}
CanaryTx == {"deploy", "mint", "transfer"}

loadConfig(e) ==
  [network |-> IF e.network = "" THEN "mock" ELSE parseNetwork(e.network),
   production |-> e.nodeEnv = "production",
   secret |-> e.secret # "",
   protocolVerified |-> bool(e.verified),
   flags |-> {op \in CrcFlags : bool(e.crc[op])},
   mainnetEnabled |-> bool(e.enabled),
   coveFlags |-> {op \in CoveFlags : bool(e.cove[op])},
   genesis |-> bigintOrNull(e.genesis),
   txids |-> e.txids, stateRoot |-> e.stateRoot, replayRoot |-> e.replayRoot,
   treasury |-> e.treasury]

isMainnetNetwork(network) == network \in {"mainnet", "mainnet-read-only"}

(* Not a proof: the owner's word, complete and consistent.                 *)
isCoveMainnetCanaryAsserted(c) ==
  /\ \E h \in c.genesis : h > 0
  /\ \A op \in CanaryTx : c.txids[op] \in Txid
  /\ {c.stateRoot, c.replayRoot} \subseteq Txid /\ c.stateRoot = c.replayRoot

isDecodableAddress(address, chain) == address \in DOMAIN PaysOn /\ PaysOn[address] = chain

validateConfig(c) ==
  /\ c.production => c.secret
  /\ c.coveFlags # {} => c.mainnetEnabled
  /\ c.mainnetEnabled \/ c.coveFlags # {} => isCoveMainnetCanaryAsserted(c)
  /\ isMainnetNetwork(c.network) /\ c.flags # {} => c.protocolVerified /\ c.treasury # ""
  /\ c.treasury # "" /\ c.network # "mock" =>
       isDecodableAddress(c.treasury, IF isMainnetNetwork(c.network) THEN "mainnet" ELSE "testnet")

-----------------------------------------------------------------------------
(* flags.ts *)
coveMainnetActivationStage(c) ==
  IF ~c.mainnetEnabled THEN "READ_ONLY"
  ELSE IF c.coveFlags = {} THEN "OWNER_CANARY" ELSE "PUBLIC_WRITES"

productMode(c) ==
  CASE c.network \in {"mock", "test"} -> "DEMO"
    [] c.network = "mainnet-read-only" -> "READ_ONLY_MAINNET"
    [] OTHER -> "CANONICAL_CRC"

canWriteMainnet(c, op, health) ==
  c.protocolVerified /\ op \in c.flags /\ health.synced /\ health.stateValid

writeModeLabel(c, health) ==
  IF c.flags = {} THEN "disabled"
  ELSE IF ~c.protocolVerified THEN "awaiting-verification"
  ELSE IF ~health.synced \/ ~health.stateValid THEN "degraded" ELSE "enabled"

-----------------------------------------------------------------------------
Init == services = {} /\ canary = {}

(* main of the worker, getConfig of the web application.                   *)
Start(e) ==
  /\ Loads(e) /\ validateConfig(loadConfig(e))
  /\ services' = {loadConfig(e)}
  /\ UNCHANGED canary

(* assertCanaryPreflightGates: public writes are closed; no earlier proof  *)
(* is asked for.                                                           *)
StartCanary(e) ==
  /\ Loads(e) /\ loadConfig(e).coveFlags = {}
  /\ canary' = {loadConfig(e)}
  /\ UNCHANGED services

Next == \E e \in Environments : Start(e) \/ StartCanary(e)
Spec == Init /\ [][Next]_vars

-----------------------------------------------------------------------------
(* What a running service says of itself and what it was let start with    *)
(* agree: it is past READ_ONLY only with a complete canary, no public flag *)
(* hides behind a READ_ONLY stage, one that can write to mainnet has a     *)
(* treasury there, and its label says "enabled" exactly if it can write;   *)
(* and the canary itself never runs as a public service.                   *)
Health == [synced : BOOLEAN, stateValid : BOOLEAN]
GateAgrees ==
  /\ \A c \in services :
       /\ coveMainnetActivationStage(c) # "READ_ONLY" =>
            /\ \A op \in CanaryTx : c.txids[op] \in Txid
            /\ c.genesis \subseteq Nat \ {0} /\ c.genesis # {}
            /\ c.stateRoot = c.replayRoot /\ c.stateRoot \in Txid
       /\ coveMainnetActivationStage(c) = "READ_ONLY" => c.coveFlags = {}
       /\ \A health \in Health :
            /\ writeModeLabel(c, health) = "enabled" <=> \E op \in CrcFlags : canWriteMainnet(c, op, health)
            /\ productMode(c) = "CANONICAL_CRC" /\ (\E op \in CrcFlags : canWriteMainnet(c, op, health)) =>
                 isDecodableAddress(c.treasury, "mainnet")
       /\ c.treasury # "" /\ productMode(c) # "DEMO" => ~isDecodableAddress(c.treasury, "testnet")
  /\ \A c \in canary : coveMainnetActivationStage(c) # "PUBLIC_WRITES"
=============================================================================
