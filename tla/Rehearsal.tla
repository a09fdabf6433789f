------------------------------ MODULE Rehearsal ------------------------------
(***************************************************************************)
(* Opening the V1 services to the public: the rehearsals on public chains  *)
(* (ProofRun), whose record an operator then puts in the environment, and  *)
(* the configuration that asks for it (RuntimeConfig).  The two share no   *)
(* state; a behaviour of the whole is one of each, in any order.           *)
(***************************************************************************)
EXTENDS Integers

CONSTANTS Environments, Number, Txid, PaysOn
VARIABLES services, canary
V == INSTANCE RuntimeConfig

CONSTANTS Coins, MintAmount, TransferAmount, Cost, Required, FeeRates, MaxReplay,
          MaxBlocks, MaxFaults
VARIABLES mode, chain, mempool, manifest, exported, pc, args, live, at,
          target, cur, clean, posted, unsaved, stood, faults
P == INSTANCE ProofRun

(* BigInt makes an integer of a string; the activation block is there.     *)
ASSUME RehearsalAssumption ==
  /\ \A n \in DOMAIN Number : Number[n] \in Int
  /\ MaxBlocks \in Nat \ {0}

-----------------------------------------------------------------------------
(* A rehearsal never has two transactions of a step on the network and     *)
(* marks as done only what is valid on the chain; and the V1 services it   *)
(* opens to the public start only with the record of a complete canary.    *)
RehearsalSafe ==
  /\ P!TypeOK /\ P!SentIsRecorded /\ P!DoneIsValid
  /\ V!GateAgrees
=============================================================================
