--------------------------- MODULE TransactionPath ---------------------------
(***************************************************************************)
(* What the parties to a transaction owe each other: the transaction's     *)
(* path is Pipeline, over the same rules as the ledger (CoveRules).        *)
(***************************************************************************)
EXTENDS CoveRules

CONSTANTS User, Coins, Maker, MintFee(_, _), CreatorFee(_), RedeemFee(_), Dust, Carrier,
          CreatorRecord, MinerFees, MaxMinerFee, MaxTokenInputs, Amounts, P2PFee(_), Prices,
          Seed, Fresh
VARIABLES idx, own, pool, spent, req, mined
P == INSTANCE Pipeline

(* Transaction ids are hashes; coins are outputs of transactions that were *)
(* there before, and no carriers; an index to start from holds carriers of *)
(* deployed tokens apart from vaults and coins.                            *)
ASSUME PipelineAssumption == P!Sound

-----------------------------------------------------------------------------
(* The Guardian, the app and the indexer agree on every transition that is *)
(* mined: it is applied as what was signed, and nothing it spends is       *)
(* burned.                                                                 *)
Agreement == P!TypeOK /\ P!SignedIsApplied

(* So do the other parties of an honest request, at every step: what the   *)
(* builders make the Guardian validates and signs on the pending tip, what *)
(* it signs the finalizer passes, the browser's own check declines none of *)
(* it, and what passes both gives the wallet exactly what it was told.     *)
PartiesAgree ==
  [][/\ P!BuildsValidate' /\ P!SignedIsFinal' /\ P!QueueDrains'
     /\ P!BuildsPassWallet' /\ P!WalletGetsSigned]_(P!vars)
=============================================================================
