----------------------------- MODULE SafeFunding -----------------------------
(***************************************************************************)
(* What the coins of a build may hold (Funding), whoever checks them.      *)
(***************************************************************************)
EXTENDS Integers, FiniteSets

CONSTANTS Coin, CoinOrder, Value, Carrier, Asset, Requests, NodeRates, MaxMinerFee, MaxMoves
VARIABLES conf, unspent, indexed, node, cache, req, moves, stale
F == INSTANCE Funding

(* The coins of a build that is accepted carry no inscription or rune that *)
(* any service could ask about, no tokens, and are confirmed where the     *)
(* Guardian asks for it, unless that changed after the last look at them;  *)
(* and while nothing moves the Guardian refuses nothing the app picked.    *)
Funded == F!TypeOK /\ F!NothingDestroyed /\ F!AppAndGuardianAgree
=============================================================================
