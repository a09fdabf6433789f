----------------------------- MODULE UserSigning -----------------------------
(***************************************************************************)
(* The user's signature from both ends: what the browser's wallet is asked *)
(* to sign (WalletSession) and what the server takes for a signature       *)
(* (Signatures).  The two share no state; a behaviour of the whole is one  *)
(* of each, in any order.                                                  *)
(***************************************************************************)
EXTENDS Naturals, Sequences, FiniteSets

CONSTANTS Browser, Dev, Addresses, MaxVault, MaxRefusals, MaxReloads,
          Seller, Buyer, Orders, Funds, MaxMade

VARIABLES regtest, conn, stored, silent, asked, test, job, vault, chosen, refusals, reloads
W == INSTANCE WalletSession WITH faults <- refusals, MaxFaults <- MaxRefusals

VARIABLES stage, order, psbt, made, letter
G == INSTANCE Signatures

(* A wallet has a name, an adapter if it is an extension, and at least one *)
(* address; nobody holds the vault's script, and the other party of a      *)
(* trade is not oneself.                                                   *)
ASSUME WalletAssumption ==
  /\ "" \notin Browser \cup Dev
  /\ Browser \subseteq DOMAIN W!ADAPTERS
  /\ \A w \in Browser \cup Dev :
       /\ Addresses[w] \in Seq([script : STRING, format : STRING])
       /\ Addresses[w] # <<>>
       /\ W!Scripts(w) \cap {"vault", "other"} = {}
  /\ MaxVault \in Nat \ {0}

(* A listing is known by its id, and pays to and from scripts.             *)
ASSUME ListingAssumption ==
  /\ \A l \in Orders :
       /\ l.token = G!Script(l.token.kind, l.token.key)
       /\ \A m \in Orders : G!listingIdOf(l) = G!listingIdOf(m) => l = m
  /\ \A f \in Funds : f.script = G!Script(f.script.kind, f.script.key)

-----------------------------------------------------------------------------
(* What is signed: by the wallet the user last chose, on its own inputs    *)
(* and all of them, and for a buy on the vault state that was reviewed;    *)
(* and what is taken: only signatures by the right key over the whole      *)
(* transaction or the very message, and every wallet's that made one.      *)
SignsAsAsked ==
  /\ W!TypeOK /\ W!ChosenStands /\ W!SignedBuyIsReviewed /\ W!SignedIsOwn
  /\ G!PartiesSigned /\ G!WalletsAccepted /\ G!AuthorizationBound
=============================================================================
