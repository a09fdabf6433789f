---------------------------- MODULE WalletSession ----------------------------
(***************************************************************************)
(* The browser's wallet and what it is asked to sign: WalletProvider (who  *)
(* is connected, what survives a reload, the silent reconnection), the     *)
(* wallet adapters, and the flows of the pages, which call the server and  *)
(* the wallet step after step while blocks come and the user may connect   *)
(* another wallet.  A flow keeps the connection of the render in which it  *)
(* was clicked (a closure); the built-in regtest wallets are the exception *)
(* and are read from window at every call.                                 *)
(* React's commit after a state change is one step with it.  What          *)
(* verifyClientIntent compares is in Pipeline; the server's side of a      *)
(* build in Funding, Pipeline and AppSessions.                             *)
(***************************************************************************)
EXTENDS Naturals, Sequences, FiniteSets

CONSTANTS Browser,    \* installed wallet extensions, by adapter id
          Dev,        \* the built-in regtest identities
          Addresses,  \* what each of them returns: <<[script, format], ...>>
          MaxVault,   \* bound: states of the token's vault
          MaxFaults,  \* bound: refused or failed calls
          MaxReloads  \* bound: reloads of the page

VARIABLES regtest,  \* the network is regtest: Dev wallets only, else Browser only
          conn,     \* the connected wallet, "" if none
          stored,   \* localStorage: the wallet last connected
          silent,   \* silent reconnections under way: [w, live]
          asked,    \* wallets the user asked to connect, not answered yet
          test,     \* window.__COVE_TEST_WALLET__
          job,      \* the flow under way: a set, empty or one record
          vault,    \* the state of the vault on the server
          chosen,   \* history: the wallet the user last connected, "" after a disconnect
          faults, reloads
vars == <<regtest, conn, stored, silent, asked, test, job, vault, chosen, faults, reloads>>

wallets == <<regtest, conn, stored, silent, asked, test, chosen, reloads>>
Wallet == IF regtest THEN Dev ELSE Browser

-----------------------------------------------------------------------------
(* The adapters: how each wallet is told what to sign.                     *)
ADAPTERS == [xverse |-> "byAddress", unisat |-> "byAddress", magiceden |-> "byAddress",
             okx |-> "byAddress", phantom |-> "byAddress", leather |-> "indexes",
             oyl |-> "all"]

(* Taproot holds the tokens, anything else the bitcoin; a single address   *)
(* does both.                                                              *)
splitAddresses(addrs) ==
  LET taproot == {i \in DOMAIN addrs : addrs[i].format = "taproot"}
      payment == DOMAIN addrs \ taproot
      find(S) == addrs[CHOOSE i \in S : \A j \in S : i <= j].script
  IN [payments |-> find(IF payment # {} THEN payment ELSE taproot),
      ordinals |-> find(IF taproot # {} THEN taproot ELSE payment)]

Account(w) == splitAddresses(Addresses[w])
Scripts(w) == {Addresses[w][i].script : i \in DOMAIN Addresses[w]}

(* The inputs of a transaction, by the script each spends, that belong to  *)
(* the connected wallet: never the vault's.                                *)
inputsOwnedBy(w, inputs) == inputs \cap {Account(w).payments, Account(w).ordinals}

(* What a wallet signs when asked; "all" names no inputs and leaves it to  *)
(* the wallet to sign what it holds keys for.                              *)
AdapterSigns(w, inputs) ==
  IF ADAPTERS[w] = "all" THEN inputs \cap Scripts(w) ELSE inputsOwnedBy(w, inputs)

(* A regtest identity signs every input that pays to its key.              *)
DevSigns(w, inputs) == inputs \cap Scripts(w)

-----------------------------------------------------------------------------
(* WalletProvider.                                                         *)

(* The effect on conn: a change cancels the reconnection under way, and    *)
(* with no wallet connected starts one to the wallet in storage.           *)
Reconnect(newConn, storage) ==
  silent' = {[s EXCEPT !.live = FALSE] : s \in silent} \cup
            (IF newConn = "" /\ storage # "" /\ ~regtest THEN {[w |-> storage, live |-> TRUE]}
             ELSE {})

(* connect, connectDev: the user picks a wallet; it answers or refuses.    *)
Ask(w) ==
  /\ conn = "" /\ w \notin asked
  /\ asked' = asked \cup {w}
  /\ UNCHANGED <<regtest, conn, stored, silent, test, job, vault, chosen, faults, reloads>>

Connected(w) ==
  /\ ~regtest /\ w \in asked /\ asked' = asked \ {w}
  /\ conn' = w /\ stored' = w /\ chosen' = w
  /\ IF conn # w THEN Reconnect(w, w) ELSE UNCHANGED silent
  /\ UNCHANGED <<regtest, test, job, vault, faults, reloads>>

installDevWallet(w) == test' = w

ConnectedDev(w) ==
  /\ regtest /\ w \in asked /\ asked' = asked \ {w}
  /\ installDevWallet(w)
  /\ conn' = w /\ stored' = w /\ chosen' = w
  /\ UNCHANGED <<regtest, silent, job, vault, faults, reloads>>

Refused(w) ==
  /\ w \in asked /\ asked' = asked \ {w}
  /\ UNCHANGED <<regtest, conn, stored, silent, test, job, vault, chosen, faults, reloads>>

disconnect ==
  /\ conn # ""
  /\ conn' = "" /\ stored' = "" /\ chosen' = "" /\ test' = ""
  /\ Reconnect("", stored')
  /\ UNCHANGED <<regtest, asked, job, vault, faults, reloads>>

(* A silent reconnection is answered, unless the wallet is gone or refuses.*)
Silent(s) ==
  /\ silent' = silent \ {s}
  /\ conn' \in {conn, IF s.live THEN s.w ELSE conn}
  /\ UNCHANGED <<regtest, stored, asked, test, job, vault, chosen, faults, reloads>>

(* The page is loaded again: everything but storage is lost.  DevWallet    *)
(* asks for the identity in storage by itself.                             *)
Reload ==
  /\ reloads < MaxReloads
  /\ reloads' = reloads + 1
  /\ conn' = "" /\ test' = "" /\ job' = {}
  /\ asked' = (IF regtest /\ stored # "" THEN {stored} ELSE {})
  /\ silent' = (IF stored # "" /\ ~regtest THEN {[w |-> stored, live |-> TRUE]} ELSE {})
  /\ UNCHANGED <<regtest, stored, vault, chosen, faults>>

-----------------------------------------------------------------------------
(* The flows: the calls each makes, in order.  "confirm" is the user's     *)
(* second click, on the review of a trade or of a launch.                  *)
tradeFlow  == <<"quote", "confirm", "build", "verify", "signPsbt", "submit">>
launchFlow == <<"prepare", "confirm", "build", "verify", "signPsbt", "submit">>
sendTokens == <<"build", "verify", "signPsbt", "submit">>
createListing == <<"portfolio", "prepare", "signBip322", "submit">>
buyListing == <<"prepare", "signBip322", "reserve", "build", "verify", "signPsbt", "submit">>
sellerSign == <<"verify", "signPsbt", "submit", "finalize">>
cancel     == <<"prepare", "signBip322", "submit">>

(* The handlers of the pages add a message and, on the wallet page, a      *)
(* refresh of the portfolio when they are done (Pages).                    *)
send   == sendTokens
list   == createListing
buyAsk == buyListing

Flow == [buy |-> tradeFlow, redeem |-> tradeFlow, launch |-> launchFlow, send |-> send,
         list |-> list, fill |-> buyAsk, sell |-> sellerSign, cancel |-> cancel]

Job == CHOOSE j \in job : TRUE
At(step) == job # {} /\ Job.step <= Len(Flow[Job.op]) /\ Flow[Job.op][Job.step] = step
Busy == job # {} /\ ~At("confirm") /\ Job.step <= Len(Flow[Job.op])

(* The inputs of the transaction the server builds for a wallet: the       *)
(* vault's, the wallet's coins and carriers, the other party's.            *)
Inputs(op, w) ==
  (IF op \in {"buy", "redeem"} THEN {"vault"} ELSE {}) \cup
  (IF op \in {"buy", "redeem", "launch", "send", "fill"} THEN {Account(w).payments} ELSE {}) \cup
  (IF op \in {"redeem", "send", "sell"} THEN {Account(w).ordinals} ELSE {}) \cup
  (IF op \in {"fill", "sell"} THEN {"other"} ELSE {})

(* What the server wants signed when a flow submits: every input that is   *)
(* not the vault's or the other party's, or the message by the wallet.     *)
Wanted(j) == IF j.op \in {"list", "cancel"} THEN {Account(j.by).ordinals}
             ELSE Inputs(j.op, j.by) \ {"vault", "other"}

(* A click starts a flow: reviewTrade, prepare, send, list, buyAsk, ...    *)
Start(op) ==
  /\ conn # "" /\ ~Busy
  /\ job' = {[op |-> op, step |-> 1, by |-> conn, quote |-> 0,
              built |-> IF op = "sell" THEN vault ELSE 0, signed |-> {}]}
  /\ UNCHANGED <<wallets, vault, faults>>

Advance(j) == job' = {[j EXCEPT !.step = @ + 1]}

(* An error is shown and the buttons come back; a review, or a prepared    *)
(* launch, stays on the screen to be confirmed again.                      *)
Abandon ==
  job' = IF \E k \in 1..(Job.step - 1) : Flow[Job.op][k] = "confirm"
         THEN {[Job EXCEPT !.step = 2, !.built = 0, !.signed = {}]} ELSE {}

(* confirmTrade, buildAndSign: the connection is that of this click.       *)
Confirm ==
  /\ At("confirm") /\ conn # ""
  /\ job' = {[Job EXCEPT !.step = @ + 1, !.by = conn]}
  /\ UNCHANGED <<wallets, vault, faults>>

Quote ==
  /\ At("quote")
  /\ job' = {[Job EXCEPT !.step = @ + 1, !.quote = vault]}
  /\ UNCHANGED <<wallets, vault, faults>>

(* Calls of which only the order matters here.                             *)
Call ==
  /\ \E step \in {"prepare", "portfolio", "reserve", "verify", "finalize"} : At(step)
  /\ Advance(Job)
  /\ UNCHANGED <<wallets, vault, faults>>

(* Mutant: a buy is built on whatever state is current, too.               *)
BuildUnbound ==
  /\ At("build")
  /\ job' = {[Job EXCEPT !.step = @ + 1, !.built = vault]}
  /\ UNCHANGED <<wallets, vault, faults>>

(* The build of a buy carries the quote's binding, and the server refuses  *)
(* it on another state of the vault; a redemption is built on whatever     *)
(* state is current.                                                       *)

Build ==
  /\ At("build")
  /\ IF Job.op = "buy" /\ Job.quote # vault THEN Abandon
     ELSE job' = {[Job EXCEPT !.step = @ + 1, !.built = vault]}
  /\ UNCHANGED <<wallets, vault, faults>>

(* signPsbt: by the wallet of the click, or by the test wallet of now,     *)
(* which signs the inputs that are its own.                                *)
signPsbt ==
  LET inputs == Inputs(Job.op, Job.by) IN
  /\ At("signPsbt")
  /\ IF regtest
     THEN IF test = "" THEN Abandon
          ELSE job' = {[Job EXCEPT !.step = @ + 1, !.signed = DevSigns(test, inputs)]}
     ELSE IF inputsOwnedBy(Job.by, inputs) = {} THEN Abandon
          ELSE job' = {[Job EXCEPT !.step = @ + 1, !.signed = AdapterSigns(Job.by, inputs)]}
  /\ UNCHANGED <<wallets, vault, faults>>

(* signBip322: the address that holds the tokens signs the message.        *)
signBip322 ==
  /\ At("signBip322")
  /\ IF regtest /\ test = "" THEN Abandon
     ELSE LET w == IF regtest THEN test ELSE Job.by
          IN job' = {[Job EXCEPT !.step = @ + 1, !.signed = {Account(w).ordinals}]}
  /\ UNCHANGED <<wallets, vault, faults>>

(* The server checks the signatures; a flow that is done clears its review.*)
Submit ==
  /\ At("submit")
  /\ IF Wanted(Job) \subseteq Job.signed THEN Advance(Job) ELSE Abandon
  /\ UNCHANGED <<wallets, vault, faults>>

(* Any call may be refused: by the wallet's owner, the server, the network.*)
Fails ==
  /\ Busy /\ faults < MaxFaults
  /\ faults' = faults + 1
  /\ Abandon
  /\ UNCHANGED <<wallets, vault>>

(* Another trade moves the vault.                                          *)
VaultMoves ==
  /\ vault < MaxVault
  /\ vault' = vault + 1
  /\ UNCHANGED <<wallets, job, faults>>

-----------------------------------------------------------------------------
Init ==
  /\ regtest \in BOOLEAN
  /\ stored \in Wallet \cup {""}
  /\ chosen = stored
  /\ conn = "" /\ test = "" /\ job = {}
  /\ asked = (IF regtest /\ stored # "" THEN {stored} ELSE {})
  /\ silent = (IF stored # "" /\ ~regtest THEN {[w |-> stored, live |-> TRUE]} ELSE {})
  /\ vault = 1 /\ faults = 0 /\ reloads = 0

Next ==
  \/ \E w \in Wallet : Ask(w) \/ Connected(w) \/ ConnectedDev(w) \/ Refused(w)
  \/ disconnect \/ Reload
  \/ \E s \in silent : Silent(s)
  \/ \E op \in DOMAIN Flow : Start(op)
  \/ Confirm \/ Quote \/ Call \/ Build \/ signPsbt \/ signBip322 \/ Submit \/ Fails
  \/ VaultMoves

Spec == Init /\ [][Next]_vars

-----------------------------------------------------------------------------
(* Types; and at most one silent reconnection can still take effect, none  *)
(* while a wallet is connected.                                            *)
TypeOK ==
  /\ {conn, stored, chosen} \subseteq Wallet \cup {""} /\ asked \subseteq Wallet
  /\ test \in Dev \cup {""} /\ vault \in 1..MaxVault
  /\ Cardinality(job) <= 1
  /\ Cardinality({s \in silent : s.live}) <= (IF conn = "" THEN 1 ELSE 0)

(* The connected wallet is the one the user last chose: neither a silent   *)
(* reconnection that answers late nor a reload brings another one back, or *)
(* any after a disconnect.                                                 *)
ChosenStands == conn # "" => conn = chosen

(* A buy is signed only on the vault state whose price was reviewed, with  *)
(* other trades between the review, the confirmation and the signature.    *)
SignedBuyIsReviewed == At("submit") /\ Job.op = "buy" => Job.built = Job.quote

(* What a flow submits is signed on every input of the wallet it was built *)
(* for and on no other: not the vault's, not the other party's, and not    *)
(* those of a wallet connected meanwhile (the regtest wallets, which are   *)
(* read when called, may leave inputs unsigned, and the server refuses).   *)
SignedIsOwn ==
  At("submit") => /\ Job.signed \cap {"vault", "other"} = {}
                  /\ ~regtest => Job.signed = Wanted(Job)
=============================================================================
