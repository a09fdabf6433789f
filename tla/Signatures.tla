----------------------------- MODULE Signatures -----------------------------
(***************************************************************************)
(* What a signature of a user's wallet must be before Cove takes it: on an *)
(* input of a PSBT (packages/bitcoin/src/spend.ts, and the two inputs of a *)
(* market fill in packages/cove-market) and on a message (BIP-322, for a   *)
(* listing, its cancellation and a reservation).                           *)
(*                                                                         *)
(* A script is its kind and the key it pays to (hashes and the Taproot     *)
(* tweak are injective), a signature says whose it is, over what and with  *)
(* which sighash type: it verifies for that key and that digest only, and  *)
(* only the holder of the key makes one.  Everything else in a PSBT or a   *)
(* witness may be anything, which is what a wallet that follows another    *)
(* convention looks like to the server.  An absent field is <<>>.          *)
(***************************************************************************)
EXTENDS Naturals, Sequences, FiniteSets

CONSTANTS Seller, Buyer,   \* two keys
          Orders,          \* the listings a seller may ask for
          Funds,           \* [script, publicKey] a buyer may pay from
          MaxMade          \* bound: signatures made on one fill

VARIABLES stage,   \* of the fill: none, built, buyerSigned, sellerSigned, final
          order,   \* the listing it fills
          psbt,    \* the stored PSBT: input 1 is the carrier, input 2 the buyer's
          made,    \* history: the signatures the keys' holders made on it
          letter   \* a BIP-322 signature presented to the server
vars == <<stage, order, psbt, made, letter>>

Key == {Seller, Buyer}
Script(kind, key) == [kind |-> kind, key |-> key]
Pub(key, bytes) == [key |-> key, bytes |-> bytes]
Sig(by, tx, script, type, bytes) ==
  [by |-> by, over |-> [tx |-> tx, script |-> script, type |-> type], type |-> type, bytes |-> bytes]

(* ecc.verify, ecc.verifySchnorr.                                          *)
Verifies(sig, tx, script, key) ==
  sig.by = key /\ sig.over = [tx |-> tx, script |-> script, type |-> sig.type]

-----------------------------------------------------------------------------
(* spend.ts: what a wallet is given to sign with.                          *)
spendKindOf(script) == IF script.kind \in {"p2wpkh", "p2tr", "p2sh-p2wpkh"} THEN script.kind ELSE "null"

(* The 32-byte form of a key.                                              *)
xOnly(pub) == Pub(pub.key, 32)

(* bitcoinjs refuses a segwit address of a key that is not 33 bytes.       *)
scriptForKind(kind, pub) ==
  IF kind = "p2tr" THEN <<Script(kind, xOnly(pub).key)>>
  ELSE IF pub.bytes = 33 THEN <<Script(kind, pub.key)>> ELSE <<>>

(* assertKeyControls of the market, at listing and at reservation; the     *)
(* builder then makes the same checks.                                     *)
KeyControls(script, pub) ==
  /\ spendKindOf(script) # "null"
  /\ IF pub = <<>> THEN script.kind = "p2wpkh"
     ELSE scriptForKind(script.kind, pub[1]) = <<script>>

Input(script) == [script |-> script, redeem |-> <<>>, tapKey |-> <<>>,
                  partialSig |-> <<>>, tapSig |-> <<>>, final |-> <<>>]

CanBuildInput(script, pub) ==
  \/ script.kind = "p2wpkh"
  \/ spendKindOf(script) # "null" /\ pub # <<>> /\ scriptForKind(script.kind, pub[1]) = <<script>>

psbtInputFor(script, pub) ==
  CASE script.kind = "p2wpkh"      -> Input(script)
    [] script.kind = "p2sh-p2wpkh" -> [Input(script) EXCEPT !.redeem = <<Script("p2wpkh", pub[1].key)>>]
    [] OTHER                       -> [Input(script) EXCEPT !.tapKey = <<xOnly(pub[1])>>]

-----------------------------------------------------------------------------
(* spend.ts: what is taken back.                                           *)

(* bitcoinjs, for every partial signature: the redeem script is the one    *)
(* the output commits to, the key is the script's, the signature is valid. *)
validateSignaturesOfInput(i, tx) ==
  /\ i.script.kind = "p2wpkh" \/ i.redeem = <<Script("p2wpkh", i.script.key)>>
  /\ \A n \in DOMAIN i.partialSig :
       /\ i.partialSig[n].pub.key = i.script.key
       /\ Verifies(i.partialSig[n].sig, tx, Script("p2wpkh", i.script.key), i.partialSig[n].pub.key)

(* A Taproot signature of 64 bytes is SIGHASH_DEFAULT, which commits to    *)
(* every output; with a 65th byte only SIGHASH_ALL is taken.  It is        *)
(* verified against the key in the output, not the PSBT's internal key.    *)
checkSpendSignature(i, tx) ==
  IF spendKindOf(i.script) = "null" THEN "UNSUPPORTED"
  ELSE IF i.script.kind = "p2tr"
  THEN IF i.tapSig = <<>> THEN "UNSIGNED"
       ELSE IF i.tapSig[1].bytes = 65 /\ i.tapSig[1].type # "ALL" THEN "NOT_SIGHASH_ALL"
       ELSE IF i.tapSig[1].bytes \in {64, 65} /\ Verifies(i.tapSig[1], tx, i.script, i.script.key)
       THEN "ok" ELSE "INVALID"
  ELSE IF i.partialSig = <<>> THEN "UNSIGNED"
  ELSE IF i.partialSig[1].sig.type # "ALL" THEN "NOT_SIGHASH_ALL"
  ELSE IF (i.script.kind = "p2sh-p2wpkh" => i.redeem # <<>>) /\ validateSignaturesOfInput(i, tx)
  THEN "ok" ELSE "INVALID"

(* Undo a wallet's finalization of its own inputs: a witness of a key      *)
(* spend is turned back into the fields the checks read, the redeem script *)
(* included; any other witness is left alone.  A witness is a sequence of  *)
(* [sig] and [pub].                                                        *)
IsSig(item) == "sig" \in DOMAIN item
unfinalizeKeyInputs(i) ==
  LET kind == spendKindOf(i.script)
  IN IF i.final = <<>> \/ i.partialSig # <<>> \/ i.tapSig # <<>> THEN i
     ELSE IF kind \in {"p2wpkh", "p2sh-p2wpkh"} /\ Len(i.final) = 2
     THEN [i EXCEPT !.final = <<>>, !.partialSig = <<[pub |-> i.final[2].pub, sig |-> i.final[1].sig]>>,
                    !.redeem = IF kind = "p2wpkh" THEN @ ELSE <<Script("p2wpkh", i.final[2].pub.key)>>]
     ELSE IF kind = "p2tr" /\ Len(i.final) = 1 /\ i.final[1].sig.bytes \in {64, 65}
     THEN [i EXCEPT !.final = <<>>, !.tapSig = <<i.final[1].sig>>]
     ELSE i

(* parsePsbt of the app and of the market.                                 *)
parsePsbt(p) == [n \in DOMAIN p |-> unfinalizeKeyInputs(p[n])]

(* partialSigOfInput: whether an input carries any signature.              *)
IsSigned(i) == i.tapSig # <<>> \/ i.partialSig # <<>>

-----------------------------------------------------------------------------
(* The wallet (external): what it signs for a key it holds, if the PSBT    *)
(* tells it how, and how it hands the input back.  Finalizing moves the    *)
(* signature to the witness and clears every other field.                  *)
Signable(i) == /\ (i.script.kind = "p2sh-p2wpkh" => i.redeem # <<>>)
               /\ (i.script.kind = "p2tr" => i.tapKey # <<>>)

SignatureOn(i, tx, key, type) ==
  IF i.script.kind = "p2tr"
  THEN Sig(key, tx, i.script, type, IF type = "DEFAULT" THEN 64 ELSE 65)
  ELSE Sig(key, tx, Script("p2wpkh", i.script.key), type, 71)

Signed(i, sig, pub, finalized) ==
  IF finalized
  THEN [Input(i.script) EXCEPT !.final =
          IF i.script.kind = "p2tr" THEN <<[sig |-> sig]>> ELSE <<[sig |-> sig], [pub |-> pub]>>]
  ELSE IF i.script.kind = "p2tr" THEN [i EXCEPT !.tapSig = <<sig>>]
  ELSE [i EXCEPT !.partialSig = <<[pub |-> pub, sig |-> sig]>>]

(* bitcoinjs finalizeAllInputs and the network: every input has a          *)
(* signature, and every signature verifies.                                *)
NetworkAccepts(p, tx) ==
  \A n \in DOMAIN p :
    /\ IsSigned(p[n])
    /\ IF p[n].script.kind = "p2tr" THEN Verifies(p[n].tapSig[1], tx, p[n].script, p[n].script.key)
       ELSE validateSignaturesOfInput(p[n], tx)

-----------------------------------------------------------------------------
(* A market fill: the carrier of the listing and the buyer's coin, signed  *)
(* by the buyer first.  Only the PSBT of the fill's own transaction is     *)
(* taken (its digest is compared, Market).                                 *)
Tx == <<"FILL", order>>

Init == /\ stage = "none" /\ psbt = <<>> /\ made = {} /\ letter = <<>>
        /\ order \in Orders

(* validateListingShape: tokens only at addresses the indexer sees, money  *)
(* at any the wallets use.                                                 *)
validateListingShape(l) ==
  /\ l.token.kind \in {"p2wpkh", "p2tr"}
  /\ l.payout.kind \in {"p2wpkh", "p2tr", "p2sh-p2wpkh"}
  /\ l.change = l.token
  /\ l.amount > 0 /\ l.amount <= l.source /\ l.price > 0 /\ l.expiry > l.creation

Build(fund) ==
  /\ stage = "none" /\ letter = <<>>
  /\ validateListingShape(order) /\ KeyControls(order.token, order.publicKey)
  /\ KeyControls(fund.script, fund.publicKey)
  /\ CanBuildInput(order.token, order.publicKey) /\ CanBuildInput(fund.script, fund.publicKey)
  /\ stage' = "built"
  /\ psbt' = <<psbtInputFor(order.token, order.publicKey), psbtInputFor(fund.script, fund.publicKey)>>
  /\ UNCHANGED <<order, made, letter>>

(* A key's holder signs an input, with any sighash type.                   *)
Sign(n, key, type) ==
  /\ stage \in {"built", "buyerSigned"} /\ Cardinality(made) < MaxMade
  /\ Signable(psbt[n]) /\ (type = "DEFAULT" => psbt[n].script.kind = "p2tr")
  /\ made' = made \cup {SignatureOn(psbt[n], Tx, key, type)}
  /\ UNCHANGED <<stage, order, psbt, letter>>

(* A PSBT comes back: on input n a signature someone made, under any       *)
(* public key, finalized or not; the other party's input as it was, or     *)
(* with nothing or something else on it.                                   *)
Returns(p, n, sig, key, finalized) ==
  [p EXCEPT ![n] = Signed(p[n], sig, Pub(key, 33), finalized)]
Kept(n) ==
  {psbt, [psbt EXCEPT ![n] = Input(@.script)]} \cup
  {Returns(psbt, n, sig, psbt[n].script.key, FALSE) : sig \in made}

SubmitBuyer(p) ==
  /\ stage = "built"
  /\ ~IsSigned(parsePsbt(p)[1])
  /\ checkSpendSignature(parsePsbt(p)[2], Tx) = "ok"
  /\ stage' = "buyerSigned" /\ psbt' = p
  /\ UNCHANGED <<order, made, letter>>

(* The buyer's signature is looked for, not checked, a second time.        *)
SubmitSeller(p) ==
  /\ stage = "buyerSigned"
  /\ checkSpendSignature(parsePsbt(p)[1], Tx) = "ok"
  /\ IsSigned(parsePsbt(p)[2])
  /\ stage' = "sellerSigned" /\ psbt' = p
  /\ UNCHANGED <<order, made, letter>>

Finalize ==
  /\ stage = "sellerSigned" /\ NetworkAccepts(parsePsbt(psbt), Tx)
  /\ stage' = "final"
  /\ UNCHANGED <<order, psbt, made, letter>>

-----------------------------------------------------------------------------
(* BIP-322.  The three messages are hashes under different tags, of fields *)
(* that have a fixed width or are preceded by their length, so a message   *)
(* is its fields.  The seller's public key travels with a listing but is   *)
(* not one of them.                                                        *)
Message(domain, listing, nonce, script) ==
  [domain |-> domain, listing |-> listing, nonce |-> nonce, script |-> script]
NoScript == Script("", "")

listingIdOf(l) == [f \in DOMAIN l \ {"publicKey"} |-> l[f]]
listingMessageToSign(l) == Message("LISTING", listingIdOf(l), "", NoScript)
cancellationMessageToSign(c) == Message("CANCEL", c.listingId, c.nonce, NoScript)
reservationMessageToSign(r) == Message("RESERVE", r.listingId, r.nonce, r.script)

(* A signature as sent: a witness stack, encoded.  decodeWitness refuses   *)
(* what is cut off or goes on after the stack.                             *)
decodeWitness(sent) == IF sent.encoding = "exact" THEN sent.stack ELSE <<>>

(* The message's own virtual transaction is what is signed: nothing but    *)
(* the witness is the signer's.                                            *)
verifyBip322(script, message, sent) ==
  LET stack == decodeWitness(sent)
  IN CASE script.kind = "p2wpkh" ->
            /\ Len(stack) = 2 /\ IsSig(stack[1]) /\ ~IsSig(stack[2])
            /\ stack[2].pub.bytes = 33 /\ stack[2].pub.key = script.key
            /\ stack[1].sig.type = "ALL"
            /\ Verifies(stack[1].sig, message, script, stack[2].pub.key)
       [] script.kind = "p2tr" ->
            /\ Len(stack) = 1 /\ IsSig(stack[1])
            /\ stack[1].sig.bytes = 64 \/ (stack[1].sig.bytes = 65 /\ stack[1].sig.type = "ALL")
            /\ Verifies(stack[1].sig, message, script, script.key)
       [] OTHER -> FALSE

requireSupported(script) == script.kind \in {"p2wpkh", "p2tr"}
verifyListingAuthorization(l, sent) ==
  requireSupported(l.token) /\ verifyBip322(l.token, listingMessageToSign(l), sent)
verifyCancellationAuthorization(l, c, sent) ==
  requireSupported(l.token) /\ verifyBip322(l.token, cancellationMessageToSign(c), sent)
verifyReservationAuthorization(r, sent) ==
  requireSupported(r.script) /\ verifyBip322(r.script, reservationMessageToSign(r), sent)

(* What the holder of a script's key sends for a message.                  *)
signBip322P2wpkh(script, message) ==
  [encoding |-> "exact", stack |-> <<[sig |-> Sig(script.key, message, script, "ALL", 71)],
                                     [pub |-> Pub(script.key, 33)]>>]
signBip322P2tr(script, message, type) ==
  [encoding |-> "exact",
   stack |-> <<[sig |-> Sig(script.key, message, script, type, IF type = "ALL" THEN 65 ELSE 64)]>>]
Genuine(script, message) ==
  IF script.kind = "p2wpkh" THEN {signBip322P2wpkh(script, message)}
  ELSE {signBip322P2tr(script, message, type) : type \in {"DEFAULT", "ALL"}}

Nonce == {"n1", "n2"}
Claimant == {Script(kind, key) : kind \in {"p2wpkh", "p2tr"}, key \in Key}
Cancellation == [listingId : {listingIdOf(l) : l \in Orders}, nonce : Nonce]
Reservation == [listingId : {listingIdOf(l) : l \in Orders}, nonce : Nonce, script : Claimant]

(* Anyone sends a signature some key made over some message for some       *)
(* script, alone or with some public key.                                  *)
Present(script, message, key, type, bytes, pub, encoding) ==
  /\ stage = "none" /\ letter = <<>>
  /\ \E item \in {[sig |-> Sig(key, message, script, type, bytes)]} :
       letter' = <<[encoding |-> encoding,
                    stack |-> IF pub = <<>> THEN <<item>> ELSE <<item, [pub |-> pub[1]]>>]>>
  /\ UNCHANGED <<stage, order, psbt, made>>

Next ==
  \/ \E fund \in Funds : Build(fund)
  \/ \E n \in 1 .. 2, key \in Key, type \in {"ALL", "DEFAULT", "SINGLE"} : Sign(n, key, type)
  \/ \E sig \in made, key \in Key, finalized \in BOOLEAN :
       \/ \E p \in Kept(1) : SubmitBuyer(Returns(p, 2, sig, key, finalized))
       \/ \E p \in Kept(2) : SubmitSeller(Returns(p, 1, sig, key, finalized))
  \/ Finalize
  \/ \E script \in Claimant, key \in Key, encoding \in {"exact", "trailing"},
        pub \in {<<>>, <<Pub(Seller, 32)>>, <<Pub(Seller, 33)>>},
        message \in {listingMessageToSign(order)} \cup
                    {cancellationMessageToSign(c) : c \in {d \in Cancellation : d.listingId = listingIdOf(order)}} \cup
                    {reservationMessageToSign(r) : r \in {q \in Reservation : q.listingId = listingIdOf(order)}} :
       \/ Present(script, message, key, "ALL", IF script.kind = "p2tr" THEN 65 ELSE 71, pub, encoding)
       \/ Present(script, message, key, "DEFAULT", 64, pub, encoding)
       \/ Present(script, message, key, "SINGLE", IF script.kind = "p2tr" THEN 65 ELSE 71, pub, encoding)

Spec == Init /\ [][Next]_vars

-----------------------------------------------------------------------------
(* A fill goes on only with signatures of the right parties that commit to *)
(* every output of its own transaction: the buyer's before the seller is   *)
(* asked, the seller's before it is sent.                                  *)
CommitsToAll(n) ==
  \E sig \in made : sig.by = psbt[n].script.key /\ sig.over.tx = Tx /\ sig.type \in {"ALL", "DEFAULT"}
PartiesSigned ==
  /\ stage \in {"buyerSigned", "sellerSigned", "final"} => CommitsToAll(2)
  /\ stage \in {"sellerSigned", "final"} => CommitsToAll(1)
  /\ stage = "buyerSigned" => ~IsSigned(parsePsbt(psbt)[1])
  /\ stage = "sellerSigned" => IsSigned(parsePsbt(psbt)[1]) /\ IsSigned(parsePsbt(psbt)[2])

(* A wallet that signs what it was asked to sign is never turned away,     *)
(* whether it finalizes its input or not, and the fill then settles: as    *)
(* long as the buyer's wallet left the seller's input as it was, since the *)
(* seller is handed the PSBT the buyer returned.                           *)
Asked(i, key, finalized) ==
  Signed(i, SignatureOn(i, Tx, key, IF i.script.kind = "p2tr" THEN "DEFAULT" ELSE "ALL"),
         Pub(key, 33), finalized)
WalletsAccepted ==
  /\ stage = "built" => \A finalized \in BOOLEAN :
       /\ Signable(psbt[1]) /\ Signable(psbt[2])
       /\ checkSpendSignature(unfinalizeKeyInputs(Asked(psbt[2], psbt[2].script.key, finalized)), Tx) = "ok"
  /\ stage = "buyerSigned" /\ Signable(psbt[1]) => \A finalized \in BOOLEAN :
       \A p \in {[psbt EXCEPT ![1] = Asked(@, @.script.key, finalized)]} :
         checkSpendSignature(parsePsbt(p)[1], Tx) = "ok" /\ NetworkAccepts(parsePsbt(p), Tx)

(* A message is authorized by what its script's own key signed for that    *)
(* message, by nothing else, and a signature authorizes one use only: not  *)
(* a listing and its cancellation, not two cancellations or reservations.  *)
AuthorizationBound ==
  letter # <<>> =>
    /\ validateListingShape(order) =>
         verifyListingAuthorization(order, letter[1]) =
           (letter[1] \in Genuine(order.token, listingMessageToSign(order)))
    /\ validateListingShape(order) => \A c \in Cancellation :
         verifyCancellationAuthorization(order, c, letter[1]) =
           (letter[1] \in Genuine(order.token, cancellationMessageToSign(c)))
    /\ \A r \in Reservation : verifyReservationAuthorization(r, letter[1]) =
         (letter[1] \in Genuine(r.script, reservationMessageToSign(r)))
    /\ Cardinality({l \in Orders : verifyListingAuthorization(l, letter[1])}) +
       Cardinality({c \in Cancellation : verifyCancellationAuthorization(order, c, letter[1])}) +
       Cardinality({r \in Reservation : verifyReservationAuthorization(r, letter[1])}) <= 1
=============================================================================
