----------------------------- MODULE WireFormat -----------------------------
(***************************************************************************)
(* The bytes of a Cove operation and everybody who reads them.             *)
(*                                                                         *)
(*   cove-wire/src/codecV2.ts, ticker.ts   the binary envelope             *)
(*   cove-indexer/src/v3/parser.ts         the indexer's reader            *)
(*   cove-guardian/src/v3/resolve.ts        the Guardian's                  *)
(*   wallets/src/cove-intent.ts            the browser's                   *)
(*   cove-wire/src/discovery.ts            crc-20 readers, who find a JSON *)
(*                                         object beside the envelope      *)
(*                                                                         *)
(* A payload is a sequence of bytes; the widths of its fields and the      *)
(* range of a byte are parameters, so that a bounded instance has every    *)
(* boundary of the real one.  An envelope is written, and then bytes of it *)
(* are changed, dropped or put in and outputs are moved: whatever results, *)
(* the readers must find the same operation in it, or none.                *)
(***************************************************************************)
EXTENDS Integers, Sequences, SequencesExt, FiniteSetsExt

CONSTANTS Base,        \* a byte is 0 .. Base - 1
          ID_BYTES, AMOUNT_BYTES, NONCE_BYTES,
          MAX_TICKER_BYTES, MAX_TRANSFER_ALLOCATIONS, MAX_REDEEM_ALLOCATIONS,
          COVE_WIRE_MAGIC,     \* a sequence of bytes
          OP_RETURN,           \* the byte a data output begins with
          MAX_PUSH,            \* the longest direct push (0x4b)
          Upper,               \* letters, each with its upper case
          Digit,
          DATACARRIER_PAYLOAD_LIMIT,
          CreatorScripts,      \* payment scripts an index accepts of a creator
          Envelopes,           \* what applications ask the encoders for
          MaxAlterations

Byte == 0 .. Base - 1
OP_DEPLOY == 1
OP_TRANSFER == 2
OP_MINT == 3
OP_REDEEM == 4
COVE_WIRE_V2 == 2
COVE_POLICY_V3 == 3
LargestAmount == Base ^ AMOUNT_BYTES - 1
Refused == <<>>     \* an encoder, decoder or reader that throws
-----------------------------------------------------------------------------
(* Encoding *)

canonicalTicker(t) ==
  IF /\ Len(t) \in 1 .. MAX_TICKER_BYTES
     /\ t[1] \in DOMAIN Upper
     /\ \A i \in DOMAIN t : t[i] \in DOMAIN Upper \cup Digit
  THEN [i \in DOMAIN t |-> IF t[i] \in Digit THEN t[i] ELSE Upper[t[i]]]
  ELSE Refused

Fixed(n, width) == [i \in 1 .. width |-> (n \div Base ^ (width - i)) % Base]
Total(a) == FoldLeft(LAMBDA s, x : s + x.amount, 0, a)

assertAllocations(a, max, min) ==
  /\ Len(a) \in min .. max
  /\ \A i, j \in DOMAIN a : a[i].vout = a[j].vout => i = j
  /\ \A i \in DOMAIN a : a[i].amount > 0 /\ a[i].vout \in Byte
  /\ Total(a) <= LargestAmount

headerV2(op) == COVE_WIRE_MAGIC \o <<COVE_WIRE_V2, op>>
AllocationBytes(a) ==
  FlattenSeq([i \in DOMAIN a |-> <<a[i].vout>> \o Fixed(a[i].amount, AMOUNT_BYTES)])

(* encodeDeployV2, encodeMintV2, encodeTransferV2 and encodeRedeemV2, as   *)
(* reencodeV2 chooses among them.                                          *)
reencodeV2(e) ==
  CASE e.op = OP_DEPLOY /\ canonicalTicker(e.ticker) # Refused ->
         headerV2(OP_DEPLOY) \o <<COVE_POLICY_V3, Len(e.ticker)>>
           \o canonicalTicker(e.ticker) \o Fixed(e.nonce, NONCE_BYTES)
    [] e.op = OP_MINT /\ e.token > 0 /\ e.amount \in 1 .. LargestAmount /\ e.to \in Byte ->
         headerV2(OP_MINT) \o Fixed(e.token, ID_BYTES)
           \o Fixed(e.amount, AMOUNT_BYTES) \o <<e.to>>
    [] /\ e.op = OP_TRANSFER /\ e.token > 0
       /\ assertAllocations(e.allocations, MAX_TRANSFER_ALLOCATIONS, 1) ->
         headerV2(OP_TRANSFER) \o Fixed(e.token, ID_BYTES)
           \o <<Len(e.allocations)>> \o AllocationBytes(e.allocations)
    [] /\ e.op = OP_REDEEM /\ e.token > 0 /\ e.amount \in 1 .. LargestAmount
       /\ assertAllocations(e.allocations, MAX_REDEEM_ALLOCATIONS, 0) ->
         headerV2(OP_REDEEM) \o Fixed(e.token, ID_BYTES) \o Fixed(e.amount, AMOUNT_BYTES)
           \o <<Len(e.allocations)>> \o AllocationBytes(e.allocations)
    [] OTHER -> Refused
-----------------------------------------------------------------------------
(* The bytes that are hashed into a token's identity, after the chain's.   *)
computeTokenId(ticker, nonce, creator) ==
  canonicalTicker(ticker) \o Fixed(nonce, NONCE_BYTES) \o <<Len(creator)>> \o creator
-----------------------------------------------------------------------------
(* Decoding.  Header is the length of the header, and offsets count from 0 *)
(* as in the code.                                                         *)
Header == Len(COVE_WIRE_MAGIC) + 2
Field(p, offset, width) ==
  FoldLeft(LAMBDA n, b : Base * n + b, 0, SubSeq(p, offset + 1, offset + width))
HasMagic(p) == IsPrefix(COVE_WIRE_MAGIC, p)

(* Mutant: an output may be named twice. *)
readAllocationsAgain(p, offset, count, max) ==
  LET step == 1 + AMOUNT_BYTES
      a == [i \in 1 .. count |-> [vout |-> p[offset + (i - 1) * step + 1],
                                  amount |-> Field(p, offset + (i - 1) * step + 1, AMOUNT_BYTES)]]
  IN  IF count <= max /\ Total(a) <= LargestAmount /\ \A i \in DOMAIN a : a[i].amount # 0
      THEN <<a>> ELSE Refused

(* The allocations, as a sequence of one, or Refused. *)
readAllocations(p, offset, count, max) ==
  LET step == 1 + AMOUNT_BYTES
      a == [i \in 1 .. count |-> [vout |-> p[offset + (i - 1) * step + 1],
                                  amount |-> Field(p, offset + (i - 1) * step + 1, AMOUNT_BYTES)]]
  IN  IF /\ count <= max
         /\ \A i \in DOMAIN a : a[i].amount # 0
         /\ \A i, j \in DOMAIN a : a[i].vout = a[j].vout => i = j
         /\ Total(a) <= LargestAmount
      THEN <<a>> ELSE Refused

decodeDeploy(p) ==
  LET n == p[Header + 2]
      ticker == SubSeq(p, Header + 3, Header + 2 + n)
  IN  IF /\ Len(p) >= Header + 2
         /\ p[Header + 1] = COVE_POLICY_V3
         /\ n \in 1 .. MAX_TICKER_BYTES
         /\ Len(p) = Header + 2 + n + NONCE_BYTES
         /\ canonicalTicker(ticker) = ticker
      THEN <<[op |-> OP_DEPLOY, ticker |-> ticker,
              nonce |-> Field(p, Header + 2 + n, NONCE_BYTES)]>>
      ELSE Refused

decodeMint(p) ==
  LET token == Field(p, Header, ID_BYTES)
      amount == Field(p, Header + ID_BYTES, AMOUNT_BYTES)
  IN  IF Len(p) = Header + ID_BYTES + AMOUNT_BYTES + 1 /\ token # 0 /\ amount # 0
      THEN <<[op |-> OP_MINT, token |-> token, amount |-> amount, to |-> Last(p)]>>
      ELSE Refused

(* TRANSFER (with amount 0) and REDEEM: the allocations follow fixed bytes.*)
decodeAllocating(p, op, fixed, min, max) ==
  LET token == Field(p, Header, ID_BYTES)
      count == p[fixed + 1]
      a == readAllocations(p, fixed + 1, count, max)
  IN  IF /\ Len(p) >= fixed + 1 /\ token # 0
         /\ op = OP_REDEEM => Field(p, Header + ID_BYTES, AMOUNT_BYTES) # 0
         /\ count >= min
         /\ Len(p) = fixed + 1 + count * (1 + AMOUNT_BYTES)
         /\ a # Refused
      THEN <<[op |-> op, token |-> token, allocations |-> a[1],
              amount |-> IF op = OP_REDEEM THEN Field(p, Header + ID_BYTES, AMOUNT_BYTES) ELSE 0]>>
      ELSE Refused

(* decodeV2: the envelope, as a sequence of one, or Refused. *)
decodeV2(p) ==
  IF Len(p) < Header \/ ~HasMagic(p) \/ p[Header - 1] # COVE_WIRE_V2 THEN Refused
  ELSE CASE p[Header] = OP_DEPLOY -> decodeDeploy(p)
         [] p[Header] = OP_MINT -> decodeMint(p)
         [] p[Header] = OP_TRANSFER ->
              decodeAllocating(p, OP_TRANSFER, Header + ID_BYTES, 1, MAX_TRANSFER_ALLOCATIONS)
         [] p[Header] = OP_REDEEM ->
              decodeAllocating(p, OP_REDEEM, Header + ID_BYTES + AMOUNT_BYTES, 0,
                               MAX_REDEEM_ALLOCATIONS)
         [] OTHER -> Refused
-----------------------------------------------------------------------------
(* Readers of a transaction's output scripts *)

Push(p) == <<OP_RETURN, Len(p)>> \o p
IsData(s) == Len(s) >= 2 /\ s[1] = OP_RETURN
Measured(s) == Len(s) = 2 + s[2]
Payload(s) == SubSeq(s, 3, Len(s))

(* parser.ts: NON_COVE, INVALID, or the operation. *)
parseCoveTx(outs) ==
  IF outs = <<>> \/ ~IsData(outs[1]) THEN [kind |-> "NON_COVE"]
  ELSE IF ~Measured(outs[1]) THEN [kind |-> "INVALID"]
  ELSE IF Len(Payload(outs[1])) < Header \/ ~HasMagic(Payload(outs[1])) THEN [kind |-> "NON_COVE"]
  ELSE IF decodeV2(Payload(outs[1])) = Refused THEN [kind |-> "INVALID"]
  ELSE [kind |-> "COVE", envelope |-> decodeV2(Payload(outs[1]))[1]]

(* resolve.ts, on a PSBT and on a signed transaction. *)
decodeCoveOpReturn(outs) ==
  IF outs # <<>> /\ IsData(outs[1]) /\ Measured(outs[1])
  THEN decodeV2(Payload(outs[1])) ELSE Refused

(* cove-intent.ts: the first output that carries the magic decides.        *)
Candidates(outs) ==
  {i \in DOMAIN outs : /\ IsData(outs[i]) /\ Len(outs[i]) >= 2 + Header
                       /\ outs[i][2] <= MAX_PUSH /\ Measured(outs[i])
                       /\ HasMagic(Payload(outs[i]))}
coveEnvelope(outs) ==
  IF Candidates(outs) = {} THEN Refused
  ELSE decodeV2(Payload(outs[Min(Candidates(outs))]))
-----------------------------------------------------------------------------
(* The discovery envelope: a JSON object, here its fields in order as      *)
(* <<key, value>> and whether it is written without spaces.  Values are    *)
(* strings, kept as sequences: p and op a single name, tick the letters,   *)
(* amt the number.                                                         *)
opName(op) == CASE op = OP_DEPLOY -> "deploy" [] op = OP_MINT -> "mint"
                [] op = OP_TRANSFER -> "transfer" [] OTHER -> "redeem"
Json(fields, compact) == [fields |-> fields, compact |-> compact]
Optional(key, value) == IF value = <<>> THEN <<>> ELSE <<<<key, value>>>>

AmountOf(e) == IF e.op = OP_TRANSFER THEN Total(e.allocations) ELSE e.amount

(* serializeDiscovery: p, op, tick, amt, those there are.                  *)
serializeDiscovery(op, tick, amt) ==
  Json(<<<<"p", <<"crc-20">>>>, <<"op", <<op>>>>>> \o Optional("tick", tick) \o Optional("amt", amt), TRUE)

(* discoveryFor: both envelopes come from the same parsed operation.  Only *)
(* a deploy says its ticker itself; the caller may name it for the others. *)
discoveryFor(e, ticker) ==
  IF e.op = OP_DEPLOY THEN serializeDiscovery(opName(e.op), canonicalTicker(e.ticker), <<>>)
  ELSE serializeDiscovery(opName(e.op), ticker, <<AmountOf(e)>>)

(* Characters: braces, commas, and for each field its key and value, each  *)
(* in quotes, and a colon.                                                 *)
Letters == [deploy |-> 6, mint |-> 4, transfer |-> 8, redeem |-> 6]
FieldLength(f) ==
  5 + (CASE f[1] = "p" -> 1 + 6 [] f[1] = "op" -> 2 + Letters[f[2][1]]
         [] f[1] = "tick" -> 4 + Len(f[2]) [] OTHER -> 3 + Len(ToString(f[2][1])))
JsonLength(d) == 1 + Len(d.fields) + FoldLeft(LAMBDA n, f : n + FieldLength(f), 0, d.fields)

encodeDiscovery(e, ticker) ==
  IF ticker # <<>> /\ e.op # OP_DEPLOY /\ canonicalTicker(ticker) = Refused THEN Refused
  ELSE IF JsonLength(discoveryFor(e, canonicalTicker(ticker))) > DATACARRIER_PAYLOAD_LIMIT THEN Refused
  ELSE <<discoveryFor(e, canonicalTicker(ticker))>>

(* What a reader of crc-20 sees: the last value of each key, in any order. *)
ValueAt(d, key) ==
  LET at == {i \in DOMAIN d.fields : d.fields[i][1] = key}
  IN  IF at = {} THEN <<>> ELSE d.fields[Max(at)][2]
decodeDiscovery(d) ==
  IF ValueAt(d, "p") # <<"crc-20">> \/ ValueAt(d, "op") = <<>> THEN Refused
  ELSE <<[op |-> ValueAt(d, "op")[1], tick |-> ValueAt(d, "tick"), amt |-> ValueAt(d, "amt")]>>

(* Equality with what encodeDiscovery makes; the Guardian signs no other.  *)
discoveryAgreesWithBinary(d, e, ticker) == encodeDiscovery(e, ticker) = <<d>>
-----------------------------------------------------------------------------
VARIABLES asked,      \* the envelope an application asked for
          outs,       \* the output scripts of its transaction
          altered     \* how many alterations it has had

vars == <<asked, outs, altered>>

Init ==
  /\ asked \in Envelopes
  /\ outs = IF reencodeV2(asked) = Refused THEN <<>> ELSE <<Push(reencodeV2(asked))>>
  /\ altered = 0

Alter(k, s) ==
  /\ altered < MaxAlterations
  /\ outs' = [outs EXCEPT ![k] = s]
  /\ altered' = altered + 1
  /\ UNCHANGED asked

Change == \E k \in DOMAIN outs : \E i \in DOMAIN outs[k], b \in Byte :
            Alter(k, [outs[k] EXCEPT ![i] = b])
Drop == \E k \in DOMAIN outs : \E i \in DOMAIN outs[k] : Alter(k, RemoveAt(outs[k], i))
Insert == \E k \in DOMAIN outs : \E i \in 1 .. Len(outs[k]) + 1, b \in Byte :
            Alter(k, InsertAt(outs[k], i, b))

(* Another output in front of it: a payment, or another envelope.          *)
Prepend ==
  /\ altered < MaxAlterations
  /\ outs' \in {<<s>> \o outs : s \in {<<0>>} \cup {Push(reencodeV2(e)) : e \in Envelopes}}
  /\ altered' = altered + 1
  /\ UNCHANGED asked

Next == Change \/ Drop \/ Insert \/ Prepend

Spec == Init /\ [][Next]_vars
-----------------------------------------------------------------------------
(* Properties *)

Canonical(e) ==
  IF e.op = OP_DEPLOY THEN [e EXCEPT !.ticker = canonicalTicker(e.ticker)] ELSE e

(* There is one payload for each operation: whatever a reader accepts is   *)
(* what the encoders make of it, so that no two payloads mean the same,    *)
(* and none means what an application could not have asked for.            *)
OneReading ==
  \A k \in DOMAIN outs :
    LET p == Payload(outs[k])
    IN  IsData(outs[k]) /\ decodeV2(p) # Refused => reencodeV2(decodeV2(p)[1]) = p

(* What the encoders accept every reader understands, as it was meant.     *)
Understood ==
  (altered = 0 /\ outs # <<>>) =>
    /\ parseCoveTx(outs) = [kind |-> "COVE", envelope |-> Canonical(asked)]
    /\ decodeCoveOpReturn(outs) = <<Canonical(asked)>>
    /\ coveEnvelope(outs) = <<Canonical(asked)>>

(* Indexer and Guardian find the same operation; and the browser finds it  *)
(* too, or another one only in a transaction that has none for them.       *)
ReadersAgree ==
  LET read == parseCoveTx(outs)
  IN  /\ IF read.kind = "COVE" THEN decodeCoveOpReturn(outs) = <<read.envelope>>
         ELSE decodeCoveOpReturn(outs) = Refused
      /\ read.kind = "COVE" => coveEnvelope(outs) = <<read.envelope>>

(* Deploys that differ in ticker, nonce or creator make different tokens,  *)
(* although the hashed fields are of any length and only one has it said.  *)
Tickers == {canonicalTicker(t) : t \in UNION {[1 .. n -> DOMAIN Upper \cup Digit] : n \in 1 .. 2}}
OneToken ==
  (altered = 0 /\ asked.op = OP_DEPLOY /\ outs # <<>>) =>
    \A t \in Tickers \ {Refused}, n \in Byte, c, d \in CreatorScripts :
      computeTokenId(t, n, c) = computeTokenId(asked.ticker, asked.nonce, d) =>
        <<t, n, c>> = <<canonicalTicker(asked.ticker), asked.nonce, d>>

(* Objects that resemble a discovery envelope: another amount or name,     *)
(* another order, a field more or less, spaces.                            *)
Resembling(d) ==
  {d, Json(d.fields, FALSE), Json(Reverse(d.fields), TRUE)}
    \cup {Json(RemoveAt(d.fields, i), TRUE) : i \in DOMAIN d.fields}
    \cup {Json(InsertAt(d.fields, i, f), TRUE) :
            i \in 1 .. Len(d.fields) + 1, f \in {<<"amt", <<7>>>>, <<"op", <<"deploy">>>>, <<"tick", <<7>>>>}}

Moved(e) ==
  IF e.op = OP_TRANSFER THEN MapThenSumSet(LAMBDA i : e.allocations[i].amount, DOMAIN e.allocations)
  ELSE e.amount

(* Whoever reads the discovery envelope of a signed transaction reads its  *)
(* operation: an object the Guardian accepts beside a binary envelope says *)
(* its name and its whole amount, and the ticker if it says one; and the   *)
(* object the builder writes is found and accepted, unless it is too long. *)
DiscoveryHonest ==
  (altered = 0 /\ outs # <<>>) =>
    \A e \in {decodeV2(Payload(outs[1]))[1]}, t \in {<<>>, <<7>>, <<6, 4>>, <<4>>} :
      /\ \A d \in ToSet(encodeDiscovery(e, t)) :
           /\ discoveryAgreesWithBinary(d, e, t) /\ decodeDiscovery(d) # Refused
           /\ \A f \in Envelopes :
                reencodeV2(f) # Refused /\ discoveryAgreesWithBinary(d, Canonical(f), t) =>
                  f.op = e.op /\ (IF f.op = OP_DEPLOY THEN Canonical(f).ticker = e.ticker
                                 ELSE Moved(f) = Moved(e))
      /\ \A d \in Resembling(discoveryFor(e, canonicalTicker(t))) :
           discoveryAgreesWithBinary(d, e, t) =>
             decodeDiscovery(d) = <<[op |-> opName(e.op),
               tick |-> IF e.op = OP_DEPLOY THEN e.ticker ELSE canonicalTicker(t),
               amt |-> IF e.op = OP_DEPLOY THEN <<>> ELSE <<Moved(e)>>]>>

(* The bytes of an operation have one meaning: each operation has one      *)
(* payload, each payload one operation, all readers find it, and each      *)
(* deploy one token; and the object beside it says the same.               *)
WireCanonical == OneReading /\ Understood /\ ReadersAgree /\ OneToken /\ DiscoveryHonest
=============================================================================
