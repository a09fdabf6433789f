------------------------------ MODULE ProofRun ------------------------------
(* The three resumable runners that take a Cove V1 token through DEPLOY,   *)
(* MINT and TRANSFER on a public chain: the mainnet canary, which exports  *)
(* PSBTs and imports what the owner signed, and the mutinynet and signet   *)
(* proofs, which sign themselves.  Each keeps a manifest on disk and may   *)
(* stop anywhere and be started again, while blocks arrive, transactions   *)
(* are evicted, the last block is taken back and somebody else uses the    *)
(* ticker.  A coin is its value, a transaction its own id, an optional     *)
(* value a set of at most one element.                                     *)
EXTENDS Integers, Sequences, FiniteSets, FiniteSetsExt, SequencesExt

CONSTANTS
  Coins,           \* the actor's confirmed coins at first
  MintAmount, TransferAmount,
  Cost,            \* sats each operation pays out
  Required,        \* sats the coins selected for it must hold
  FeeRates,        \* the miner fees the owner may ask for
  MaxReplay,       \* MAX_ACTIVATION_REPLAY_BLOCKS
  MaxBlocks, MaxFaults   \* bounds of a behaviour

Ops == {"DEPLOY", "MINT", "TRANSFER"}

VARIABLES
  mode,       \* which runner: "canary", "mutinynet" or "signet"
  chain,      \* the blocks from the activation height on
  mempool,
  manifest,   \* what each step has on disk: expected, recorded, done
  exported,   \* PSBTs the canary printed, which the owner may sign
  pc, args,   \* the process: where it is, its flags and environment
  live, at,   \* its indexer, and the last height it asked for
  target,     \* the height it is indexing up to
  cur,        \* the step it works on
  clean,      \* the second indexer of the final replay
  posted,     \* history: every transaction handed to the network
  unsaved,    \* history: those whose manifest write a crash prevented
  stood,      \* history: the chain had the outcome during the final replay
  faults

process == <<pc, args, live, at, target, cur, clean>>
disk == <<manifest, exported>>
history == <<posted, unsaved, stood>>
vars == <<mode, chain, mempool, process, disk, history, faults>>

-----------------------------------------------------------------------------
(* The chain and the coins *)

SumOf(S) == FoldSet(LAMBDA c, n : c + n, 0, S)
ChangeOf(t) == SumOf(t.ins) - Cost[t.op] - t.fee
TxsOf(c) == UNION {{c[h][i] : i \in DOMAIN c[h]} : h \in DOMAIN c}
Ours(T) == {t \in T : t.by = "us"}
UnspentBy(T) ==
  (Coins \cup {ChangeOf(t) : t \in Ours(T)}) \ UNION {t.ins : t \in T}
Confirmed == UnspentBy(TxsOf(chain)) \cap UnspentBy(TxsOf(chain) \cup mempool)
Unspent == UnspentBy(TxsOf(chain) \cup mempool)
HeightOf(t) == CHOOSE h \in DOMAIN chain : \E i \in DOMAIN chain[h] : chain[h][i] = t

(* Largest first until the amount is there; {} when it never is.           *)
selectCoins(coins, required) ==
  LET tops == {S \in SUBSET coins : /\ SumOf(S) >= required
                                    /\ \A c \in S, d \in coins \ S : c > d}
  IN IF tops = {} THEN {}
     ELSE CHOOSE S \in tops : \A T \in tops : Cardinality(S) <= Cardinality(T)

testMempoolAccept(t) == t \notin TxsOf(chain) \cup mempool /\ t.ins \subseteq Unspent

-----------------------------------------------------------------------------
(* Cove V1, as far as one ticker and its two holders go *)

Fresh == [h |-> 0, dep |-> {}, supply |-> 0, a |-> 0, b |-> 0, valid |-> {}]
AmountOf(t) == IF t.by = "us" THEN MintAmount ELSE 1

(* Every mint here is built on a supply of zero. *)
validateCoveOperation(st, t) ==
  CASE t.op = "DEPLOY" -> st.dep = {}
    [] t.op = "MINT" -> st.dep # {} /\ st.supply = 0
    [] t.op = "TRANSFER" -> st.dep # {} /\ st.a >= TransferAmount

processTx(st, t) ==
  IF ~ validateCoveOperation(st, t) THEN st
  ELSE LET seen == [st EXCEPT !.valid = @ \cup {t}]
       IN CASE t.op = "DEPLOY" -> [seen EXCEPT !.dep = {t}]
            [] t.op = "MINT" -> [seen EXCEPT !.supply = @ + AmountOf(t),
                                   !.a = IF t.by = "us" THEN @ + AmountOf(t) ELSE @]
            [] t.op = "TRANSFER" -> [seen EXCEPT !.a = @ - TransferAmount,
                                                 !.b = @ + TransferAmount]

indexBlock(st, block) ==
  LET after[i \in 0 .. Len(block)] ==
        IF i = 0 THEN [st EXCEPT !.h = @ + 1] ELSE processTx(after[i - 1], block[i])
  IN after[Len(block)]
Replay(c) ==
  LET upto[h \in 0 .. Len(c)] ==
        IF h = 0 THEN Fresh ELSE indexBlock(upto[h - 1], c[h])
  IN upto[Len(c)]
Root(st) == <<st.dep, st.supply, st.a, st.b>>

HasOutcome(st) ==
  /\ st.dep # {} /\ st.supply >= MintAmount
  /\ st.a = MintAmount - TransferAmount /\ st.b = TransferAmount

decideNextCanaryAction(st) ==
  IF st.dep = {} THEN "DEPLOY"
  ELSE IF st.supply < MintAmount THEN "MINT"
  ELSE IF HasOutcome(st) THEN "DONE" ELSE "TRANSFER"

(* The proofs also refuse to build a step their manifest has recorded, and *)
(* a ticker that another deployment owns.                                  *)
decideNextAction(st) ==
  LET op == decideNextCanaryAction(st)
      dep == manifest["DEPLOY"].recorded
  IN IF st.dep # {} /\ dep # {} /\ dep # st.dep THEN "BLOCKED_UNRESOLVED"
     ELSE IF op # "DONE" /\ manifest[op].recorded # {} THEN "BLOCKED_UNRESOLVED"
     ELSE op

(* What the proofs assert of the state once a step is indexed. *)
StepState(st, op, t) ==
  CASE op = "DEPLOY" -> st.dep = {t} /\ (mode = "signet" => st.supply = 0)
    [] op = "MINT" -> st.supply = MintAmount /\ st.a = MintAmount
    [] op = "TRANSFER" -> HasOutcome(st)

-----------------------------------------------------------------------------
(* The process *)

NoArgs == [confirm |-> FALSE, signed |-> {}, fee |-> 0]
NoStep == [op |-> "none", tx |-> {}]
Idle == /\ pc' = "off" /\ args' = NoArgs /\ live' = Fresh /\ at' = 0
        /\ target' = 0 /\ cur' = NoStep /\ clean' = Fresh
Exit == Idle /\ UNCHANGED <<mode, chain, mempool, disk, history, faults>>

DefaultFee == CHOOSE f \in FeeRates : \A g \in FeeRates : f <= g

(* Crashes, evictions, reorganisations, rival operations and changes of    *)
(* the fee the owner asks for draw on one budget.                          *)
Fault(kind) ==
  /\ faults.lost + faults.reorgs + faults.rivals + faults.fees < MaxFaults
  /\ faults' = [faults EXCEPT ![kind] = @ + 1]

(* The start checks its gates and replays the chain (which does not move   *)
(* while it does: the later, short catch-ups are where it may).            *)
Start(confirm, signed, fee) ==
  /\ pc \in {"off", "complete"}
  /\ mode = "canary" => Len(chain) >= 1 /\ Len(chain) - 1 <= MaxReplay
  /\ pc' = "replay" /\ live' = Replay(chain)
  /\ at' = Len(chain) /\ target' = Len(chain)
  /\ args' = [confirm |-> confirm, signed |-> signed, fee |-> fee]
  /\ cur' = NoStep /\ clean' = Fresh
  /\ IF fee = DefaultFee THEN UNCHANGED faults ELSE Fault("fees")
  /\ UNCHANGED <<mode, chain, mempool, disk, history>>

(* One block more; a height that is gone, or one the indexer does not      *)
(* expect, throws.                                                         *)
IndexNext ==
  /\ pc \in {"catchup", "confirmed", "resolved"} /\ at < target
  /\ IF at < Len(chain) /\ live.h = at
       THEN /\ live' = indexBlock(live, chain[at + 1])
            /\ at' = at + 1
            /\ UNCHANGED <<pc, args, target, cur, clean>>
       ELSE Idle
  /\ UNCHANGED <<mode, chain, mempool, disk, history, faults>>

At(p) == pc = p /\ at >= target
Goto(p, step) ==
  /\ pc' = p /\ cur' = step
  /\ UNCHANGED <<args, live, at, target, clean>>

BeginReplay ==
  /\ pc' = "final" /\ clean' = Fresh /\ cur' = NoStep
  /\ target' = IF Len(chain) > at THEN Len(chain) ELSE at
  /\ stood' = HasOutcome(Replay(chain))
  /\ UNCHANGED <<mode, chain, mempool, disk, args, live, at, posted, unsaved, faults>>

-----------------------------------------------------------------------------
(* The canary's loop *)

Op == decideNextCanaryAction(live)
Deciding == mode = "canary" /\ At("replay") /\ Op # "DONE"
Recorded == Deciding /\ manifest[Op].recorded # {} /\ manifest[Op].done = {}
RecordedIsIn(T) == manifest[Op].recorded \subseteq T

Finalize == mode = "canary" /\ At("replay") /\ Op = "DONE" /\ BeginReplay

ResolveConfirmed ==
  /\ Recorded /\ RecordedIsIn(TxsOf(chain))
  /\ pc' = "resolved" /\ cur' = [op |-> Op, tx |-> manifest[Op].recorded]
  /\ target' = HeightOf(CHOOSE t \in manifest[Op].recorded : TRUE)
  /\ UNCHANGED <<mode, chain, mempool, disk, args, live, at, clean, history, faults>>

(* In the mempool: wait for it; lost, and not asked to broadcast: stop.    *)
ResolvePending ==
  /\ Recorded /\ ~ RecordedIsIn(TxsOf(chain))
  /\ RecordedIsIn(mempool) \/ ~ args.confirm
  /\ Exit

(* Mutant: a lost transaction is waited for all the same.                  *)
ResolveLostStops ==
  /\ Recorded /\ ~ RecordedIsIn(TxsOf(chain) \cup mempool) /\ args.confirm
  /\ Exit

(* Lost: the same signed transaction again, never another.                 *)
ResolveLost ==
  /\ Recorded /\ ~ RecordedIsIn(TxsOf(chain) \cup mempool) /\ args.confirm
  /\ Goto("send", [op |-> Op, tx |-> manifest[Op].recorded])
  /\ UNCHANGED <<mode, chain, mempool, disk, history, faults>>

BuildTx(op, coins, fee) == [op |-> op, ins |-> coins, fee |-> fee, by |-> "us"]

(* Mutant: a step that is recorded is exported and recorded anew.           *)
ExportAgain ==
  /\ Deciding /\ args.signed = {} /\ manifest[Op].done = {}
  /\ LET coins == selectCoins(Confirmed, Required[Op])
         t == BuildTx(Op, coins, args.fee)
     IN IF coins = {} THEN UNCHANGED disk
        ELSE /\ manifest' = [manifest EXCEPT ![Op] = [@ EXCEPT !.expected = {t}, !.recorded = {}]]
             /\ exported' = exported \cup {t}
  /\ Idle
  /\ UNCHANGED <<mode, chain, mempool, history, faults>>

(* Not recorded yet: an unsigned transaction is exported for the owner.    *)
Export ==
  /\ Deciding /\ ~ Recorded /\ args.signed = {}
  /\ LET coins == selectCoins(Confirmed, Required[Op])
         t == BuildTx(Op, coins, args.fee)
     IN IF coins = {} THEN UNCHANGED disk
        ELSE /\ manifest' = [manifest EXCEPT ![Op].expected = {t}]
             /\ exported' = exported \cup {t}
  /\ Idle
  /\ UNCHANGED <<mode, chain, mempool, history, faults>>

broadcastTxidMatches(step, t) ==
  IF step.recorded # {} THEN step.recorded = {t} ELSE step.expected = {t}

(* The signed transaction of the environment is for this step, is valid    *)
(* now, is accepted and is the one exported; it is saved before it is sent.*)
Imported(t) ==
  /\ t.op = Op /\ validateCoveOperation(live, t)
  /\ args.confirm /\ testMempoolAccept(t)
  /\ broadcastTxidMatches(manifest[Op], t)
Import ==
  /\ Deciding /\ ~ Recorded
  /\ \E t \in args.signed :
       IF Imported(t)
         THEN /\ manifest' = [manifest EXCEPT ![Op].recorded = {t}]
              /\ Goto("send", [op |-> Op, tx |-> {t}])
              /\ UNCHANGED exported
         ELSE Idle /\ UNCHANGED disk
  /\ UNCHANGED <<mode, chain, mempool, history, faults>>

-----------------------------------------------------------------------------
(* The proofs' loop *)

Decided == decideNextAction(live)
AtDecision == mode # "canary" /\ At("replay")

ProofBlocked == AtDecision /\ Decided = "BLOCKED_UNRESOLVED" /\ Exit

ProofDone ==
  /\ AtDecision /\ Decided = "DONE"
  /\ IF mode = "mutinynet" THEN BeginReplay
     ELSE /\ Goto("complete", NoStep)
          /\ UNCHANGED <<mode, chain, mempool, disk, history, faults>>

ProofStep ==
  /\ AtDecision /\ Decided \in Ops
  /\ pc' = "catchup" /\ target' = Len(chain) /\ cur' = [op |-> Decided, tx |-> {}]
  /\ UNCHANGED <<mode, chain, mempool, disk, args, live, at, clean, history, faults>>

(* Mutinynet spends unconfirmed coins too, and saves before it sends.      *)
ProofBuild ==
  /\ At("catchup")
  /\ LET coins == selectCoins(IF mode = "signet" THEN Confirmed ELSE Unspent,
                              Required[cur.op])
         t == BuildTx(cur.op, coins, args.fee)
     IN IF coins # {} /\ validateCoveOperation(live, t)
          THEN /\ Goto("send", [cur EXCEPT !.tx = {t}])
               /\ manifest' = IF mode = "signet" THEN manifest
                              ELSE [manifest EXCEPT ![cur.op].recorded = {t}]
          ELSE Idle /\ UNCHANGED manifest
  /\ UNCHANGED <<mode, chain, mempool, exported, history, faults>>

ProofSave ==
  /\ pc = "save"
  /\ manifest' = [manifest EXCEPT ![cur.op].recorded = cur.tx]
  /\ Goto("wait", cur)
  /\ UNCHANGED <<mode, chain, mempool, exported, history, faults>>

-----------------------------------------------------------------------------
(* Sending, waiting and indexing, alike in the three *)

Send ==
  /\ pc = "send"
  /\ IF \A t \in cur.tx : testMempoolAccept(t)
       THEN /\ mempool' = mempool \cup cur.tx
            /\ posted' = posted \cup cur.tx
            /\ Goto(IF mode = "signet" THEN "save" ELSE "wait", cur)
       ELSE Idle /\ UNCHANGED <<mempool, posted>>
  /\ UNCHANGED <<mode, chain, disk, unsaved, stood, faults>>

SeesConfirmed ==
  /\ pc = "wait" /\ cur.tx \subseteq TxsOf(chain)
  /\ pc' = "confirmed"
  /\ target' = HeightOf(CHOOSE t \in cur.tx : TRUE)
  /\ UNCHANGED <<mode, chain, mempool, disk, args, live, at, cur, clean, history, faults>>

TimesOut == pc = "wait" /\ ~ cur.tx \subseteq TxsOf(chain) /\ Exit

RecordStep(here) ==
  /\ manifest' = [manifest EXCEPT ![cur.op].done = cur.tx]
  /\ pc' = "replay" /\ cur' = NoStep
  /\ at' = here /\ target' = here
  /\ UNCHANGED <<args, live, clean>>

(* The step's event must be VALID in what was indexed. *)
Indexed ==
  /\ At("confirmed") \/ At("resolved")
  /\ IF /\ cur.tx \subseteq live.valid
        /\ mode # "canary" => \A t \in cur.tx : StepState(live, cur.op, t)
       THEN RecordStep(IF mode = "canary" /\ pc = "confirmed" THEN target ELSE at)
       ELSE Idle /\ UNCHANGED manifest
  /\ UNCHANGED <<mode, chain, mempool, exported, history, faults>>

ReplayNext ==
  /\ pc = "final" /\ clean.h < target
  /\ IF clean.h < Len(chain)
       THEN clean' = indexBlock(clean, chain[clean.h + 1]) /\ UNCHANGED <<pc, args, live, at, target, cur>>
       ELSE Idle
  /\ UNCHANGED <<mode, chain, mempool, disk, history, faults>>

Finish ==
  /\ pc = "final" /\ clean.h >= target
  /\ IF Root(live) = Root(clean) THEN Goto("complete", NoStep) ELSE Idle
  /\ UNCHANGED <<mode, chain, mempool, disk, history, faults>>

-----------------------------------------------------------------------------
(* The world *)

Stands == stood' = (stood \/ HasOutcome(Replay(chain')))

Mine(t) ==
  /\ t \in mempool /\ Len(chain) < MaxBlocks
  /\ t.ins \subseteq UnspentBy(TxsOf(chain))
  /\ chain' = Append(chain, <<t>>) /\ mempool' = mempool \ {t}
  /\ Stands
  /\ UNCHANGED <<mode, process, disk, posted, unsaved, faults>>

(* Somebody else deploys the ticker, or mints a little of it. *)
MineRival(op) ==
  /\ Len(chain) < MaxBlocks /\ Fault("rivals")
  /\ chain' = Append(chain, <<[op |-> op, ins |-> {}, fee |-> 0, by |-> "rival"]>>)
  /\ Stands
  /\ UNCHANGED <<mode, mempool, process, disk, posted, unsaved>>

Evict(t) ==
  /\ t \in mempool /\ Fault("lost")
  /\ \A u \in mempool : ChangeOf(t) \notin u.ins
  /\ mempool' = mempool \ {t}
  /\ UNCHANGED <<mode, chain, process, disk, history>>

(* The last block is taken back, with another in its place or not yet; its *)
(* transactions return to the mempool.                                     *)
Reorg ==
  /\ Len(chain) > 1 /\ Fault("reorgs")
  /\ chain' \in {Front(chain), Append(Front(chain), <<>>)}
  /\ mempool' = mempool \cup Ours(TxsOf(<<Last(chain)>>))
  /\ Stands
  /\ UNCHANGED <<mode, process, disk, posted, unsaved>>

Crash ==
  /\ pc \notin {"off", "complete"} /\ Fault("lost")
  /\ unsaved' = IF pc = "save" THEN unsaved \cup cur.tx ELSE unsaved
  /\ Idle
  /\ UNCHANGED <<mode, chain, mempool, disk, posted, stood>>

-----------------------------------------------------------------------------
Init ==
  /\ mode \in {"canary", "mutinynet", "signet"}
  /\ chain = << <<>> >> /\ mempool = {}
  /\ manifest = [op \in Ops |-> [expected |-> {}, recorded |-> {}, done |-> {}]]
  /\ exported = {}
  /\ pc = "off" /\ args = NoArgs /\ live = Fresh /\ at = 0 /\ target = 0
  /\ cur = NoStep /\ clean = Fresh
  /\ posted = {} /\ unsaved = {} /\ stood = FALSE
  /\ faults = [lost |-> 0, reorgs |-> 0, rivals |-> 0, fees |-> 0]

(* The owner's next run may carry any signed export, or ask for an export  *)
(* at any fee.                                                             *)
CanaryStarts ==
  /\ mode = "canary"
  /\ \E confirm \in BOOLEAN :
       \/ \E fee \in FeeRates : Start(confirm, {}, fee)
       \/ \E t \in exported : Start(confirm, {t}, DefaultFee)

(* A proof starts with a key, a fixed fee and a confirmed coin. *)
Funded == Confirmed # {}
ProofStarts == mode # "canary" /\ Funded /\ Start(TRUE, {}, DefaultFee)

Runner ==
  \/ IndexNext
  \/ Finalize \/ ResolveConfirmed \/ ResolvePending \/ ResolveLost \/ Export \/ Import
  \/ ProofBlocked \/ ProofDone \/ ProofStep \/ ProofBuild \/ ProofSave
  \/ Send \/ SeesConfirmed \/ TimesOut \/ Indexed \/ ReplayNext \/ Finish

World ==
  \/ \E t \in mempool : Mine(t) \/ Evict(t)
  \/ \E op \in {"DEPLOY", "MINT"} : MineRival(op)
  \/ Reorg \/ Crash

Next == CanaryStarts \/ ProofStarts \/ Runner \/ World
Spec == Init /\ [][Next]_vars

(* The owner who follows what the canary prints: passes --confirm-mainnet  *)
(* and the signed form of an export that is not recorded yet, if any.      *)
Instructed ==
  LET open == {op \in Ops : manifest[op].recorded = {}}
      next == UNION {manifest[op].expected : op \in open}
  IN mode = "canary" /\ Start(TRUE, next, DefaultFee)

(* A running process goes on; a transaction that stays in the mempool is   *)
(* mined; the owner starts the tool again as it asks, again and again.     *)
Fairness ==
  /\ WF_vars(Runner)
  /\ WF_vars(\E t \in mempool : Mine(t))
  /\ SF_vars(Instructed)
FairSpec == Spec /\ Fairness

-----------------------------------------------------------------------------
TypeOK ==
  /\ pc \in {"off", "replay", "catchup", "resolved", "send", "save", "wait",
             "confirmed", "final", "complete"}
  /\ Len(chain) \in 1 .. MaxBlocks
  /\ at \in 0 .. MaxBlocks /\ target \in 0 .. MaxBlocks
  /\ \A op \in Ops : \A t \in manifest[op].expected \cup manifest[op].recorded : t.op = op
  /\ pc \in {"send", "save", "wait", "confirmed", "resolved"} => Cardinality(cur.tx) = 1

(* A step never has two transactions on the network: whatever was handed   *)
(* to it is the one its manifest records, across crashes, evictions,       *)
(* reorganisations and stale inputs — except what the signet proof sent    *)
(* just before it died, which it saves only afterwards.                    *)
SentIsRecorded ==
  \A t \in posted \ unsaved :
    \/ manifest[t.op].recorded = {t}
    \/ mode = "signet" /\ (unsaved # {} \/ (pc = "save" /\ cur.tx = {t}))

(* A step is marked done only for a transaction that the chain holds and   *)
(* whose event is valid there, as long as no block was taken back.         *)
DoneIsValid ==
  faults.reorgs = 0 =>
    \A op \in Ops : manifest[op].done \subseteq Replay(chain).valid

(* A canary or mutinynet run that reports completion compared with a clean *)
(* replay: while it did, the chain itself had the outcome.                 *)
CompleteStood == mode # "signet" /\ pc = "complete" => stood

(* Left to an owner who follows its instructions, the canary completes,    *)
(* whatever crashes and evictions it meets, unless somebody else uses the  *)
(* ticker or a block is taken back.                                        *)
Completes ==
  <>(mode = "canary" => pc = "complete" \/ faults.rivals > 0 \/ faults.reorgs > 0)
=============================================================================
