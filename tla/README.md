# Cove: a TLA+ verification project

Cove issues tokens on Bitcoin. The supply of a token is backed by sats in a vault,
a chain of outputs each of which commits to the token's state. A *Guardian* signs
the transactions that move a vault (mint, redeem) after checking them, an *indexer*
derives every balance from the blocks of Bitcoin Core, an *app service* quotes, builds
and broadcasts transactions for users, a *market* lets users trade token outputs
with two-sided PSBTs, and a *web application* shows all of it and has wallets sign.
Beside this V3 stack the repository holds its two predecessors: a simulated chain with
its own worker (V1) and the first Cove protocol on Bitcoin. This directory models the
parts of the code in which ordering, failure, time and arithmetic matter, checks them
with TLC on small instances and proves the central properties with TLAPS for every
instance.

`PROJECT.json` maps each definition to the lines it models, each property to a
mutated definition that breaks it, each hazard to the properties about it, and
lists runs and theorems. All paths below are relative to `src/`.

## The system

| component | state | operations | interacts with | modelled in |
|---|---|---|---|---|
| wire format (`packages/cove-wire`) | none | encode, decode, token ids | three readers: index, Guardian, browser | `WireFormat` |
| transition rules (`cove-covenant`) | none | apply a transition | called by index, Guardian, app | `CoveRules`, `Pipeline` |
| index (`cove-indexer/src/v3/state.ts`) | backing and token outputs, undo journal, cursor | applyBlock, undoBlock | fed by the worker | `CoveRules`, `CoveLedger` |
| store (`store.ts`, `hydrate.ts`, `packages/db`) | the `cove_v3_*` tables | persistBlock, rollback, hydrateState | written by the worker, read by everyone | `CoveRules`, `CoveLedger` |
| worker and health (`apps/worker/src/v3.ts`, `persistent.ts`, `health.ts`) | memory of the process | tick: detect a reorg, undo, replay, catch up | polls Core, writes the store, then calls both reconciliations | `PersistentIndexer` |
| reindex (`reindex.ts`, `verify.ts`, `cli-run.ts`) | the same tables, a `rebuilding` flag | mark, delete, replay, verify, clear | beside the worker, without a lock | `Reindex` |
| builders, Guardian validation, finalizer (`cove-guardian/src/v3`) | none | build, analyze, validate, finalize | each decides for itself what is valid | `Pipeline` |
| Guardian signing (`transitionSigner.ts`, `cove-app/src/journal.ts`, `audit.ts`) | signing journal, audit history | audit, reserve, sign, release | called by submit, in process or remotely | `GuardianSigning` |
| app sessions (`cove-app/src/service.ts`, `tx-session.ts`) | `cove_v3_app_transactions` | build, submit, broadcast; reconcile | Guardian, Core, index | `AppSessions` |
| funding and fees (`service.ts`, `fees.ts`, `funding.ts`, `bitcoin/src/fees.ts`) | fee rate cache | resolveFundingAndFee | Core, index, ord, Guardian's checker | `Funding` |
| economics (`cove-economics`, `curve`) | none | reserve, quotes, fees, dust, routes | everything that has a price | `Economics` |
| signatures (`bitcoin/src/spend.ts`, `cove-market/src/order`) | the PSBT of a fill | check an input's signature, BIP-322 messages | wallets, market, app | `Signatures` |
| market (`cove-market/src/service.ts`) | listings, fills, trades, cancellations | list, cancel, reserve, build, sign twice, finalize, broadcast; reconcile | handlers race the worker; reads the index and Core | `Market` |
| web pages (`apps/web/src`) | what is on screen | effects, polls, retries; candles, sparklines, header | API routes, indexed block | `Pages`, `Charts` |
| wallets (`WalletProvider.tsx`, `lib/wallets`, `packages/wallets`) | connection, stored choice, flow under way | connect, reconnect, build, review, sign, submit | API, wallet extensions | `WalletSession`, `Pipeline` |
| deployment (`cove-mainnet`, `cove-app/src/config.ts`, `readiness.ts`, `apps/guardian`) | environment, profile, health cache | boot gates, profile watch, remote signing, readiness report | three services and an operator | `Deployment` |
| configuration of the V1 services (`packages/config`) | the loaded configuration | loadConfig, validateConfig, flags | web app, worker, canary | `RuntimeConfig` |
| rehearsals (`mainnet-canary.ts`, `signet-proof.ts`, mutinynet proof) | a manifest on disk | index, decide, export, import, test, send, confirm | a public chain and its owner | `ProofRun` |
| V1 mock stack (`protocol/src/mock`, `apps/worker/src/sync.ts`, `db/src/repo.ts`) | simulated chain, projection | mine, reorg, build, sync, reset, graduate | worker reads the node call by call | `MockChain`, `Projection` |
| first Cove protocol (`protocol/src/cove`, `cove-indexer/src/*.ts`) | `cove_*` tables, checkpoint | build, validate, fold, persist, poll, rebuild | Core | `CoveV1` |

What makes each part correct:

- **index and store**: supply equals live plus burned atoms; every vault holds its
  reserve; nothing Bitcoin has spent is called live; undo is exact; tables and memory agree.
- **worker, reindex**: whatever reorgs, failing calls and crashes do, the index is the
  replay of one chain, it calls itself healthy only on Core's chain, and it catches up.
- **builder to index**: what is built validates, what is signed is applied, no reader
  sees another operation than the others, and the wallet gets what it was told.
- **signing**: no signature without a durable audit record; reservations exclude each other.
- **sessions**: the queue of unconfirmed vault transitions does not fork or outgrow
  Core's policy, and each broadcast is settled as what became of it.
- **prices and funding**: quotes agree with the reserve and with each other, no output
  is dust, the coins chosen pay and hold nothing else, and the fee relays.
- **market**: a trade is what the index saw, a fill is never failed because of its own
  transaction, no reservation lasts for ever, and reconciliation always gets through.
- **web**: a page ends up showing the server's data and never goes back, finished
  candles stand, and what is signed is what was reviewed, by the wallet it was built for.
- **deployment**: what runs on mainnet has safe vaults, services that disagree do not
  act together, and a rehearsal sends each step once.

The behaviours that are hard to test: the active chain changing between two RPC calls
of one tick; a crash between two transactions; a commit whose acknowledgement is
lost; requests that interleave at every `await`; reservations that expire while their
holder is still at work; updates by id of rows read before an await; reconciliation
failing half way; an RPC outage that looks like an eviction; five checks of one
transaction that must agree; prices at stair, dust and floor boundaries; answers that
arrive out of order; services deployed again while they talk to each other. The
`hazards` of `PROJECT.json` list them at their lines.

## Modules

`Maps` has the few operators on finite maps that stand for `Map` and for tables;
`MapTheorems` the lemmas about them that several proofs need.

**`CoveRules`** is one transaction at a time: which transactions are valid DEPLOYs,
MINTs, TRANSFERs and REDEEMs, what they do to the in-memory state (`ApplyTx`), what
they write to the tables (`ApplyForward`), and how both are taken back (`UndoTx`,
`Rollback`). Vault scripts are what they commit to, a token and a supply; the reserve
function `R` is a parameter. Fee, creator and payout outputs are one Boolean, `pays`,
of a transaction.

**`CoveLedger`** runs these rules along a chain that grows and shrinks
(`Connect`, `Disconnect`). One transaction per height: blocks are sequences of such
steps. `before` is a history variable for stating that undo is exact.

**`BlockTree`, `ChainView`, `PersistentIndexer`**: the tree of blocks Core may follow;
the abstract specification of an index, a cursor that moves along the tree one block at
a time; and the worker that implements it. `pc` is where the tick stands between two
calls; `Tick`, `CheckCursor`, `ReorgTip`, `Walk`, `Undo`, `ReplayBlock`, `SyncTip` and
`IndexBlock` are the calls of `tick`, `reorgPersistentToTip` and `persistentWorker`.
`CallFails`, `Crash` and a commit that is not acknowledged may happen at each of them,
and `CoreMoves` changes the active chain. `db` is committed state, `mem` that of the
process. Two histories say where the guarantees end: `lost` counts the commits whose
acknowledgement never came since memory and tables were last equal, and `harm` says whether
this tick was overtaken by a reorganisation (`moved`) and whether something was written
after that, or through a memory that missed a commit (`torn`).

**`GuardianSigning`**: requests that go through validation, `ReadHead`,
`WriteBeforeSign`, `Reserve` or `ReserveHeld` and `Reread`, `Sign` or `SignFails` and
`Release`, with a clock, crashes and failing writes. `leases`, `released` and `sigs` are
histories. The digest of a transaction and its outpoint are parameters, so that several
requests may carry the same or rival transactions.

**`Market`**: listings, fills, trades and cancellations as tables with their unique
indices, every handler as the reads and writes between its awaits (`calls` holds the
requests in flight), `broadcastP2PFill` as `testmempoolaccept`, `sendrawtransaction`
and the marking transaction, and `reconcileMarket` phase by phase and row by row
(`rec`): a phase takes the rows it selected when it began, as the code does. The
environment mines, evicts, spends elsewhere and disconnects, and lookups, ticks and calls
fail, at any moment. The history `raced` has the listings with a fill that a late write went
over: a call that finds the row settled, expired or naming a transaction since it looked, or a
worker that expires what was broadcast since it selected it (`Overwrites`). `Clash` is a reorged listing
whose source is listed again.

**`AppSessions`**: a session is also its transaction, and the vault a transition
creates. `FollowPendingBacking` is the walk along unconfirmed transitions, bounded by
`MaxPending`: its end is the last vault of a path whose every step spends the one before.
What an eviction takes along (`Descendants`) is the smallest set closed under spending.
Builds read the tip, submissions load the vault they were built on, ask
the Guardian (reduced to its view and its journal, with a signer that may throw and then
releases the reservation), test, send and mark in separate steps. Core accepts, refuses or
replaces a rival. The worker indexes and reconciles; what it finds gone (`Reconcile`) it
fails in a second step (`Fail`), as the code awaits Core in between. Reservations lapse.
`freed` remembers the vaults that lost their reservation while a transition signed under it
was live, `spoiled` the sessions that were sent but not marked, that a failing call did not
find, or that were sent between the worker's look and its update.

**`Reindex`** is `reindexDb` in its transactions and the two verifications, with the
worker's ticks as steps of one transaction each, one after the other or side by side
(`beside`), on `BlockTree`'s chains. Either process dies anywhere. Below the activation
height blocks are ignored and the cursor row is missing, which health reads as rebuilding
(`Standing`). `torn` remembers that the chain moved while rows were being replayed; the
deletion of the rows forgets it.

**`Pipeline`** follows one transaction through the four builders (and the market's),
the browser's `verifyClientIntent`, `analyze` and `validate` of the Guardian with its
funding check, `finalize`, the mempool and the index, which is `CoveRules`. Here a
transaction has its inputs, outputs and values; `ForIndex` gives what `CoveRules` knows of it. Users
build on confirmed and pending vaults; `Alter` hands the wallet or the Guardian
something else than what was built; `MineTx` mines in any order Bitcoin allows. `Snapshot`
is what `loadCanonicalViewSnapshotFromDb` hands builder and Guardian of the index.
**`TransactionPath`** states what the parties owe each other over it, for the run and the proof.

**`WireFormat`** has the bytes: encoders, decoder, and the readers of index, Guardian and
browser over whole scripts, and the discovery JSON that may accompany a mint, with its key
order and its comparison with the binary envelope. A behaviour encodes something and then
changes, drops or inserts bytes and outputs. Field widths and the range of a byte are parameters.

**`Signatures`** says what the signature of a wallet must be before it is taken: the kinds of
input, the PSBT fields a wallet is given, `checkSpendSignature`, and the three BIP-322 messages.
A signature is by whom, over what and of which sighash type; wallets return fields in any of the
forms their conventions know. `Build`, `SubmitBuyer`, `SubmitSeller` and `Finalize` pass one
PSBT between server, buyer and seller.

**`Economics`** has the curve in each of its implementations, fees, dust, payouts, quotes
by amount and by budget, per-mint limits and best execution, and a vault whose holders
mint and sell back by them. **`Funding`** is `resolveFundingAndFee` await by await
(resolve, carriers, rates, pick, ord), then the Guardian's funding checker, with the
real sizes of inputs and outputs, while chain, index and mempool floor move; app and Guardian
each have an ord server or none. `stale` has the coins that changed after they were last looked at.

**`Pages`** describes each effect of the pages by a record of how it behaves
(re-runs, guards, retries, polls) and runs one of them against a server whose version
moves, over requests that fail or overtake each other. **`Charts`** holds the two tables
of trades under a worker that adds and takes back blocks, the two queries of the candles
route as two steps, and candles, sparklines and header as functions.
**`WalletSession`** has the connection with what survives a reload, the adapters and the
dev wallets, and the flows of the pages (`tradeFlow`, `launchFlow`, `send`, `list`,
`buyAsk`, `sellerSign`, `cancel`) as sequences of calls.

**`Deployment`** starts web app, worker and Guardian from environments and commits,
with every validation of the profile, and lets them compare profiles, sign within the caps of
the risk policy and be probed by the readiness tool while operators deploy again; Guardian and
tool may read a test-only profile file instead of their commit's. Keys are put in canonical order as the
n-th smallest (`NthSmallest`), which needs no recursion. **`RuntimeConfig`** is `loadConfig`,
`validateConfig` and the flags over the strings each variable may have, with the web app, the
worker and the owner canary that start from them. **`ProofRun`** is the three
runners: a manifest on disk, a process that stops at any step and is started again, an
owner who signs what was exported, rivals, evictions and reorgs.

**`MockChain`** and **`Projection`**: the rules, blocks and `reorg` of the simulated chain;
and the worker's job against it, each read of the node and each write of the database a
step. **`CoveV1`**: rules, builders, index, tables and worker of the first protocol;
a block is written as the chain that ends in it.

**`UserSigning`** puts the two ends of the user's signature side by side, the flows of the
browser (`WalletSession`) and what the server takes (`Signatures`); **`Rehearsal`** does the same
for `ProofRun` and the configuration its record opens (`RuntimeConfig`). They hold the assumptions on
the constants of both. **`SafeFunding`** says what the coins of a `Funding` build may hold.

The MC modules fix the instances. `AppSessions` needs none. `MCTrade`, `MCPipeline` and
`MCDeployment` hold components without common state: a behaviour belongs to one of them
(`part`), so the state space is their sum.

## Runs

| run | instance | shows |
|---|---|---|
| `ledger` | two tokens, cap of two lots, chains of five transactions out of about a hundred honest, clumsy or malformed ones | supply conserved, reserves full, no ghost balances, undo exact, tables and memory in lockstep |
| `worker` | a tree of three branches, heights up to 4, activation at 2, three moves of the chain at any moment of a tick, two faults (crashes, failing calls, lost acknowledgements) | clean replay, healthy means canonical, only orphans undone, implements `ChainView`, all until the index is torn; memory and tables in lockstep, and after lost acknowledgements apart at no more heights than these; catches up |
| `reindex` | three branches, heights up to 4, activation at 2, two moves of the chain, two starts of the command, two crashes | `ReplayIsTrusted`: what was verified is the replay, nothing looks healthy that is not, a projection being rebuilt stays hidden, and a worker fails for good only after a half reset |
| `signing` | three requests for one vault, two of them the same transaction, all in flight, clock up to 2, TTL 1, signers that throw | nothing signed without a record, reservations exclude each other, audit records are anchored and fork only where requests raced |
| `signing_rivals` | the same, but no reservation lapses | `AtMostOneSuccessor` is violated: after a signer threw, two rival transactions are signed (see Findings) |
| `market` | two listings of one source, one reservation, a call in flight at any moment of a reconciliation, one move of the chain, one fault (a failing lookup or tick, a dying call) | `Settled`: trades and filled listings are what the index saw; own transactions are known and never fail their fill, all but where a late write went over a fill; `Progress`: reservations end, reconciliation gets through, unless a reorged listing clashes with a newer one; fills are recorded even then |
| `sessions` | three sessions, two submissions at a time, a pending chain of one, one upset (a lapse, a throwing signer, an eviction, a reorg, a failing lookup, a death) | `PendingChain`: a fork only on a vault that lost a live reservation, within the policy, and nothing given up is on the network but for sessions a fault or a race left behind; `Settles`: broadcasts settle, other mined sessions are confirmed |
| `pipeline` | two users, a curve of three lots, empty, half sold and sold out; two transactions out of every one the builders make, honest or (mints and redemptions) altered in one place; envelopes with one-byte fields, two alterations | `Agreement`: what is signed is applied as that operation and burns nothing; `PartiesAgree`: builds validate, what is signed is final, the queue drains, the wallet accepts honest builds and gets what it was told; `WireCanonical`: one operation per encoding, one encoding per operation, the readers agree |
| `trade` | a curve of four stairs, three trades; four coins, six requests, two fee markets, ord servers or none, one move; fourteen views, two subjects, one failure; four wallets, one reload; one fill, every kind of script and form of witness; three trades on two blocks, four instants | `Priced`, `Funded`, `PagesRight`, `SignsAsAsked` as listed above under prices and funding and web (the fewest coins, the fee and a real shortfall in `Priced`, what the coins hold in `Funded`) |
| `v1` | tokens of two units, two demo tokens of which one can be minted, three histories, one with mints waiting, one transaction, two blocks, one reorg, one crash | `ChainSound`: replay agrees but for what happened on demo tokens, sats conserved; `ProjectionRight`: a job that was not overtaken leaves what a clean reindex would, only final sales graduate |
| `cove_v1` | two users, one ticker, two histories, one transaction, two blocks, one reorg, one crash | `LedgerFollows`: rows, checkpoint and memory are the replay of persisted blocks, payments and balances add up, builders and rules agree, the worker ends on Core's chain |
| `deployment` | ten commits (three complete, each of the others with one mistake), thirteen app and thirteen Guardian environments, trades beyond each cap, a test-only copy of the approved profile, three deployments; three runners, five blocks, one fault | `ServicesSafe`: safe vaults, one profile per signed transition; `RehearsalSafe`: no step sent twice, done means valid; `Outcomes`: a mismatch stops the process, ready means approved, the canary completes |

*Why the bounds are enough.* In the ledger, five transactions allow deploy, two mints, a transfer
or sweep and a redemption, in every order and with every prefix undone and replaced by another;
the amounts reach the cap and zero. In the worker, the tree forks below the activation height and
above it, at heights 1 and 3, so a reorg can be shallow, deep, to the same height and to a shorter
chain, and three of them may come before, in and between ticks with two crashes or lost
acknowledgements; the theorems below remove the bounds altogether. In `reindex` a second start
follows a crash or overlaps a worker, the payment that is mined at different heights of two
branches tells a torn replay from a clean one, and one below the activation height must stay out.
In signing, a retry and a rival are the two ways in which a second request can relate to a first.
In the market, two listings of one source are what a clash needs: the second is made after the
first was filled or cancelled, and the one move is the reorg that brings the first back, an
eviction or a spend elsewhere; one call in flight at any point of a reconciliation is enough for
every late write. A second reservation of a listing, overlapping calls and a fill built twice are
left to the theorems, which bound none of them. In sessions, three transitions with `MaxPending =
1` are one more than the policy allows. In `pipeline` two transactions are a pending transition
and the one built on it (their ids are interchangeable, which the run uses as symmetry), and the
values of coins and prices are such that change is sometimes an output and sometimes absorbed; a
shortened byte keeps every boundary of the format (largest value, largest push, ticker length,
number of allocations, the digit and letter ranges). In `trade` the curve's constants put fee
floors and dust limits on both sides of the smallest trades, and a bucket of two instants lets
trades fall in one bucket, in neighbours and around a gap. In `v1` and `cove_v1` the histories
begin where a token is new, sold out or listed, so that one more transaction and one reorg reach
every status. In `deployment` three deployments are one for each service or three of one.

*Fairness.* The worker's loop never ends and its process is restarted
(`WF_vars(Work)`, `WF_vars(Worker)`, `WF` of `Index`, `Reconcile` and `Fail`, of the V1
worker's steps); a request that is not cut off returns, as every RPC call has a time limit
(`packages/bitcoin/src/provider.ts`); reservations run out because time passes; miners
mine what stays in the mempool. In `Pages`, browser timers fire and a request is
answered or fails. In `Deployment` the watch repeats its call until it is answered; in
`ProofRun` the owner signs what is exported and starts the canary again, blocks arrive, and
only finitely many faults happen. No fairness is assumed of users otherwise, of Core's
acceptance, or of faults.

*Deadlock* is not checked where the model stops because its bounds on requests, time or
sessions are used up.

## Findings

Where code and a comment, a document or another part of the code disagree, the
properties above are stated as the code keeps them, with the case in which it does not as an
exception that names it (a history variable, mostly), and the disagreement is described here. To
reproduce one, remove the exception from the named definition and run its component (overlapping
calls in the market need `MaxCalls = 2`, a second build `MaxBuilds = 2`).

*Index and worker*

- `persistentWorker` reads block hashes height by height and never compares a block's
  parent with the block below: a reorg between two reads leaves blocks of both branches
  in an index that the next tick and `computeHealth` call healthy, as they look at the
  cursor only (`harm` in `HealthyIsCanonical` and `CleanReplay`).
- A commit that took effect but whose acknowledgement was lost leaves the tables one
  block ahead of memory, against the lockstep comment of `persistent.ts:9`
  (`lost` in `Lockstep`); `DriftBounded` bounds the damage. A worker that goes on in that state may
  write through the memory that missed the commit, which also tears the index.
- `reindex.ts:15-16` says that a failed rebuild stays hidden; a worker running beside it
  clears the flag. A half reset followed by a reorg leaves the worker failing at every
  tick until another reindex. `quickVerify` (`verify.ts:52-57`) derives vaults without
  the recovery profile.
- `parser.ts:13-16` calls INVALID a transaction that "has the Cove magic but is malformed";
  any data output 0 that is not one direct push is recorded so.

*Guardian and sessions*

- The journal gives an outpoint away after 30 minutes whether or not its holder signed,
  so "signed at most once" (`journal.ts:7`, `AtMostOneSuccessor`) holds only within the time to live.
  Within it a request whose signer throws releases the row under which a retry of the same
  digest has signed, and a rival is signed: the run `signing_rivals`.
- The head of the audit history is read and extended in two statements, so it forks where two
  requests race (`AuditAnchored` allows exactly this).
- After a reservation has lapsed or was released so (`freed`), a rival may replace a waiting
  transition, and two `BROADCAST` sessions spend one vault until the next reconciliation, although
  `tx-session.ts:101` says that the chain cannot fork.
- A remote Guardian looks at the confirmed vault and refuses a transition on the pending
  tip, so the queue described at `service.ts:388` exists only with the local signer
  (`Remote = TRUE`); it is also not told flat and creator fees or the discovery ticker.
- A session whose process dies after `sendrawtransaction` stays `BUILT`: resubmitting it
  is refused by `testmempoolaccept`. `CONFIRMED` sessions are not revisited after a reorg.
- The worker fails a session that one lookup did not find; a second submission that sends and
  marks it between the lookup and the update is overwritten, and a `FAILED` session is in the
  mempool and mined (`spoiled` in `FailedIsGone` and `MinedIsConfirmed`).
- A failing `getRawTransaction` invalidates a listing and fails a broadcast fill or
  session although the transaction is in the mempool (`faults'` in `OwnNeverFails`,
  `spoiled` in `FailedIsGone`).

*Market*

- `submitSellerSignedPsbt` hands the seller what the buyer returned verbatim and only looks
  for the buyer's signature, which was checked when the buyer submitted; one that was replaced
  on the way fails only when the finished transaction meets the mempool (`PartiesSigned`).
- Handlers write a fill by id after their awaits, whatever became of it meanwhile (`raced` in
  `Settled`, `OwnIsKnown` and `OwnNeverFails`). Two overlapping finalize calls of a fill that was
  built twice may rename the transaction after it was sent: its own spend is then a stranger to
  reconciliation. A second finalize call in flight while the first one's block is disconnected marks
  the fill `BROADCAST` again and its trade stays canonical. The last phase of a reconciliation
  expires a fill that was marked `BROADCAST` since it was selected: mined, it is never recorded.
- Cancelling a `BROADCAST` listing succeeds, its fill fills it all the same, and a reorg
  then restores it to `ACTIVE` (`CancelledForGood`).
- After a reorg the source can be listed again while the first listing is `FILLED` or
  `REORGED`; restoring that one violates the unique index at every tick, and as an exception ends the
  phase, nothing after it is done any more (`<>[]Clash` in `Progress`).
- A tick that fails between phases (B) and (C) of `reconcileMarket` leaves a reorged fill and its
  listing `REORGED` for ever if the transaction is mined again before the next one
  (`faults > 0` in `ReorgsResolved` and `FillsRecorded`).
- A seller who cancels between these phases does the same: the fill is mined again and its trade
  never becomes canonical (`cancellations` in `FillsRecorded`).

*Prices, funding, bytes*

- `curve/src/constants.ts:30-32` says 33 sats a lot, 6,930 and 73,111,500; with
  `LOT_BASE = LOT_STEP = 27` the code gives 27, 5,670 and 59,818,500. The comments at
  `prices.ts:24-25` and `redeemPayout.ts:13` are of the same age.
- `loadFeeRates` promises rates "clamped into [floor, ceiling]", which fails when the
  node's floor exceeds 500. `quoteBuyForSats` states a minimum spend that ignores the per-mint
  limits; `getBuyRoutes` quotes the vault for amounts that are no whole lots; the miner fee
  cap is checked before dust change is absorbed into the fee.
- `cove-app/src/fees.ts:16` gives every envelope the size of a 10-letter ticker's; a launch
  with a longer one at the floor rate under-pays by up to 6 vbytes (`Uncounted` of `Funding`).
- An opt-in discovery envelope is checked against 80 bytes but written with a one-byte
  length, which from 76 on is another opcode: such a mint is refused by the Guardian. The
  Guardian allows a discovery output on REDEEM, the finalizer does not.
- `computeTokenId` hashes ticker and nonce without the ticker's length; ids are distinct
  only because creators' scripts have standard forms (`OneToken` checks exactly this).
- The browser reads the first output with the magic, index and Guardian output 0 only.

*Web*

- Candles: "two viewers … see identical candles" (`ohlc.ts:66-68`) fails for open and close
  of trades that share a time, as the order of rows of one height is not said; a fill confirmed
  again moves to the time of that. The header "can never disagree with the chart"
  (`market/route.ts:20`) but counts fills only, and its market cap uses a supply of 1,000,000,000
  where the supply is 21,000,000. Sparklines are not cut at `MAX_TRADES`, the chart is.
- Answers of the wallet page, portfolio, balances, lists, open asks and mint quote are applied whenever
  they come, for an earlier wallet or budget too, without a retry before the next block.
- `page.tsx:812-816` says a redemption is bound to the quoted state; only buys are. The
  `QUOTE_STALE` message says the quote was refreshed; it is not. `sellerSign` skips the check when
  the server sends no digest. `TxStatus` says "Nothing was spent" of what is merely not in this
  node's mempool.
- `adapters.ts:85-89`: "every wallet is asked for the same thing", but Oyl gets neither input
  indexes nor a sighash type. The check declines a transfer to oneself or of everything one has. A
  dev wallet switched in the middle of a flow leaves its inputs unsigned. Two clicks build two
  sessions, as the idempotency key holds the time.

*Deployment and rehearsals*

- The profile watch compares once at start: a Guardian deployed later is not noticed, though
  `transition-signer.ts:74-81` says a mismatch stops the process. READY requires neither custody
  nor release manifest, and compares hashes and keys but no networks: a Guardian on another
  network with a test-only copy of the approved profile passes (`testPath` in `ReadyIsApproved`).
  The report is no snapshot: its probes may be of different deployments, and what it says of the
  web app may be over when the Guardian is asked. `canWriteMainnet` looks at flags and stage, not
  at the network. Canary allowlists compare a lower-cased request with profile values as written
  (`apps/guardian/src/service.ts:285-290`).
- `proof-manifest.ts` says a re-run "resumes instead of re-broadcasting"; `signet-proof.ts` sends
  before it saves, so a process that dies between builds a second transaction (`SentIsRecorded`
  excepts exactly this). The canary prints an empty txid for a step that confirmed between two
  runs, and after a reorg that drops a done step exports a PSBT it cannot import; a rival mint
  makes its own stale for ever.

*V1 and first protocol*

- A mock block's hash depends on height and parent only, so a reorg mined again to the same
  height is not noticed, although `apps/worker/src/index.ts:36-37` says "incremental-after-reorg ===
  clean-reindex". A rebuild writes `SOLD_OUT` while the graduation is back in the mempool, and the row
  stays so; a crash between marking and sending a graduation does the same. Expired listings keep
  their lock, and a replay opens them again.
- `rebuildDerivedState` (`mock/chain.ts:557-581`) starts without the demo tokens of `seed.ts:12-17`: a
  reorg, however shallow, refuses every mint and trade on them, with what was bought, though their
  events stay canonical (`OnDemo` in `ReplayAgrees`); after it a demo ticker can be deployed by a
  user, and a restart of the node seeds the demo token beside it (`ChainInvariants`).
- A reorg while the first protocol's worker is down makes every restart fail at the checkpoint,
  though the worker is called restart-safe (`RestartSafe` excepts it with `lost`).

## Proofs

TLAPS checks the modules `*_proofs`. Assumptions are those named in the component
modules; TLC evaluates them in every run.

**`CoveLedger_proofs`** (`IInv`). Conservation and exact undo depend on each other, and
neither is inductive: to disconnect is to return to a state that was good long ago. The
invariant therefore says of *every* state the journal leads back through (`before`) that
it is `Good`: well typed, conserved, in lockstep, free of ghosts and backed, with rows
that belong to transactions of the chain and to deployed tokens. `UndoLink` says that each
journal entry leads exactly from one to the one before. `Connect` needs a lemma for what an
operation looks like (`OpOfShape`), one for each conjunct of `Good`
(`StepConserves`, `StepLockstep`, `StepTypes`, `StepOwned`), and exactness of undo
in memory and in the tables (`StepUndoState`, `StepUndoDb`). `Disconnect` then
only walks back. Sums of atoms are cardinalities (`Units`), so that a finite union is a sum
(`AtomsUnion`). Results: `Inductive`, `TypeCorrect`, `SupplyConserved`,
`InLockstep`, `NoGhosts`, `FullyReserved`, `UndoIsExact`, for any tokens,
transactions, amounts, reserve function and length of chain.

The same module proves `PathIsAgreed` of `Pipeline` (`PathInv`): what the Guardian signed or the app
finalized, the indexer applies. The difficulty is the time between: a transition is validated on a
view followed along pending vaults and applied on the index of the moment it is mined. A
transition in the mempool therefore has to fit (`Fits`) *some* vault that is confirmed or will be made
by another one there (`Tips`), whatever the walk of `followPendingBacking` met; the one mined
next has its inputs confirmed, so its vault is the confirmed one (`Ripe`), and then `applyTx` can only
apply it (`MintOp`, `RedeemOp`, `TransferOp`, `DeployOp`). What others spend is untouched, as no two
inputs collide and outputs of a fresh id are new (`TokensKept`, `TipKept`). A signed request has
the same as long as nothing it spends is spent; an unsigned one only needs to be well formed
(`Loose`), which every altered PSBT is (`VariantLoose`). `PipelineAssumption` says that ids are
fresh, that coins are no carriers and come from earlier transactions, and that an index to start from
keeps vaults, coins and carriers apart.

**`PersistentIndexer_proofs`** (`IndexInv`). Type correctness holds under every fault, and
lockstep until an acknowledgement is lost and again once memory and tables are equal. `IndexInv`
says that memory and tables are the clean replay of the chains of their cursors until the index is
torn, and `Position` what each point of a tick that no reorganisation has overtaken knows about
the block the memory stands on: how far the search for the common ancestor has come and what it
has excluded, that undo stops at a shared block, and that replaying starts right above it. New
blocks on top, lost acknowledgements and crashes at any moment are no exception; a reorganisation
is one only from the first write after it. Results: `TypeCorrect`, `InLockstep`, `IndexHolds`,
`CleanUntilTorn`, `HealthCanBeTrusted`, `OrphansOnly`, and the refinement `Implements` of
`ChainView`, for any tree of blocks and with no hypothesis. That a torn index is not clean is the
first finding.

**`GuardianSigning_proofs`** (`LeaseInv`, `AnchorInv`). While no reservation of an outpoint
has been released, its row is its latest lease and every earlier lease had ended when the next
began; a request that is about to sign holds a lease of its own outpoint and digest. Audit
records form a tree because the head a request has read is the zero hash or a record
written before, and a request between reading and writing has none of its own. Two records
chain from one only if the later request had read the head before the other wrote.
Results: `TypeCorrect`, `LeaseInvariant`, `Exclusive`, `DurableAuditFirst`, `AuditIsAnchored`,
for any number of requests and any time to live.

The same module has `FundingIsSafe`, of `SafeFunding` (`FundInv`). While nothing has moved since a
build began, what it resolved is still unspent, what it found confirmed still is, and the coins it
was offered are no carriers once it has looked (`Seen`); a pick is a subset of the coins it may use
(`PickIs`), a coin is clean only when ord named nothing on it, and a build reaches the Guardian only
for a vault operation, whose usable coins are the confirmed ones. The Guardian's verdict on a coin of
the pick is then the app's own, but for assets the Guardian alone can ask ord about. If something
moved, `StaleInv` says that a coin about which the last look is wrong changed after that look. No
constant is assumed anything of.

`PersistentIndexer_proofs` also has `DriftIsBounded`, with no restriction on faults: `DriftInv`
says that the heights at which memory and tables differ are finitely many and no more than the
acknowledgements lost since memory and tables were equal: a lost acknowledgement adds at most the
height it was about, every other commit or undo adds none, and a restart leaves none.

**`AppSessions_proofs`** (`ForkInv`, `GoneInv`, `RankInv`). A live transition, past the Guardian,
holds the reservation of the vault it spends unless the vault was freed under it (`ForkInv`), so two
never spend another one. What the worker is about to fail Core does not know, or it is spoiled
(`GoneInv`). The bound on the queue is about a path and would need induction along it; `RankInv` says
instead that *some* numbering of the vaults exists in which a spend is one higher than what it
spends, the confirmed tip is `top`, and no transition Core knows lies more than `MaxPending + 1` above
it. A new transition extends the numbering, a block moves `top`, an eviction removes from it; the
pending ones are then an injection into an interval. Results: `TypeCorrect`,
`PendingChainHolds`.

The same module has the theorems of `UserSigning`. In `WalletSession` the connection is the
stored choice or none, a silent reconnection that may still connect is of the wallet chosen last
(the effect that started another is dead), and a flow remembers from step to step which
wallet it was built for, which inputs it has and which quote was reviewed. In
`Signatures` every signature in a PSBT is one somebody made, what was made by a party covers the whole
transaction of the stage, and letters differ because their listings have different ids. Results:
`WalletSessionSafe`, `SignaturesBound`, `UserSignsAsAsked`. `WalletAssumption` says that a wallet
has a name, an adapter and at least one address and that nobody holds the vault's script;
`ListingAssumption` that a listing is known by its id, which is a hash of all its fields in the code.

**`Market_proofs`**. `TypeInv` types rows, calls and the phase under way. `OwnInv`: whatever
spends a source in the name of a fill is named by the fill's row, and so is what a call is about
to send, unless the listing was raced (`NamedOrRaced`). `SettlementIsOnChain` needs three parts, each
of which leaves raced listings out: a fill that may still settle is the last of its
listing (`LineInv`); what still holds of a row when its turn comes, as calls may have changed it
since the phase selected it (`PhaseInv`, `FillTurn`, `ListingTurn`); and a confirmed
fill is confirmed by the index or still to be looked at in this tick (`SettleInv`). `SpentInv`,
that what is spent on the chain is not spent in the mempool, gives `OwnSpendNeverFails`. With
`MarketTypes` and `OwnTransactionsKnown` these are four theorems without a hypothesis: nothing
bounds listings, fills, builds, calls in flight or faults, and calls overlap each other and the
reconciliation.

**`Reindex_proofs`**. If the worker is stopped for the command, `AloneInv` says that the two
exclude each other, that each has in memory what is in the tables, and that the rebuilding flag is
up until the command is done. Rows that were not torn are the replay of one chain, up to the
cursor unless the command died between its first two transactions (`RowsInv`); `UndoInv` and
`SyncInv` follow a tick of the worker back and forth along the chain, `FailedInv` says what a tick
that threw met, and `ReplayInv` that the command's replay stands on Core's chain until that moves.
`VerifyInv`, which holds beside a worker too, says what `fullVerify` has compared so far. Result:
`RebuildsAreTrusted`, for any tree of blocks with the payments anywhere in it, any activation
height and any number of moves, starts and crashes.

**`Deployment_proofs`** (`DeployInv`). A process that is up has passed its boot gates with the
environment it has (`ProcOK`); a health answer is on its way only to a process that is up and
watching (`HealthOK`); an answered session holds what a Guardian of the session's own profile gave
to its own transition (`SessOK`), and what was sent was accepted and signed under one profile
(`SentAgreed`). The vaults are safe because every validation of the profile is one of the gates.
Results: `DeploymentIsSafe`, and `ReadinessIsHonest`, in which a Guardian that took its profile
from a test-only file is the one exception. `ConfigInv` says of the V1 services only that each
started with what `loadConfig` makes of some environment and `validateConfig` accepted, which is
enough for `ConfigGateAgrees`. The rehearsals (`RunInv`, `RehearsalRunSafe`) need more: the
process holds one transaction at a time, which the manifest records before it is sent, except
signet's (`StepInv`); and without a reorganisation the index of the process is the replay of the
chain up to the height it has read (`IndexInv`), so what it finds valid stays valid. That the
replay of a longer chain extends that of a shorter one is not an induction over the chain but a
fact about the least height at which it would fail (`Heights`). `RehearsalIsSafe` joins the two;
`RehearsalAssumption` says that a parsed number is an integer and that there is an activation
block. `ProfileAssumption` says what shape a well-formed profile file has and that it names at
most one Guardian key, `EnvAssumption` that a deployed commit has a profile file.

**`MapTheorems`**: types of updated maps, and least and greatest elements of sets of naturals. The
latter is how these proofs replace induction over data: a counterexample of least height
(`LeastNat`) is a first-order fact, where the library's induction theorems are not usable.

Only model-checked:

- that the index of the worker catches up, and liveness in general (`EventuallySynced`,
  `Progress`, `Settles`, `PagesRight`, `LedgerFollows`, `Outcomes`), which needs fairness;
- `Priced` and `WireCanonical`, whose definitions fold over stairs, sums of coins and bytes;
- `PartiesAgree`, which compares sums of coins and outputs, and whose queue drains only because the
  walk along pending vaults ends;
- `ChainSound` and `ProjectionRight`, which compare with a replay of the whole chain by a fold;
- `CompleteStood`, part of `Outcomes`: that a complete rehearsal had its outcome on the chain while it
  compared, through reorganisations during the comparison.

Proofs also made the model more exact: in `WalletSession`, `Signatures` and `RuntimeConfig`,
chains of early returns had been written as CASE with guards that overlap, of which TLA+ may
choose any; they are now IF ... ELSE IF in the order of the code. In `Pipeline` the funding check
of the Guardian had left out what `chainFundingChecker` asks of Core (without it a coin may be an
output of a vault transition still in the mempool), the final check of a launch its envelope, the
builders the largest change an envelope can say, and `SelectCarriers` one of several orders of
equal carriers.

## Abstractions

Bytes are modelled in `WireFormat` alone, with fields of one byte; elsewhere an envelope is its
fields. Amounts are lots or whole tokens in small numbers; sizes, dust limits and fee floors are
the real ones. Hashes are what they are computed from, a vault script is what it commits to, a
signature is that it was made. In `CoveLedger` fee and payout outputs are one Boolean (`pays`);
`Pipeline` computes it from the outputs. Its coins are confirmed from the start; `Funding` has
those that are not. React's render, commit and cleanup are one step with the state change that
causes them, and one flow runs at a time, as the pages' `busy` flag has it. A scanned block of
`CoveV1` is fetched, folded and persisted in one step; `ProofRun` replays its chain at start in
one step and leaves out its caps on iterations and cumulative fees.

## Not modelled

Cryptography (elliptic curves, hashes, Taproot and Simplicity scripts, the recovery leaf), HTTP
transport, authentication headers and rate limits, rendering and styling, the V1 Redis lock and
address codec, the risk policy's counters, metrics, and the linear drivers of the packages above
on regtest and test networks (`v3-lifecycle.ts`, `regtest-proof.ts`, `v3-mutinynet-proof.ts`). The
two V3 workers without a database (`worker.ts`, `reorg.ts`) are used by tools only. API routes
other than those in `Charts` translate a request into one call.

## Plan

The system's stateful parts are modelled and the safety properties of every V3 component with
state of its own are proved. What is left:

1. Lemmas on `Economics` (monotone reserve, no round trip at a profit) that need no induction
   over data.
2. `Projection`: that each step of a job keeps the projection a replay, with the fold as a parameter.
