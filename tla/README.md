# StreamFi: a TLA+ verification project

StreamFi (`src/`) is a payment-streaming protocol on Soroban: a sender escrows
tokens in a *stream* contract, they accrue to a recipient by the second, and the
recipient withdraws them. Around the stream contract there are a factory, a
governor, a vault, an oracle, a batch processor, and an off-chain indexer that
projects contract events into Postgres.

This directory models the parts whose correctness depends on *orders of events*:
which call comes before which, when the clock moves between them, what crashes in
between. Every definition is translated from the source; `PROJECT.json` maps each
to its lines, lists the runs, their mutants, the hazards and the theorems.

## Inventory

| Part | State | Operations | Interacts with | What makes it hard | What must hold |
|---|---|---|---|---|---|
| **DripStream** `contracts/stream/src/lib.rs`, `state.rs`, `storage.rs`, `events.rs` | one `Config` record (schedule, rate, withdrawn, flags, event sequence) and a dozen optional keys; the escrow at a token contract | initialize, withdraw, cancel, force_cancel, pause, resume, change_rate, extend_duration, top_up, top_up_and_extend, clawback, set_cliff, splits, operator, forwarding, transfer_recipient, interval, cancelability, emergency pause | the factory deploys and cancels it; anybody can send tokens to it | long legal call sequences that move the origin of accrual; time passing between calls; funding less than accrual; i128/u64 edges | no token lost or paid twice; never more paid than accrued; nobody takes earned value; settlement is final; a pause ends |
| **Accrual** `stream/src/math.rs` | none | `streamed_amount`, `withdrawable` | called by every operation above | pause, cliff and checkpoint branches | agrees with counting seconds |
| **Keeper pool** `stream/src/lib.rs:1020-1200` | pool record, last ping | configure, fund, withdraw, ping | a second token contract | donations share the account | recorded balance is backed |
| **DripFactory** `contracts/factory/src` | stream count, registry, aggregate counters, lock, cancelled marks | create (single, batch), cancel (batch), record_cancel, pause, upgrade | deploys streams, reads the governor's config, pulls and forwards tokens | several contracts in one transaction, counters that must follow calls made elsewhere | active count = live streams; the deposit arrives or nothing happens |
| **Factory index** `factory/src/index.rs` | pages of stream ids per party, migration cursor | append, migrate, page reads, TTL rotation | factory | migration interleaved with appends | no id lost or listed twice |
| **DripGovernor** `contracts/governor/src` | config, roles, pending authority, proposals, votes, stakes | two-step transfer, propose, vote, execute, cancel | factory reads its config | two transfer flows share one slot; stakes outlive proposals | one authority; stakes come back |
| **Access control** `common/src/rbac.rs` | role assignments with expiry, admin count | grant, renew, revoke, has_role | governor, oracle | expiry against the last-admin guard | there is always an admin |
| **Emergency pause** `common/src/pause.rs` | pause record or a legacy flag | set_paused, is_paused | every contract | state written by a call that is then rolled back | a pause expires |
| **Storage TTL** `common/src/ttl.rs`, `*/ttl.rs` | live-until ledgers | bump, bucket walker | every contract | seconds against ledgers | a live stream is never archived |
| **TokenVault** `contracts/token-vault/src` | balances, limits, operator, snapshot, pending migration | deposit, withdraw, batches, owner transfer, emergency migration | token contracts | snapshot staleness, timelock | holdings cover balances |
| **TwapOracle** `contracts/oracle/src` | last price, submissions with their list, bounded observations, configuration and limits, feed addresses, reports of pairs, roles, pause record | submit, purge, configure, limits and feeds, reads that record a feed's answer, pair reports, roles, halt | price feeders and reporters, other oracle contracts; the roles and the pause of `common` | three records of one price, roles that expire by the clock, changes of scale, feed times ahead of or behind the ledger, staleness | the records stay in step; no price outlives its scale; the average is one; answers come from accounts in office |
| **Indexer worker** `indexer/src/{worker,poller,handlers,retry,db}.ts`, `db/schema.sql` | advisory lock, cursor, raw log, derived tables | boot, poll, fetch with retries, ingest transaction, shutdown | chain events, Postgres | two workers, crashes, re-delivery, page boundaries | no event skipped or counted twice; it never stalls |
| **Indexer scaffold poller** `indexer/src/indexer/*` | in-memory cursor, page token | tick, fold, save | same | cursor moves on after failed folds | same |
| batch processor, frontend, scripts, health and metrics | | | | | not modelled, see below |

A Soroban call is atomic: an error rolls back everything it did. So in the contract
models an operation is one action, its guard the conjunction of its checks, and a
rejected call is a stutter. What interleaves is calls of different parties, direct
token transfers and the ledger clock. The indexer has no such atomicity: there each
step between two awaits is an action, and only the database transaction is atomic.

## Modules

| Module | Models |
|---|---|
| `StreamMath` | `math.rs`: effective time, the linear part, checkpoint and cliff, checked i128 arithmetic (`Representable`), shares in basis points |
| `DripStream` (extends `StreamMath`) | one stream contract with its escrow, the clock and direct transfers |
| `StreamKeeper` (extends `DripStream`) | the keeper pool composed with the stream whose parties control it |
| `EarnedEscrow` | what a stream promises about the money, without times and rates; `DripStream` implements it |
| `DripStreamProofs` | TLAPS proofs about `DripStream`, its refinement of `EarnedEscrow`, and `StreamKeeper` |
| `Indexer` | workers, advisory lock, poll loop, ingest transaction and fold handlers against a growing chain |
| `IndexerProofs` | TLAPS proofs about `Indexer` |
| `FactoryIndex` | `factory/src/index.rs`: the entries of one party's index and the operations on them |
| `FactoryIndexProofs` | TLAPS proofs that a paged index represents a list of ids |
| `EmergencyPause` | `common/src/pause.rs`: the stored pause entry in its three forms |
| `DripFactory` (extends `FactoryIndex`, `EmergencyPause`) | the factory over abstract streams: creation, cancellation routes, counters, halt, walker |
| `DripFactoryProofs` | TLAPS proofs about `DripFactory` |
| `TokenVault` (extends `EmergencyPause`) | the vault: balances and limits, operator, change of owner, halt, migration |
| `TokenVaultProofs` | TLAPS proofs about `TokenVault` |
| `AccessControl` | `common/src/rbac.rs`: role assignments, the count of Admins and the index of members |
| `DripGovernor` (extends `AccessControl`, `EmergencyPause`) | the governor: roles and their transfer, the parameters, proposals with stakes |
| `DripGovernorProofs` | TLAPS proofs about `DripGovernor` |
| `TwapOracle` (extends `AccessControl`, `EmergencyPause`) | the oracle: submissions, observations, configuration and feeds, pair reports |
| `TwapOracleProofs` | TLAPS proofs about `TwapOracle` |
| `FoldLemmas` | facts about sums over finite sets, and the two induction rules, that the proofs share |
| `MCDripStream`, `MCStreamKeeper`, `MCIndexer`, `MCDripFactory`, `MCTokenVault`, `MCDripGovernor`, `MCTwapOracle` | instances for TLC |

**DripStream.** `info` is the `Config` entry with its flag bits as Booleans, every
other variable an optional storage key, `None` where absent. `escrow` is the token
balance; `funded`, `refunded`, `credit` and `forwardBy` are history, read by
properties only. There is one action per entry point, with the name of the entry point; `Tick`
closes a ledger and `DirectTransfer` is a token transfer nobody asked for. `Save`
models `events::next_sequence`, which re-reads and rewrites `Config` after the call
has saved it. `require_auth` is the caller parameter. The re-entrancy guard is 0
between calls and therefore no state. Left out: metadata strings, TTL bumps, views.
The stream may pay its own address: `ToItself` is the part of a payout that comes back, and it counts as received
again, so `escrow` stays while `withdrawn` advances. The stream cannot sign (`Signs`), so as a recipient it calls nothing.
`initialize` is `Init`, with the balance already at the address as an input, because the
factory initialises before it forwards the deposit (factory `lib.rs:338-351`) while
other deployments fund first.

**StreamKeeper.** The pool is a figure in storage; `rewardHeld` are the tokens behind it,
`donated` those that arrived without `fund_keeper_reward_pool`. The figure is a signed integer, as in the code.

**DripFactory.** Each storage key is a variable (`streamCount`, `aggregate`, `salts`, `known`,
`recorded`, `lastBumped`, `pauseEntry`), the two indices are functions from parties to the
records of `FactoryIndex`. `streams` holds what the factory can learn of a stream: its parties, its
operator, whether it is cancelable and cancelled, and what it was funded with. Stream `i` has
address `i`, because the salt is a hash of the id; negative addresses are stream contracts of
somebody else, which `cancel_batch_streams` accepts too. A creation of any kind is `CreateAll` over
its requests: a batch is one transaction, so it is either all of its streams or none. What arrives is verified by the code
(`lib.rs:287`, `lib.rs:348`); that the transfer of the surcharge (`lib.rs:295-297`), which is not, moves exactly what was asked is assumed of the
token. The surcharge goes to the governed fee recipient, assumed not to be the factory. `Init` covers a fresh factory
and one upgraded from an older build, which left unpaged lists, perhaps a plain pause flag, and
no `SaltUsed`, `IsKnownStream` or `CancelledStream` entries; such a build is assumed to have kept
`Aggregate`. `donated`, `haltedAt` and `age` are history. `ReadPause` is the view that writes: it
stores the converted or expired entry. `GovernorChanges` is the governor as the factory sees it,
an answer or none.

**TokenVault.** Each storage key is a variable, those with a token or an account in the key a
function; `pending` joins the three keys of an owner proposal. There is one action per call;
`SetOperator` is both `set_operator` and `revoke_operator`. A call only the owner may make has no
caller parameter. Time and ledger number are one counter, `now`. A token either moves exactly what
was asked or the call fails, which is what the balance comparison after every transfer enforces;
`deposit_with_failure_report` alone commits when its transfer is refused. `Gift` is a transfer the
vault does not make, `ReadPause` whatever only reads the pause, which may rewrite it, and
`vault_batch_withdraw`, whose tokens are those of streams. A migration's destination is another
address than the vault's own. `gifted`, `sideloaded`, `disturbed`, `claim`, `haltedAt`,
`pendingSince` and `notice` are history.

**DripGovernor.** `book` is what `rbac.rs` stores: the assignments, `admin_count`, and for every
role how often an account is in the index of members. `config` is what `config::load` returns, `pending` the
two keys of a proposed handover, which `propose_authority` and `propose_admin` share. There is one
action per call; `grant_role` and `revoke_role` are batches of one. A proposal carries its stake, the
token of the stake, the votes cast and the archived votes. `cast_vote` calls `cast_ballot`, which the repository
does not contain: it is modelled from the statements left at `lib.rs:1059-1072`, which count abstentions among the votes, and marked
external. A stake is taken to arrive in full, which `propose` does not verify (`lib.rs:838-842`), and nobody sends tokens to the governor
outside a proposal: `ProposalBooksExact` is about the calls of the contract with a token that moves what it is asked to. The zero address may be proposed (`propose_admin` accepts it) but cannot sign, so it never
accepts; that an Admin grants a role to it outright is left out.

**EarnedEscrow.** Tokens held, a meter of what is due, what was paid and returned, and whether the escrow is
open. The meter runs while it is open; tokens may arrive at any time; a payment takes from what is due and held, a
return leaves exactly that behind, and the settlement splits everything and closes. Where the escrow pays itself (`loops`) a part of what it
pays may come back, which is the only way anything can be left after the settlement. `Promise` in `DripStream`
maps it: the meter is `withdrawable` until the stream is cancelled, then 0. How fast the meter runs is not part
of the promise; `AccruesBySecond` and `ClaimNeverShrinks` are about that, for streams without a cliff.

**TwapOracle.** Each storage key is a variable; the keys of a pair, by address or by symbol, are one record in
`pairs`. There is one action per call that changes an entry. Reads are operators (`LocalRead`, `load_price_status`,
`aggregate_pair_price`), except that `get_twap_price` is an action where a feed answers, because it records the answer.
A reply is what the other contracts answer within one call: an average, a price with its time, or nothing usable; the
second and third attempt of the failover (lines 835 and 853) are part of the same reply. The
lists of submitters and reporters are sets: their order decides only which of several submissions of one second
counts as the latest, so any of these is allowed. `scale`, in every stored price, is history: the decimals and the
peg in force when it was stored. `left` only bounds the calls.

**Indexer.** `chain` is what contracts emitted, in order (events are known by their positions on it), `head` the last closed ledger (events of
the open ledger are invisible), `db` the committed tables. A worker goes
`down → loop → fetch → ingest → loop`: `Boot` takes the lock, `ReadCursor` reads the cursor
outside the transaction, `Fetch`/`FetchFails`/`FetchAborted` are `retryWithBackoff`,
`Commit`/`Rollback` the transaction, whose page is folded handler by handler; a refused
statement (`broken`) makes the rest of the transaction fail. `Signal`/`Shutdown` are the
graceful stop, `Crash` the ungraceful one. `SessionLost` ends the lock's session on the
server; until `LockErrorExit` the worker runs without knowing. The event source is a
placeholder in the code, and an event of a type that has no handler, which only enters the raw log (`handlers.ts:326-330`), is not among
the events of the model; the source is modelled from `FetchEventsFn` as "the first `limit`
events from that ledger on". `ingestPage` folds a page with a recursive function over its positions. The table layout is `db/schema.sql`, the one whose columns
and keys the handlers use. Two transactions that overlap in the database are modelled
one after the other: they insert the same raw keys first, and a unique key makes the
second wait for the first.

## What the runs check

Bounds are named constants in the guards (`MaxTime`, `MaxEvents`, `MaxFunded`, `MaxHeld`,
`MaxLedger`, `MaxPerLedger`, `MaxFaults`, `MaxSessionLoss`, `MaxCalls`, `MaxCredit`, `MaxProposals`, `MaxVotes`, `Budgets`); durations such as the minimum
stream length or the pause limit are scaled to 2-6 seconds, and `MaxI128` to a value large
enough for the amounts of a run. The horizon of a stream, 3 to 7 seconds, lets one start, be paused
past its limits, be resumed, end and be extended after its end. Five or so events allow
two configuration changes, a pause with its resume and a settlement in one behaviour.

Passing runs:

| Run | Question |
|---|---|
| `stream_funds` | Do amounts stay right through every order of withdraw, pause, resume, change_rate, extension, top-up, clawback, cancel, force_cancel and gifts? Does the stream implement the abstract escrow? Does every pause end? (`Accounting`, `ScheduleOK`, `NeverOverpaid`, `ClaimNeverShrinks`, `AccruesBySecond`, `KeepsPromise`, `PauseEnds`) |
| `stream_parties` | Do splits, forwarding, operators and recipient changes send every token to who is entitled, also when the stream pays itself, and do events number every change but those of the two silent keys? Is the recorded keeper pool backed by tokens? (`PayoutsReachPayees`, `ForwardOfRecipient`, `SequenceTracksTerms`, `PoolMatchesHoldings`) |
| `indexer_pages` | With two events per ledger, two workers and a lost session: is what gets lost always the end of a ledger a page was cut in? Where no page can be cut, is the first event of a stream in a ledger counted once and every other never, also when a page is folded again? While no session is lost, is there one writer, and do the last-writer tables show the latest event? (`OnlyTailsLost`, `AmountsAgree`, `LockKeepsOrder`) |
| `indexer_live` | Through failed fetches, crashes and restarts: is every closed ledger indexed in the end, but behind a page that can never be folded, and nothing lost? (`CatchesUp`, `OnlyTailsLost`) |
| `factory_index` | Do migration calls and appends in any order, from lists of 0 to two and a half pages, keep every listing complete and in order, and do both renewal walks reach every registry entry and every page, but a last one still open to appends behind a gap? (`ListingsComplete`, `PagesRefreshed`, `WalkerCovers`) |
| `factory_counts` | Do the counters follow batch cancels, direct cancels, reports and foreign streams; does the deposit arrive whole; does the halt hold? (`FactoryTypeOK`, `ActiveBounds`, `LiveStreamsCounted`, `EscrowComplete`, `NoCreationWhileHalted`) |
| `vault` | Do limits, snapshots, accounts, the change of owner, the timelock and the halt hold through every order of six calls? (`ExposureBounded`, `SnapshotCurrent`, `OperatorTakesOwn`, `PendingFromOwner`, `MigrationAnnounced`, `HaltFreezes`) |
| `governor` | Do roles, expiries, batches and handovers keep the derived figures exact and an Admin in office; do the parameters stay consistent; is every stake refunded at most once and every proposal listed once? (`RoleBookExact`, `AlwaysAnAdmin`, `ConfigConsistent`, `ProposalBooksExact`) |
| `oracle` | Do the records of a price stay in step through revocations, expiries, purges, changes of scale and recorded feed answers; does the status predict the read; is the average one of seconds; do pair prices come from reporters in office; does the halt keep prices out? (`OracleBooksExact`, `OneScale`, `StatusPredictsRead`, `TwapAveragesSeconds`, `PairAnswersBacked`, `HaltFreezesPrices`) |

In the contract and indexer runs deadlock is not checked: at the horizon of the clock or
of the chain the model stops, and a cancelled stream really may stop.

Runs that find what a comment or a document says to be false of the code (details and
quotations under `findings`):

| Run | What happens |
|---|---|
| `stream_cliff_pause` | after a resume, a stream whose cliff had passed before the pause, and been recorded by a withdrawal, is paid for the paused seconds: the cliff is not shifted |
| `stream_reprice` | change_rate before a pending cliff drops what an older checkpoint had accrued |
| `indexer_page_cut` | a page that ends inside a ledger loses the rest of the ledger |

Divergences seen while modelling that no run shows. In the stream: `top_up_and_extend` and `extend_duration` move the end
without checking rate × duration again (`lib.rs:953`), so a bounded stream can pass i128 and then never
settles, against the comment at `lib.rs:212`; a stream can become its own recipient, forwarding address or
secondary recipient (`lib.rs:1439`, `lib.rs:1470`, `lib.rs:1598` compare with the zero address and the parties only), and what it then pays itself stays in the contract
after the settlement, against `lib.rs:1437`, "a zero or self-address would strand the stream's remaining balance"; `set_stream_config` and
`set_auto_forward_address` emit nothing (`lib.rs:1960`, `lib.rs:1463`), against `CONTRIBUTING.md:173`, "Emit events for every state-changing
operation" (`SequenceTracksTerms` names the two keys); with donated reward tokens at the address `withdraw_keeper_reward_pool` takes the
recorded pool below zero (`lib.rs:1139`, a signed `checked_sub`; `PoolMatchesHoldings` bounds it by the donations); `withdraw` emits the completion
milestone whenever it empties the escrow, also while the stream runs (`lib.rs:419` against
`events.rs:353`); `emergency_pause` stores a flag that no operation reads (`lib.rs:538`); with a
force-cancel threshold above 30 days there is a time when neither resume (`lib.rs:643`) nor
force_cancel (`lib.rs:1339`) succeeds, although the comment at `lib.rs:640` says both use one
threshold (`PauseEnds` is checked with such a stretch: the pause ends once `force_cancel` opens); the operator entry outlives cancel and still
opens that pool (`lib.rs:1122` against `docs/architecture.md:184`). In the factory: `cancel_batch_streams` lowers `active_streams` for streams it
never deployed (`lib.rs:666` against `storage.rs:161`; `LiveStreamsCounted` states the exact
allowance); streams of an older build have no `IsKnownStream`, so `record_cancel` ignores them
(`lib.rs:723`) and they stay counted; with a plain `false` flag in storage `pause` aborts
(`common/src/pause.rs:131` against `pause.rs:3`, "Every contract in the protocol can be halted"); a plain
`true` flag has no clock until a call that reads it commits, and a rejected creation does not; the
recipient's listing is not told of `transfer_recipient`; after the first append to an unpaged list one populated page can lie beyond those the
renewal goes around (`index.rs:179`), although `index.rs:219` says "Refresh every populated page on ANY read" (`PagesRefreshed` says which one: it is open to appends,
which renew it). In the vault: `deposit_token` of the default token
looks at the token's own limit only, and an operator may raise that (`lib.rs:493`, "it caps total
exposure"; `ExposureBounded` carries the allowance `sideloaded`); `withdraw`, `withdraw_batch` and a
migration debit no account, so the accounts can add up to more than is held (`storage.rs:36`, "balance of a
specific token held for a specific account"), `batch_deposit` credits none, and `deposit` skips a credit that
would overflow; `deposit_with_fee` moves no fee (`lib.rs:302`); while paused the operator, the owner, token
approvals and a migration can still be changed (`lib.rs:712`, "freeze all state-mutating operations");
the operator, its cap and a pending migration outlast a change of owner; a migration moves the
default token only. In the indexer: a worker that lost the session of its lock folds an old pause over a newer
resume (`handlers.ts:117` against `handlers.ts:4`, which calls the projections idempotent;
`LockKeepsOrder` holds while no session is lost); a withdrawal as the first event of
a stream violates a foreign key on every retry (`handlers.ts:42`) and the loop never gets past its page, against
`poller.ts:186` (`CatchesUp` names the exception as `Unfoldable` and confines it to that page); of the
events of a stream in one ledger only the first is added up (`handlers.ts:63`), so the counter is not "derived from the sum of
stream_withdrawals" (`handlers.ts:38`; `AmountsAgree` says what it is), and a clawed back
stream is shown as cancelled although it goes on (`handlers.ts:192`). Elsewhere: `math.rs:35` says the effective time is the
later of `paused_at` and `end_time`, the code takes the earlier; `docs/architecture.md:184`
says `transfer_recipient` is the sender's, the code asks the recipient; the factory's
`TokenStreamCount` is read (`lib.rs:873`) and never written. In the governor: `cast_ballot` is missing and
`lib.rs:1059-1072` holds statements outside any function; the stake of a cancelled proposal never comes back,
though `lib.rs:763` calls it refundable; execution asks for a quorum and not for a majority, while
`lib.rs:925` speaks of a proposal that has passed, and archives no votes (`storage.rs:39`, "archived when a
proposal reaches a terminal state"); `cancel_proposal` compares the caller with the author and asks for no
signature (`lib.rs:989`); `proposals_by_status` returns ids in the order of their transitions and
not "in creation order" (`storage.rs:224`); a handover proposed by a former Admin can still be accepted; a
Boolean role entry aborts the read at `rbac.rs:102` before the fallback for it at `rbac.rs:112`. In the oracle (`lib.rs`):
with a feed set, a stale status does not mean that `get_twap_price` fails, against line 2171, and the read needs no
quorum, against line 199 (`StatusPredictsRead` is about an oracle without feeds); a feed's answer that is older than
the last observation makes the read fail with `StalePriceFeed`, though a quorum of submissions is fresh (line 1974); an answer
with a time ahead of the ledger is recorded, and until the ledger reaches it every submission fails for the same
reason; readers record also while the oracle is halted; the observations a revoked feeder's prices went into stay, while
line 448 says that revoked feeders do not go on influencing the result; prices submitted before the first configuration keep counting under it; the
15 minutes of line 1223 are the default only, an asset's heartbeat and the global staleness come first; an inverted price is 0 when the
other direction is above the square of the precision. A move of more than half of the last price, or a `max_price` lowered below half of
it, shuts every submission out (line 676): the ways out are steps of at most half each, a purge of the feeders or a change of scale.

### Bounds of the indexer

`indexer_pages` has two ledgers of up to two events and a limit of 3: a page then holds a ledger and a half, which is a cut one if the second ledger
has two events, or one or two whole ledgers. Two workers and one lost session let a page be folded again, by another worker, after a newer one; transactions
are refused there by a withdrawal that opens a stream. `indexer_live` has the faults, two of them, with three ledgers and a limit of 2, so that a page that cannot be folded
may begin with a ledger that could be. Workers
are interchangeable, so the safety runs use symmetry; the liveness runs do not.

### Bounds of the stream

`stream_funds` runs for five seconds. resume closes two seconds after the pause and force_cancel opens after three, so there is a second in
which neither succeeds; transfer_recipient and forwarding choose the stream's own address there. In
`stream_parties` the payees are another account, the stream itself, of which splits choose too, and the zero address, which the calls reject; a withdrawal of 3 split in half leaves a remainder of 1.

### Bounds of the factory

A page of 2 ids makes lists of 1, 3, 4 and 5 entries end inside, at and behind a page boundary; seven
streams allow two appends behind the longest list and a third page behind a migrated one, and a
walker window of 2 goes around up to seven entries. In `factory_counts` two streams of the factory
and one foreign stream suffice for a foreign cancel to take the count of a live stream, and for the
saturation at zero; three seconds cover a halt, its expiry and a second halt. The requests include an
underfunded one and one to the sender itself.

### Bounds of the vault

Six calls are the least for an operator to draw twice on one credit (operator, cap, credit, a second
balance, two draws), the longest of the failures the properties are about. Two ledgers make a snapshot of
this and of an earlier one, an expired and a live proposal, a migration before and after its timelock,
and a halt during and after its period: all three periods are one second. Two tokens separate
the default token from another, two addresses the owner from an operator and from the next owner. For
all the properties the proofs below remove the bounds.

### Bounds of the governor

Six calls are a stake configuration, a proposal, a grant of the Executor role, a vote, an
execution and one call between any two of them; they also hold a handover with a revocation and a
grant in between. Two accounts are enough to lose the last Admin by a batch or by two handovers in a
row. Two seconds make a role expire and let a proposal be early, in time and late. With `MaxI128 = 5`
the rates and durations of the run reach both sides of the overflow check.

### Bounds of the oracle

The clock runs for four seconds with a staleness of one or two, so a submission, a report and a role can be fresh, stale and expired in
one behaviour. The calls are bounded by kind and in three mixes: two administrative calls with three submissions and a read; two
administrative calls with one pair report, which covers a reporter revoked and granted again; and one administrative call with three pair
reports. Three submissions overflow the list of two observations and, with a grant in between, the two places for submitters. Feeds answer with
an average, a price of a clock one second ahead, an old price, or nothing, and one of them is an account that also
submits. Prices of 4 and 6 are within a half of each other and 8 is a feed's, so the deviation check has both outcomes; the quorum is 1, 2
or one that cannot be met. A pair holds two reporters of three accounts.

### Fairness

`stream_funds`: ledgers keep closing (`WF(Tick)`), and a recipient who wants the money keeps
calling `withdraw` and `force_cancel`. Nothing is assumed of the sender. A stream that is its own recipient has nobody
to call for it, so `PauseEnds` does not speak of one.

`indexer_live`: a supervisor eventually starts some worker when no one holds the lock, and a
running worker takes its next step, which is what `startPollLoop` does by catching every
error and sleeping for a bounded time. Faults are finite (`MaxFaults`), they need not occur,
and no fairness forces an upstream failure to end other than that bound. `LockErrorExit` is not
fair: a half-open connection may never report its loss.

## What is proved

`DripStreamProofs` proves, for every value of the constants that satisfies `WidthAssumption`,
`NoneAssumption` and `StreamAssumption`, and `KeeperAssumption` for the last four (all lengths natural numbers, the inputs of the right kind, the force-cancel
threshold positive):

| Theorem | States |
|---|---|
| `TypeCorrect` | `Spec => []TypeOK` |
| `AccountingHolds` | `Spec => []Accounting` |
| `ScheduleHolds` | `Spec => []ScheduleOK` |
| `NeverOverpaidHolds` | `Spec => []NeverOverpaid` |
| `AccrualHolds` | `Spec => AccruesBySecond` |
| `ClaimHolds` | `Spec => ClaimNeverShrinks` |
| `StreamKeepsPromise` | `Spec => KeepsPromise`, that is `Spec => Promise!EscrowSpec` |
| `PoolMatches` | `KeeperSpec => []PoolMatchesHoldings` |
| `PayoutsReach` | `KeeperSpec => []PayoutsReachPayees` |
| `ForwardHolds` | `KeeperSpec => []ForwardOfRecipient` |
| `SequenceHolds` | `KeeperSpec => SequenceTracksTerms` |

`StreamKeepsPromise` is the refinement of `EarnedEscrow`: initial states map to initial states (`PromiseInit`), and every step to a step
of the escrow or to a stutter (`PromiseStep`): the clock and a change of terms to `Meter`, a top-up or a gift to `Receive`, a withdrawal to
`Pay`, a clawback to `Return`, both cancellations to `Settle`. A top-up that also extends must not lower the meter, which
is the monotonicity of accrual in the end time (`AccruedMonotone`, `ExtensionKeepsStreamed`).

The theorems about `Spec` rest on `Invariance == Spec => []IInv`, with

    IInv == TypeOK /\ ScheduleOK /\ Accounting /\ CheckpointOK /\ NeverOverpaid

None of the parts is inductive alone. `TypeOK` needs `ScheduleOK`, because resume adds
`now - paused_at` to unsigned times. `NeverOverpaid` needs `CheckpointOK` (a checkpoint lies
between the start and the present, and not after a pause that is under way): resume and
change_rate move the origin of `streamed_amount`, and the amount is unchanged by the move only
if the checkpoint is where the code assumes it. `Accounting` needs the bounds of a split's share.
The lemmas follow that shape: monotonicity of rate × time, bounds of a share in basis points,
`streamed_amount` under the passing of a second and under each operation that moves an origin,
then one step per action for every part.

The theorems about `KeeperSpec`, the stream composed with its pool, rest on `KeeperInv`: the types, `ScheduleOK`, `PoolBooks` and the
properties themselves. `PoolMatchesHoldings` is not inductive, because the pool may be reconfigured to a reward token whose
balance so far came from donations alone; `PoolBooks` speaks of every reward token, used or not. `PayoutsReachPayees` is a sum over all
addresses: a payout changes one or two terms of it, and these may be the same address (`SumUpdate`, `PayoutCredited`).
`SequenceTracksTerms` is about every key: it says that no step without a new number changes any of them, except one of the two the code changes
silently, and of the forwarding address that the present recipient chose it or that it is gone.

`DripFactoryProofs` proves, for every batch size, every set of foreign streams, every history and
every length of a halt (`ForeignAssumption`, `HistoryAssumption`, `RequestAssumption`,
`FactoryAssumption`, `PauseAssumption`):

| Theorem | States |
|---|---|
| `ActiveBoundsHold` | `Spec => []ActiveBounds` |
| `LiveCountedHolds` | `Spec => []LiveStreamsCounted` |
| `HaltHolds` | `Spec => NoCreationWhileHalted` |
| `WalkerHolds` | `Spec => []WalkerCovers` |
| `EscrowHolds` | `Spec => []EscrowComplete` |
| `ListingsHold` | `Spec => []ListingsComplete` |
| `RefreshHolds` | `Spec => []PagesRefreshed` |
| `FactoryTypesHold` | `Spec => []FactoryTypeOK` |

The first two rest on `CountInv == RegistryOK /\ RecordedCancelled /\ ActiveBounds`. `ActiveBounds`
alone is not inductive: that a new stream's address carries no mark needs marks to lie on streams that
exist, and the live streams are the unmarked ones only because marks lie on cancelled streams. The step
of a batch is a count of finite sets (`UnionCount`, `MarkStep`): a mark on a stream of the factory is
also one of the marks counted down, and the saturation at zero is harmless because the upper bound
is never below zero. `HaltHolds` rests on `HaltInv`: a halt under way is in the entry, and the
entry's clock did not start before the halt.

`WalkerHolds` rests on `WalkInv`, a bound of the age of every registry entry by its distance behind the cursor on the ring; that
distance is what grows when streams are created between two rounds. `EscrowHolds` takes the tokens a batch pulls and forwards apart with `SumIter` and
`SumExtend`. `ListingsHold` and `RefreshHolds` rest on `IndexInv`: the index of every party *represents* the list of its streams in the
order of creation. `FactoryIndexProofs` defines `Represents`, for every page size: an unpaged list, or full pages of an old list up to a point
of its migration, with the remainder still in the old list, and pages of later appends behind. It shows that an append represents the longer
list, that any call of the migration represents the same one, that a query answers as the list would (`AppendStep`, `MigrateStep`, `ReadsAsList`), and which pages the renewal
reaches (`RefreshReaches`). `FactoryTypesHold` follows from these invariants together and `EntryInv`, for the pause entry and the salts.

`TokenVaultProofs` proves every property of the `vault` run, for all sets of addresses, tokens and
inputs and all periods (`VaultAddrAssumption`, `VaultTokenAssumption`, `VaultNumberAssumption`,
`VaultInputAssumption`, `VaultNoneAssumption`, `PauseAssumption`):

| Theorem | States | Inductive invariant |
|---|---|---|
| `VaultTypeInvariance` | `Spec => []VaultTypeOK` | itself |
| `PendingHolds` | `Spec => []PendingFromOwner` | itself with the types |
| `NoticeHolds` | `Spec => []MigrationAnnounced` | `NoticeInv`: a pending migration is executable no earlier than the timelock after its destination was set |
| `OperatorClaimHolds` | `Spec => []OperatorTakesOwn` | `ClaimInv`: an account never shows more than its address may still claim |
| `ExposureHolds`, `SnapshotHolds` | `Spec => []ExposureBounded`, `Spec => []SnapshotCurrent` | `FundsInv`, with no snapshot of a later ledger |
| `VaultHaltHolds` | `Spec => HaltFreezes` | `HaltInv`: a halt under way is in the entry, with the time it began |

`SnapshotCurrent` is not inductive by itself: when the ledger closes, a snapshot becomes past, and it
must not come to bear the new ledger's number.

`DripGovernorProofs` proves, for all finite sets of accounts, all batches, expiries and parameters
(`AccountsAssumption`, `RolesAssumption`, `AssignmentAssumption`, the `Governor...Assumption`s and
`InitialConfigAssumption`):

| Theorem | States | Inductive invariant |
|---|---|---|
| `RoleBookHolds`, `AdminHolds` | `Spec => []RoleBookExact`, `Spec => []AlwaysAnAdmin` | `RolesInv` |
| `ConfigHolds` | `Spec => []ConfigConsistent` | `ConfigInv`, with the types of the parameters |
| `ProposalBooksHold` | `Spec => []ProposalBooksExact` | `GovernorInv` |

`RolesInv` joins the two: the guard of the last Admin counts assignments, so the count must be exact
for the guard to be right, and no Admin assignment may carry an expiry, or the one left over could be
one that no longer works. The step of a batch is again a count of finite sets.
`GovernorInv` adds `BooksInv` and the types of the other entries: the balance of a token is the sum of the stakes
not yet refunded in it, so a refund removes exactly one term, and a stake is in a token the configuration allowed when the proposal was made,
whatever the configuration says at the refund. The list of a status names each proposal once; taking an id out of it is
a fold over the list, which `RemovedChain` follows position by position.

`TwapOracleProofs` proves, for all finite sets of accounts, all feeds and answers, inputs, limits and bounds (the
`Oracle...Assumption`s, `AccountsAssumption`):

| Theorem | States | Inductive invariant |
|---|---|---|
| `OracleBooksHold`, `OneScaleHolds` | `Spec => []OracleBooksExact`, `Spec => []OneScale` | `PricesInv` |
| `OracleHaltHolds` | `Spec => HaltFreezesPrices` | `PricesInv`, for the types |
| `PairsHold` | `Spec => []PairAnswersBacked` | `PairsInv`: a pair that was reported on keeps a reporter, within the bound |
| `StatusHolds` | `Spec => []StatusPredictsRead` | `QuotesInv`: every stored price is above zero |
| `TwapHolds` | `Spec => []TwapAveragesSeconds` | `PricesInv` and `QuotesInv` |

`PricesInv` joins the two and adds that no submission bears a later time than the ledger's: the price `submit_price` stores is a latest one only
for that reason. `OneScale` needs the list to be exact, because a change of scale clears the submissions it finds there. `RecordedOrdered` shows that
replacing or appending an observation, with the first of a full list dropped, keeps order and bound whenever the code records one.

`PairsHold` needs no count of ranks: the middle of a sorted list of reports, or the mean of its two middle ones, lies between two of the
reports. `StatusHolds` needs that a weighted mean of prices above zero is above zero after the division. `TwapHolds` compares the code's sum over
observations with a sum over seconds: the seconds an observation is in force are an interval, these intervals are disjoint
because the observations are ordered, and a sum over their union is the sum of the sums (`SumByGroup`).

`IndexerProofs` proves, for all sets of workers, streams and ballots, all amounts, page sizes, numbers of attempts and bounds (`LimitAssumption`,
`AttemptsAssumption`, `AmountsAssumption`, `NoOneAssumption`, `BoundAssumption`), with any number of crashes, failures and lost sessions:

| Theorem | States |
|---|---|
| `IndexerTypesHold` | `Spec => []IndexerTypeOK` |
| `LockSeparates` | `Spec => [](sessionLosses = 0 => SingleWriter /\ InSync)` |
| `TailsHold` | `Spec => []OnlyTailsLost` |
| `AmountsHold` | `Spec => []AmountsAgree` |
| `LockOrderHolds` | `Spec => []LockKeepsOrder` |

None of them restricts how many events a ledger or a stream in it has. Where the code does not keep its promise the properties say so as a statement about the chain:
`PageCanBeCut` holds when the limit can end a page inside a ledger, `indexer_page_cut` shows the loss, and `TailsHold` says that it is the only one
and what it spares. The watermark of the accumulators is a ledger number, so of the events of a stream in a ledger exactly the first is counted
(`handlers.ts:63`), and `AmountsAgree` says just that. Once a page can be cut, one always can, because the chain only grows (`CutStays`); until then every
page that is fetched ends with the last event of a ledger (`FetchWhole`, `UncutWhole`), and the books can be followed.

The argument has four parts. `IxInv` is the shape of things: ledgers ascend on the chain, the page in a worker's hands is a
segment of it that begins right after the ledger the worker has read (`Pages`), nothing a worker has read is ahead of the committed cursor, and no
transaction that failed was committed. `IngestEffect` says, handler by handler, what one event does to its row (`RowEffect`), and `PageEffect`
what a page does, by induction over its positions. `SyncInv` is the lock: the cursor that was read outside the transaction is still the committed
one at the commit, while no session is lost. `BookInv` is the meaning of the tables: there is a prefix of the chain, the events up to the
cursor, such that the raw log holds exactly its keys, the accumulators are the sums over the first events of each ledger, and, while no session is lost, the flags and votes are its
latest ones. A page that repeats part of the prefix leaves sums as they are because of the watermark (`AmountStep`); flags and votes have no
such guard, and there the order comes from `SyncInv` (`LatestStep`). `WholePages` makes the prefix grow by whole ledgers.

### Induction over data

The library's induction theorems take an operator as a parameter, which the provers cannot instantiate. `FoldLemmas` states the two rules the proofs need
with a *set* in place of the operator: `SubsetInduction` over the subsets of a finite set and `RangeInduction` over an interval, both from the well-foundedness
of strict inclusion. Sums (`SumOf`) are then taken apart one element at a time. A fold over a sequence, or a recursive function,
is proved about through the chain of its intermediate results: that a chain exists, that its last member is the fold, and that every link keeps the
property (`AppendChainExists`, `UpdateChainExists`, `PageChainExists`). No module with a theorem declares a RECURSIVE operator.

### Only model-checked

Every safety invariant and action property of the passing runs is stated by a theorem. `PauseEnds` and
`CatchesUp` stay with TLC: liveness under fairness and ENABLED are beyond the prover. So do the runs that expect a violation, whose
counterexamples are single behaviours.

## Not modelled

The stream's metadata strings, TTL bumps and views; upgrade and migration of contract code;
the batch processor (one atomic call over the caller's tokens; but for the Admin entry nothing outlives it, so no order of calls
matters); the frontend, scripts, health and metrics endpoints (no protocol state); the factory's `upgrade_self`,
descriptions, fee estimates and remaining views; the pause cooldown, which no contract uses.
Of the vault: code upgrades, the lifetimes of its entries with the list of tracked keys, and the streams'
side of `vault_batch_withdraw`. Of the governor: code upgrades, the calls that pass a halt on to the factory, vote
checkpoints and receipts, the voting period, which no call reads or sets. Of the oracle: code upgrades, the quote currency,
the re-entrancy lock, and the reads that only compute from one entry. The longest legal pause of a stream (30 days) is longer than one extension of
its entries (`stream/src/ttl.rs:15`, 200,000 ledgers); the expiry of entries by ledger number is not modelled. Nor is the scaffold poller,
whose in-memory cursor moves on although a fold of its page failed (`indexer/src/indexer/poller.ts:195`): it has no writer behind it yet.

## Plan

Done so far: the stream with its accrual, its keeper pool and the escrow it implements, the indexer worker, the factory with its
index and the shared pause, the vault, the governor with the shared roles, and the oracle, which composes both shared parts. Next, the most
important first:

1. The paged index as a specification of its own that implements an abstract list of ids per party: `Represents` is the
   relation, the refinement itself is not stated yet.
2. An abstract specification of the indexer (tables that are a fold of a prefix of the chain) which `Indexer` implements while no page is cut; `BookInv` is
   its mapping.
3. The lifetime of a paused stream's entries against `MAX_PAUSE_SECS`.
4. The scaffold poller, once it writes.
