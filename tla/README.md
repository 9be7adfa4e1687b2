# A verification project for the Aqua agent trading stack

The repository is a trading service built around the Aqua protocol. An owner, who holds a Ledger,
delegates a limited budget to an agent; the agent trades out of vaults the owner can always empty;
a service prepares, relays and records trades, projects the on-chain order book into PostgreSQL and
fires conditional orders. This directory holds TLA+ models of it, the TLC configurations that check
them on small instances, and TLAPS proofs of their main properties for every instance. Paths below
are relative to the repository.

    tlc -workers 2 -config MCKeeperQueue.cfg MCKeeperQueue     model-check
    tlapm KeeperQueue_proofs.tla                               check the proofs

## Inventory

| Part | State | Operations | What is hard, what makes it correct |
| --- | --- | --- | --- |
| Order vault, `contracts/src/AquaOrderVault.sol` | active order hash, committed amount, balances, approvals | activate, amend, cancel, market swap, emergency cancel, return, withdraw | Fills come in between at any time. Aqua can pull the one active order and no more; the order is backed; sell tokens leave only for what the owner's agent was promised. |
| Vault factory, `AquaOrderVaultFactory.sol` | delegations and their nonces, spending of the day, action nonces, vaults | register, revoke, deploy, execute | Re-registration, revocation, expiry and day rollover interleave with requests. The agent stays within mandate and budget. |
| Intent controller, `AquaIntentController.sol` | used nonces, observations, closed groups | consume, observe, activate, bindMatcher | A proof must stand for some blocks and time; one activation per group; one use per nonce. |
| Bounded matcher, `BoundedMatcher.sol` | allowlist (immutable) | execute a batch | All or nothing. |
| Keeper, `packages/orderbook/src/keeper.ts`, `packages/adapters/src/keeper.ts` | `keeper_jobs` and their leases; the account's nonces on the chain | claim, receipt, price, estimate, send, mark | Crashes between sending and recording, lost leases, lost replies, replaced transactions. Completion must be true, every job settled. |
| Conditional orders, `packages/orderbook/src/{triggers,authorization}.ts`, `packages/adapters/src/triggers.ts` | `trade_triggers`, `trading_intents`, observations, high-water marks | challenge, authorize, evaluate, enqueue, mark firing | The worker's record of a condition runs ahead of the chain's; one exit fires; what executes is recorded; nothing stands without a signature. |
| Trade API, `packages/trade-api/src` | previews, operations, settlements, delegation projection, cancellations | preview, submit, activate, cancel, list | Retries, concurrent retries, settlements without an answer, cancellation against firing, pages of a listing that changes. |
| Order book, `packages/orderbook/src/service.ts` | none (it reads `trading_orders`) | market, IOC, FOK, GTC, post-only, execute, book, ticker | The answer must follow the book it was made from: best orders first, report and route agree, inverse pairs rounded safely. |
| Order preparation, `packages/contracts/src` | none | prepare limits and swaps, build and recognize limit programs | Wallets sign late and rates move; what executes must be what was asked for. |
| Indexer, `packages/orderbook/src/indexer.ts`, `packages/adapters/src/trading.ts` | orders, fills, logs, checkpoint | scan, project, commit, rewind | Reorganizations, a crash inside a commit, replay. |
| Order worker, `apps/order-worker` | none | indexer, evaluator, keeper in turn | One failing part starves the others. |
| Account activity, `packages/activity`, `apps/worker` | subscriptions, actions, trades, lease | subscribe, collect, rewind, wipe | Two workers after a lease ran out; a rewind decided on a row that moved. |
| RPC pool, `packages/evm` | circuits, probes, chain admission, pins | rank, probe, hedge, quorum, broadcast | Answers of abandoned requests still change circuits, bodies come without a time-out; a probe must be taken back; an accepted broadcast must not be lost. |
| Authorization, `packages/adapters/src/{auth,oauth,ledger-webauthn}.ts`, `apps/api/src/server.ts` | challenges, credentials, codes, refresh tokens | sign in, enroll, confirm, exchange, refresh | Single use under concurrency and partial failure. |
| MCP bridge, `apps/mcp-bridge` | token and preview files, the session | login, bind, preview, post | Bridges share their files, may be killed or fail to write, tokens lapse; payment comes last. |
| Deployment, `scripts/deploy-public-chain.ts` | chain, partial record, three files | deploy, bind, fund, ship, write | Cut off anywhere and run again, with other keepers and pins. |
| API routes, secret broker, quoter, agent keys, schemas | little or none | forwarding, validation, cryptography | see "Not modelled" |

How they interact. The bridge of an agent asks the API for trades under the tokens of the authorization
server. The API relays signed requests to the factory, which calls the vaults; the vaults
ship and dock orders on Aqua. The indexer reads the resulting events through the RPC pool, the evaluator reads the
indexed book and enqueues jobs, the keeper sends them to the controller (observe, activate) or to the
matcher (activate an intent and execute the signed vault action in one transaction). API and workers
share PostgreSQL; nothing else connects them.

`PROJECT.json` lists the hazards found in this code, each at its line, with the properties that cover it or
the reason why none does.

## Modules

### Contracts

**`AquaOrderVault`** models all vaults at once, each a function argument, with the parts of Aqua and
of the ERC-20 tokens that they use: balances, the allowance to Aqua, and what is shipped. One action per
external function. A revert is the absence of a step; `nonReentrant` makes a call one step. A strategy
is an order hash with the vault it names as maker; the arrays of the call (sell amount first) are
an order and an amount. Aqua itself is permissive: it takes a docked hash again. `ExecuteSwap` leaves
the router free to take any part of the approved amount and to give any output; the balance checks
of the code decide. The allowance to the router is zero between transactions and is not a variable. The
environment deposits and fills.

**`AquaOrderVaultFactory`** extends the vaults. `Execute` is the whole of `execute`: nonce, charge and
the vault's action in one step. The deadline and the nonce are chosen with the request, since the
agent signs whatever it likes; the owner's signatures on delegations are a set, `signed`, that grows
only with the owner's current nonce, as the trade API prepares them. A signature made before a
revocation can still be registered after it; that is how the code is.

**`DelegatedBudget`** is the promise of a delegation without vaults, nonces of actions or policies: keys
are live or not, mandates are issued and used once, the spending of a day is within its limit.
`AquaOrderVaultFactory` implements it (`BudgetKept`). The budget is the stored counter, which a registration
resets; what was really placed in a day, and under which mandates, is history: `placed`, `granted` and
`honoured`, the delegations that were registered, since relaying one twice must not count twice.

**`AquaIntentController`** keeps what has been reported, activated and consumed as history variables,
so that its properties speak of the calls made and not of the one record the contract keeps.

### The worker

**`KeeperQueue`** has a worker's run as a sequence of places (`at`), one per await, and the row it read at
the claim (`claimed`), which it goes on using while the table changes. The chain is the pool and the
mined transactions of the keeper's account. There is no clock: a lease lapses, a submission grows
old. Attempts are only compared with the limit and saturate there. `Write` is addressed to the row
the worker still leases and does nothing otherwise, as the `WHERE lease_owner` of each statement. The
reply to a send may be lost, "nonce too low" and "underpriced" count as sent, nodes evict
transactions, a call may revert for reasons of its own, any call to the node or the database may fail.

**`ConditionalOrders`** composes the evaluator, the trigger tables, the completion of jobs and the cancellation
of a trade with the actions of `AquaIntentController`. Each database statement is a step: the evaluator's second
statement is held in `writing`, the ones left of a `markComplete` in `finishing`, and `Crash` loses both. Whether
a condition is seen true, and by which orders, is left open in each evaluation, for it depends on the
whole book. The queue is an over-approximation of `KeeperQueue`: the call of a job may go through at any time
after it was enqueued, or never, and again; `Complete` needs a call that went through, which is
`CompletionIsTrue`. One process evaluates, any number complete jobs, since `finishing` is a set. What the vault
does in the batch is left open beyond success or failure. Blocks are one unit of time apart. A trade may be
cancelled repeatedly, as the code's check of `used_at` comes before the relay and its mark after it. History are
`completed`, the jobs whose `markComplete` ran to its end, and `unmarked`, those whose leg was not marked when the worker died or
when they were completed.

**`StandingIntents`** is the other way to a conditional order: a challenge, the maker's signature, and the
guarded update that consumes it (`Authorize` and `ConsumeRequirement` are the two halves of one request), then
the evaluator with its prices. Here the triggers of each kind of command, both exits of an OCO or a bracket, the
trailing high-water mark and the activation price are computed as the code does, with prices in ten
thousandths so that a trail in basis points is exact; the book shows any best price, deep enough or not. It
drives its own instance of `AquaIntentController`. `RestartServices` loses what is under way and deletes lapsed
intents, as `initialize` does.

**`CanonicalChain`** is the chain that the readers follow: it grows, and `Reorganize` replaces its last blocks
by as many others, at any time, between two reads of a cycle too; their transactions are those the contracts let it hold (`Legal`). **`OrderIndexer`** is
`runOnce` await by await over it; a commit is one step per statement, because the statements are sent on the
pool and not on the transaction that `begin` opens. What is to be sent is a set, and `Turn` and `Before` say in which order: by table, and within a
table by block. **`ActivityCollector`** has the user's calls and, for each worker,
the run await by await; what the adapter does inside one transaction is one step. The lease may run out under a worker.
The rest is history. Of the indexer: `misread`, a fork has replaced blocks which the cycle under way checked or read; `torn`, such a
cycle has written; `cut`, a commit ended half sent; `survivors`, the orders whose rows a rewind left. Of the collector: `late`, the workers
whose row another has written since they read it; `overtaken`, one of them undid what another knew of a fork; `shaken` and `mixed`, as
`misread` and `torn`.

### The services

**`TradeSubmission`**: a request is a process whose steps are the statements of `submitTrade` and `activateFunded`;
requests about one trade interleave with each other, with the facilitator, which goes on when the client
has given up, with the chain, with cancellations and with crashes. `CreatePreview` has the plan and the verdict of the safety
simulation. The delegation projection is written when the registration is broadcast, not when it is
mined, as in the code. The activation may be sent and its answer lost, any statement may fail, and a request may be cut off anywhere. History
are `acted`, the trades for which a leg was inserted or an activation sent, and `cut`, those of which a request ended after that and before
it charged the plan. Relayed transactions that can change nothing any more are dropped
(the other deployments of a vault once it is deployed, registrations after the first), which halves the state space.

**`Listings`**: `listTrades`, sorted by the service over what it fetched from two tables, and `listOrders`, sorted
by the database; rows come, change their `updatedAt` and are wiped between two pages. A page is a set of rows, the first of those
the cursor leaves, and `listed` counts how often a row was on one: nothing said here depends on their order within a page.

**`Authorization`**: every route that issues a challenge, finishes a ceremony, a code or a token, as chains of
database statements. Devices have counters of their own; one of the two does not count, as passkeys may.

**`OrderBook`** is pure but for the answer (`asked`, `answer`): from every book of up to three orders, of the pair or of its
inverse, each request gets its answer in one step. Sorting is by how many orders come before one (`Sorted`), which for a strict order of all of
them is what `sort` returns; a level has the orders of one price, as prices of one value are written alike (`invertPrice`, `ratio`). **`ProtocolService`** prepares a limit order and a swap
and lets the wallets sign when they like while the rate moves; a limit program is a function from byte offsets
to instructions with their real sizes, so that the jump, the decoder and the recognizer meet the same bytes.

**`RpcPool`**: per endpoint a circuit with its probe, admission by chain id and cooldown; per client a request with its
wave, its answers and what is still in flight. Requests that a hedge leaves behind stay in flight and change circuits.
An exchange is sent, then its headers come or its timer runs out; with headers the timer is gone and the body comes or does not (`Headers`, `Answer`).
Latency is an order within a tier, cooldowns count down, answers are classes of `normalize.ts`, and one more, `malformed`: a value that the
caller of the exchange cannot parse, which a circuit counts as a success and which, of the best ranked endpoint that took a broadcast, makes the
request fail (`Garbled`).

**`McpBridge`** meets the server, the API and the chain as its calls do; every await is a step, and it may be killed at each. After an exchange
the file may not be writable (`SaveFails`), and the server lets a refresh token lapse (`RefreshTokenLapses`); `lostTokens` are the ones that a login must replace for
such a reason.
**`PublicDeployment`** runs the script again and again over what the earlier runs left: the chain, the partial record,
the three files. Its `Deploy` takes the next await of the script; pinned contracts are there from the start or not, the keeper of a run is any.

The `MC...` modules and `.cfg` files give the constants values. Where several parts share a run they share no state:
a rigid variable (`part`, `reader`) says whose behaviour it is and the others rest, so that each is checked as if alone.
Definitions marked `(mutant)` are variants of a neighbouring definition with a plausible bug; they occur in no specification and
serve to confirm that a property depends on the code.

## Runs

| Run | Instance | Result |
| --- | --- | --- |
| `factory` | two vaults under one key, a narrow and a wide delegation, two days | `PlacedWithinMandates`, `BudgetKept` (the refinement), `ReachNeedsMandate`, `SalesAreCharged` hold |
| `authority` | vaults: two, with three orders and amounts to 3; controller: two intents, groups and proofs, three senders, three blocks; authorization: two owners and devices, five challenges, two requests at once | `BookMirrorsVault`, `OrderBacked`, `MarketPaysForWhatItTakes`; `GroupActivatesOnce`, `ActivationIsPersistent`; `SessionFollowsAssertion`, `NoAssertionAfterItsSuccessor` hold |
| `zero_proof` | the controller, whose operator may name the zero hash | `ActivationIsPersistent` violated (finding) |
| `keeper` | two workers, an ordinary and a refused job, one mishap | `CompleteMeansExecuted`, `EventuallySettled` hold |
| `keeper_failure` | one worker, no mishap | `FailedMeansNotExecuted` violated (finding) |
| `conditional` | one trade of two legs, one proof, a chain of two blocks, five jobs, crashes | `RecordedExecutionIsReal`, `OneLegExecutes`, `CompletionIsRecorded`, `SettledLegsStay`, `BatchIsPersistent` hold |
| `forgotten_trigger` | one leg, three blocks, no crash | `FiringIsReported` violated (finding) |
| `submission` | two requests about one trade or two, two payments, two registrations, two days; listings: three rows, pages of one | `RecordsAreReal`, `SpentCoversActivations`, `LifecycleIsFinal`; `ListedOnce` hold |
| `readers` | four blocks, three for the collector, one fork of one or two at any time; indexer: one order with two fills, an interruption; activity: two workers | `IndexIsExact`, `IndexerCatchesUp`; `FeedIsExact` hold |
| `indexer_commit` | the indexer, no fork, a commit that is cut | `FillsCountOnce` violated (finding) |
| `rpc` | two endpoints of different tiers, two clients, one with a pinned session, three situations | `ProbeIsAlive`, `HeightIsVouched`, `AnswersAreNotLost`, `RequestsEnd`, `EndpointsReturn` hold |
| `services` | deployment: three pinnings, two keepers, one cut, one lagging read; book: every book of up to three orders; protocol: every time in force, two rates; intents: six commands; bridges: two of one agent | `DeploymentAgrees`, `ScriptFinishes`; `AnswerFollowsBook`; `ProgramMeansTheOrder`, `FilledAsAsked`; `StandingIsAuthorized`, `OneExit`; `CachedTokenIsLive`, `PaidWhenPrepared` hold |

Bounds, and why they are enough.

* Vaults and factory. Two vaults show that they do not
  interfere, two orders of one vault that an amendment replaces one by the other, amounts to 3 that fills may be partial.
  In the factory run time goes over two days of the model, so that a day's spending is left behind, one
  delegation lapses within the first day and the other outlives it, and each can be registered after
  the other. In both the owner
  never sends tokens to the market's account, or `MarketPaysForWhatItTakes` could not tell them
  from a sale; the market is one account, so a vault's order filled by another vault's swap is not
  represented.
* Controller. Three blocks and four timestamps let a report stand for too short and
  for long enough, by blocks and by time separately, and be replaced in between.
* Authorization. Five challenges are an enrollment of each device and three more ceremonies, so that two sessions or two
  assertions of one device compete; two requests are handled at once; three refresh tokens are two rotations.
* Keeper. The retry limit is 2 instead of 10, the fee ceiling leaves room for one replacement, and one mishap is one
  crash or one lease lost at work; leases that lapse after a run are not bounded. Two ordinary jobs
  together with mishaps are too many states for TLC; the proofs cover them.
* Conditional orders. The chain's two blocks let a report be younger than the delay and old enough, and five jobs
  are both legs' reports and batches and one reset; becoming due again after a reset takes the third
  block of `forgotten_trigger`. For standing intents three blocks and three jobs suffice for a report, a reset or a second
  exit's report, and an activation; two requests bring the same signature at once.
* Submission. One trade with two requests shows retries, two trades with one request each share a day's limit that
  allows one of them. One leg per armed trade here; two are in `conditional`.
  `RowLimit` 2 stands for the 1000 rows that `listTrades` looks at, `Milli` 2 for the microseconds that a date drops.
* Readers. `Confirmations` is 0, the worst case of a fork for a given depth; a fork replaces up to two blocks, brings up to
  two transactions, and four blocks are two chunks; the collector's chain has three (`FeedHeight`), which is a chunk and the beginning of another.
  `FeedIsExact` is valid for forks not deeper than the rewind reaches, 2 * Confirmations + 2 blocks.
* RPC pool. `FailuresToOpen` is 2 instead of the code's value so that a failure leaves the circuit closed and the next one opens it;
  a circuit opens without the exponent growing (`MaxOpens` 0), since the length of a cooldown is only a
  number to count down. Two endpoints make one wave, of one or two of whom answer.
* Order book. `MaxRoute` is 2 instead of 8, so that books of three orders exceed it; `Precision` 100 stands for 10^36, so that inverting a price
  rounds; prices 3/10 and 1, amounts and rests of 1, 3 and 4 units meet every rounding, with two units to the whole token.
* Protocol. `FullBps` 10 stands for 10 000, `Forever` 100 for the largest expiry; rates of 1/2 and 3/2 are on both sides of an order of 3 for 1.
* Deployment. One cut anywhere and one lagging read; the tokens suffice to fund three runs; pinned are no contract, all, or Aqua and
  its routers. Contracts known to no other and knowing none are left out.
* Bridges. Two of one agent share their files; a preview needs two transactions first, in order; two refresh tokens and two bindings
  are enough for each bridge to take one from the other.

Fairness is assumed only for the five liveness properties. `EventuallySettled`: weak fairness of each worker's `Run`, of leases
running out and of submissions growing old; the loop of the order worker calls `runOnce` again after
every cycle, failed or not, and time passes. Nothing is assumed of the chain: transactions may never be
mined and every call may fail, and the retry limit still settles the job. `IndexerCatchesUp`: weak fairness of the cycle's
steps; interruptions and forks are bounded by the model, and a block with a log that the decoder refuses stops the
indexer, so that the property asks for readable blocks only. `RequestsEnd` and `EndpointsReturn`: the answers and time-outs of
requests in flight and of admissions, the next wave of a request, and cooldowns. The timer of an exchange covers it until the headers
are there (`rpc.ts:65`); nothing is assumed of bodies, which may never come. `ScriptFinishes`: an
operator who runs the script until it ends well, with the keeper that pinned contracts were made for, and the steps of the script. What is assumed besides, for keeper
and evaluator, is that the indexer lets the cycle reach them: the loop of `apps/order-worker/src/main.ts` does not isolate its
three calls from each other (a listed hazard).

Exceptions that the properties name. `ListedOnce` excepts `LostWithFraction`: a cursor is a JavaScript date, orders are compared in the database by
microseconds, and of the orders changed in the millisecond of a page's last row those behind it are lost when that row's time has a
fraction, as the time of a cancellation (`now()`) has. `ReportAgrees`, in `AnswerFollowsBook`, is about sizes in base units: for a size in quote
units the report assumes one price for the whole route. `ReplayIsExact` excepts commits that were cut (finding `indexer_commit`).
`IndexIsExact` excepts what a misread cycle wrote (`torn`), until the next rewind: a fork between the check of the checkpoint (`indexer.ts:51`), the logs (`:63`) and
the hash (`:65`) puts the hash of one chain on the logs of another. It also excepts, for as long as no statement writes them, the rows of orders that a rewind left
(`survivors`), because `rewindFrom` deletes from the block of the checkpoint on and a fork may reach below. `FeedIsExact` excepts `mixed`, a batch stored
across a fork in the same way (`service.ts:105`, `:118`, `:137`), and `overtaken`, where a worker undid what another knew of a fork, which takes an expired lease: a
rewind compares no row, so that one decided long ago may leave more than the row of today is certain of; and a batch is stored whenever the cursor is where it was,
also where others moved it away and back to a fork of their own. What it does say of two workers is that the others' batches are turned away by their
cursor. `SpentCoversActivations` excepts a trade whose request was cut off after a leg or an activation and before the charge, with no retry after it (`cut`), or is on its way there.
`CompletionIsRecorded` excepts `unmarked` jobs: the worker died between enqueueing the batch and marking its leg (`triggers.ts:226`, `:229`), or the batch was completed in
between, so that `markComplete` did not find a leg and the next cycle may mark it as firing for a job that is over. `AnswersAreNotLost` excepts `Garbled`;
`RequestsEnd` and `EndpointsReturn` except a request, or a probe, that waits for ever for one body (`AwaitsBody`, `ProbeAwaitsBody`). `CachedTokenIsLive` excepts
`lostTokens`: what bridges do to each other in any order never costs a login, while an answer, a process or a file that is lost after the exchange does. `PaidWhenPrepared` says
that nothing which comes before a payment is skipped, not that it is sent once: every post of a preview begins with the first prerequisite.
`DeploymentAgrees` holds always, `ScriptFinishes` unless a run went astray: ended between its first order and
its manifest, met a lagging node, or had another keeper. The type invariants the modules state are all proved.

## Findings

* `zero_proof`: `activate` with proof hash 0 succeeds for an intent nobody ever observed, because the
  empty record equals it. `README.md:229` promises block-plus-time trigger persistence. The operator and the
  matcher alone can call it, and no keccak proof is zero, so the worker never does; the theorem
  `PersistenceHolds` assumes exactly that (`NoProof \notin Proofs`).
* `keeper_failure`: polls for a receipt count as attempts; after ten of them one failed poll records
  a job as failed whose transaction is pending and may execute. `README.md:227` says the worker follows
  receipts and records terminal reverts.
* `forgotten_trigger`: an observe job is named after the observation and its proof. A condition that becomes
  true, false and true again by the same best orders gets its second report dropped as a duplicate
  (`triggers.ts:219`, `adapters/src/keeper.ts:23`); the leg is marked as firing for a batch that reverts, and
  is not watched any more. `test/e2e/trade-evidence.ts:106` takes a triggered trade that does not execute
  after the window for an error.
* `indexer_commit`: `commitProjection` opens a transaction and sends its statements beside it
  (`adapters/src/trading.ts:26`). A commit that is cut before the checkpoint leaves fills taken from their orders that the
  next cycle takes again. `README.md:223` says they are committed transactionally.

One more sentence of the documentation is too wide, without a run of its own: `README.md:223` calls the rewind deterministic, and rows of replaced blocks
below the checkpoint outlive it, as do batches that were read across a fork, until a rewind reaches them (`survivors` and `torn` in `OrderIndexer`; without either exception TLC
refutes `IndexIsExact`).

Not findings, as nothing in the repository speaks of them, but visible in the models:

* a worker that dies between enqueueing a batch and `markFiring` leaves a leg that `markComplete` does not find, and that is later marked as firing for a job that is over;
* a trade whose cancellation was recorded first is `broadcast` afterwards when its batch turns out to have been mined;
* an armed trade whose request is cut off between its legs, or the relay, and the charge is not counted against the projected spending of the day
  (the factory's own counter is not concerned);
* a malformed hash from one endpoint makes a broadcast fail that others accepted, and a body that never ends holds a request, or a probe, without a time-out;
* the high-water mark of a trailing stop is written without a comparison, so that a second order worker could lower it; and the buying side of a trailing stop
  follows the same mark (`triggers.ts:130`), so that there a rising mark loosens the stop;
* the repository of `listActions` ignores the cursor it is given, and no route calls it;
* an order is lost to a reader of pages, as said above; so are transfers listed in blocks that were replaced, as said of `overtaken` and `mixed`.

## Proofs

Each proof module extends the module it is about, and the theorems hold for every value of the
constants that satisfies the module's assumption.

* `AquaOrderVaultFactory_proofs`. For the vaults alone, the invariant is the conjunction of types, `BookMirrorsVault` and
  `OrderBacked`: the allowance and the inventory of a vault are those of its active order, so a fill takes
  from both alike. It is preserved action by action (`VaultTyping`, `BookAlwaysMirrorsVault`, `OrdersAlwaysBacked`), and of each
  action it is shown what it may move to the market (`MarketAlwaysPays`). Every step of the factory is a step or
  a stutter of the vaults (`FactoryDrivesVaults`), so their invariant carries over; types and the limit on the stored counter are inductive on
  top of it (`FactoryInvariant`), and each action maps to one of `DelegatedBudget` (`FactoryKeepsBudget`, the
  refinement), and the same case split gives the action properties `ReachIsMandated` and `SalesAlwaysCharged`. `MarketAlwaysPays` and
  `SalesAlwaysCharged` assume `Market \notin Recipients`, as the run does: an owner who sends tokens of
  its vault to the market itself (`withdraw`) sells nothing, and a balance cannot tell the two apart.
  That a day's placements stay within the mandates of the day (`DaysStayMandated`) needs what is still to come: what was placed and what the counter
  leaves of the limit in force are together within what was granted (`LeftWithinMandates`), and a delegation that was honoured cannot be registered again,
  because the owner's nonce is past it (`HonouredAreUsedUp`).
* `Authority_proofs`, of three of the parts that decide who may act, and once. The controller: persistence needs to know where the contract's record comes from: the
  invariant adds that a standing record is the first of an unbroken run of reports of its proof, that
  a group with an activation is closed and that a consumed intent's nonce is used. Theorems
  `ControllerTyping`, `OneActivationPerGroup`, `OneIntentPerNonce`, `PersistenceHolds`.
  For the authorization server the invariant `SessionInvariant` says that every
  request, code, token and grant goes back to an accepted assertion of the owner's device (`AllBacked`), that what one challenge has
  led to is in one place at a time (`InOnePlace`: the request that carries it on, then an unused code, then the requests for its tokens), that
  the tokens of a family are the ones of a challenge, one of them unused (`Families`), and that accepted counters are within the
  stored one (`CountersInOrder`). Theorems `SessionsFollowAssertions`, `AssertionsPassInOrder`. For the bridges: the token a bridge has
  yet to save is live and known to it alone (`UnsavedIsOwn`), and a bridge at a transaction of its preview has those before it on the
  chain (`InTurn`). Theorems `BridgesShareTokens`, `PaymentsArePrepared`, of `BridgeSpec`.
* `KeeperQueue_proofs`. The invariant follows the row through a run: a row and a claim name only
  transactions made for their job, a worker about to complete has seen the receipt of a success, and a settled
  row has no lease. Theorems `KeeperTyping`, `CompletionIsTrue`, `TerminalStays`.
* `ConditionalOrders_proofs`. The invariant joins the three parties: the controller closes a trade with its
  first activation (`OneLegActivates`), only batches that went through are completed and they activated their
  leg (`ExecutedActivated`), and a leg that carries a job carries its own, queued one (`MarkedForItsJob`). That completions are recorded needs the trace of a
  job through the tables (`RecordInvariant`): the leg of every queued batch is marked for it, is about to be, or never will be, being closed or cancelled, unless
  the job is unmarked (`JobsAreTraced`); and what each statement of `markComplete` has established by the time the next is sent (`FinishingIsRecorded`). Theorems
  `TablesTyped`, `RecordsAreTrue`, `LegsExclude`, `CompletionsAreRecorded`, `SettledLegsRemain`, and, from the controller's record being the first of the
  reports that stand, `BatchesArePersistent`.

* `Services_proofs`, of the three services that one run composes.
  Standing intents: nothing of the evaluator's state says whether the maker ever authorized what it watches. The invariant is the
  order of things: a signature before the request that brings it, that before the one acceptance, and that before any
  observation, high-water mark, job or evaluation (`AuthorizedFirst`), with the controller's closed group for the exits (`OneGroup`).
  Theorems `StandingAuthorized`, `OneExitActivates`.
  The deployment (`DeploymentSpec`): a script that seeds or records anything has found these contracts bound to each other before
  (`SeedsWhatIsBound`), and a deployed contract changes only where its matcher was unset. Theorem `FilesDescribeOneDeployment`.
  Orders and swaps (`ProtocolSpec`): `ProgramLaidOut` computes where each of the six instructions begins, `WalksTheChain` that a walk which is
  led from place to place meets what is there, once for the indexer, byte by byte, and once for the router, which jumps;
  so `ReadAsAsked` and `RunAsAsked`, for any amounts and deadlines, and theorem `ProgramsMeanTheirOrders`. `LeastOut` and `MostIn` say what a threshold
  in whole units bounds before it is divided, `FillsKeepThePlan` what the router therefore lets through; the invariant joins them to the plan
  (`PlanBounded`) and to the deadline in the order's program (`LifeKept`). Theorem `SwapsAreFilledAsAsked`.
  The order book (`BookSpec`): the book does not change, so `AnswerFollowsBook` is its own invariant, and the work is in what is worked out from the
  book. `OrdersInTurn`: price, then time, is a strict order of the whole book, inverted prices included, which `NotBelow` gets from the fractions. So each
  place has one order (`SortedInTurn`), and the orders a route may take are the first that its limit lets in (`FirstCompatible`). What is still wanted
  is a recursion over them: it exists (`WantedExists`), only falls (`WantedFalls`), and what it reaches is a beginning, whole but for the last (`ReachedFirst`);
  so the units of a route add up (`RoutePrepared`), it is the best one (`TakenIsBest`), the report made before it agrees with it (`ReportIsOfRoute`) and what is
  refused cannot be filled (`ForemostSuffice`). Two levels are apart or the same (`LevelsApart`), and those up to one are what a limit at its price lets in
  (`LetInByLevel`), hence their sums (`LevelsReached`). Theorem `AnswersFollowBook`.
* `TradeSubmission_proofs`. A request is cut off between any two of its statements and others work on the same rows, so the invariant says for
  every request what its place in the handler vouches for (`RequestSound`): a payment of this trade in hand, mined before an operation is
  inserted, the operation on record before an activation is. Two requests never ask the facilitator for one payment (`PaymentsApart`).
  Theorems `SubmissionsAreReal` and, since only operations on record are ever cancelled (`OfferedOnRecord`), `LifecycleNeverChanges`. Theorem
  `ActivationsAreCharged` is about a sum over a set of trades: that the recursive `Total` exists and adds up in any order are
  `TotalUnfolds` and `TotalAddsUp`; a step moves at most the trade of the request that takes it into or out of the sum (`OneAccounts`), out of it when a leg is
  inserted and back when the plan was charged, and a cut takes one out (`LessIsCovered`).
  For the listings (`ListingsSpec`) the invariant says of every row that was there all the time that it was listed once and is not ahead of the cursor any
  more, or not at all and is still ahead (`Accounted`). That needs an order which a cursor cuts in two, also a cursor whose date was truncated
  (`OrderOfListing`, `CursorsDivide`), and that what changes keeps the places of the others (`RowsMove`). Theorem `RowsAreListedOnce`.
* `RpcPool_proofs`. A circuit that is probing has its probe under way (`ProbesReturn`), what is in flight belongs to a query and was sent to an
  endpoint of the chain (`FlightsAreAsked`), and an answer that did not decide its request is one the pool collects, which a request that fails has none of but for a malformed hash (`ExhaustedUnanswered`). Theorems
  `ProbesStayAlive`, `AnswersAreKept`, and `HeightsAreVouched`: `MedianIsVouched` counts the answers on either side of the median of any number of
  answers in any order.

* `ChainReaders_proofs`, of both readers of the chain. `Grows` is what an added block and a fork have in common: up to some block the chain stays, and above it is a
  fork nobody has seen. What is listed is then exact as far as the row's last block is on the chain, and up to where a rewind would start in any
  case (`RowOK`), since a row's last block was confirmed and a fork is not deeper than the rewind; a worker's batch is exact as far as its own last block is on
  the chain unless a fork came under its reads (`Faithful`), and one that is not late stands at the cursor of a row that is (`Storing`). All of it is said for as
  long as the feed is `Clean`, neither mixed nor overtaken; a fork shakes every worker whose reads it replaces, which is what `FeedStill` gives the other ones. `StoreExact` joins the two: no transaction is in two blocks,
  so what `ON CONFLICT DO NOTHING` leaves out is the same transfer. Theorem `FeedsAreExact`, of `ActivitySpec`.
  For the indexer (`IndexerSpec`) the tables are right about sets of blocks, one set for each kind of statement: `Covers` says that nothing of them is missing and
  no row offers more than they leave, `Matches` that the rows are what they say and belong to the chain or to a survivor (`Known`); both are said of a `Whole` index, neither misread nor torn. While the checkpoint is on the chain this holds of all
  blocks up to it; while a commit of blocks that are still on the chain is under way, of those whose statements were sent (`Current`), and these
  come before the ones that are pending. A commit of blocks that are gone may still write its orders, which is why no pending order
  is one that the checkpoint covers (`Committing`). `StatementTold` is the step: one more block in one set, and the tables are right about it. The
  checkpoint is sent last, when the sets hold every block. `LeftWithin` and `TotalAddsUp` keep the amounts: no legal chain fills an order beyond its size.
  Theorem `IndexesAreExact`.

The provers cannot instantiate the library's induction theorems. Where a proof needs an induction over data (a highest height, a least number,
the existence of a recursive function, the sum of a set, a walk through a program) it is the argument of a minimal counterexample, from the
library's theorem that `<` is well-founded.

Assumptions. Each specification's constants are constrained by one named `ASSUME`, and the theorems rest on these alone:
`VaultAssumption` and `FactoryAssumption`, `ControllerAssumption`, `KeeperAssumption`, `ConditionalAssumption`, `IntentAssumption`,
`DeploymentAssumption`, `ProtocolAssumption`, `BookAssumption`, `SubmissionAssumption`, `ListingAssumption`, `AuthorizationAssumption`, `BridgeAssumption`, `PoolAssumption`, `ChainAssumption`, `IndexerAssumption`, `ActivityAssumption`. They give the constants their types, keep the
values that stand for "none" out of the sets of the others and make the bounds natural numbers. `PoolAssumption` also says that the set of
endpoints is finite and that the powers of two it takes are numbers, since the provers know no exponentiation; `SubmissionAssumption`
that the set of trades is finite; `ActivityAssumption` that a fork is at most `2 * (Confirmations + 1)` blocks deep, which is how far below the head a
rewind starts again: the code has no answer to a deeper one; `ChainAssumption` that an order is shipped by one transaction, that a fill has a transaction
of its own and a positive amount, and that the transactions are finitely many; `ProtocolAssumption` that the amounts of orders and the router's rates are positive, as the request schemas and
a shipped order make them; `BookAssumption` that stored prices are positive fractions and asked amounts positive. TLC evaluates all of them.

`OneIntentPerNonce` (an intent's nonce is consumed once) and `TerminalStays` (settled jobs stay settled) are proved for every
instance and not repeated by a run.

Model-checked only:

* All liveness (`RequestsEnd`, `EndpointsReturn`, `EventuallySettled`, `IndexerCatchesUp`, `ScriptFinishes`), which under fairness is out of
  the prover's reach.

## Plan

Done: the contracts, the keeper, the conditional orders and standing intents, trade submission, authorization, the bridge,
the RPC pool, the deployment, the orders and swaps that are prepared, the order book, the listings and the readers of the chain, modelled,
checked, and every safety property of a run proved.

Next: the interleaving of the three calls of the worker's loop, with an indexer that a log stops for good, and tokens of different decimals in
`OrderBook`.

## Not modelled

* The routes of the HTTP API and the MCP server, validation and the schemas: they forward and keep no state of their own. The routes that
  finish a ceremony are in `Authorization`.
* Signatures and cryptography: membership in what was signed, the identity of who signed. So the secret broker, the wrapping of agents' keys,
  PASETO tokens and the Ledger's protocols have no model; the page that runs a ceremony is layout.
* The quoter, an advisory client of an external price service that changes no state.
* Gas, ABI encoding and decoding, array shapes and the byte order of strategies; the 64-bit casts of the controller, which the source argues cannot truncate.
* The local deployment script, which starts from an empty chain and resumes nothing; WETH, Permit2, the x402 proxy and the second token in the public one.
* Candles and traded volumes of the ticker; plans for cancelling and amending orders, which are computed from a row and change nothing here;
  tokens of different decimals in `OrderBook`.
* Requests of the trade API that are refused without a trace, prices and token lookups; limits on the number of subscriptions of one owner.
* Block reorganizations under a receipt the keeper has seen. A database error in the last write of an error path is the same as a crash.
* The loop of the order worker as a composition: each of its three calls is modelled alone.
* What a fill and an amendment at an unchanged committed amount do to the tokens sold per day is visible in the
  vault model: the daily limit bounds what is placed and what an amendment adds, not what is sold; `SalesAreCharged` and
  `PlacedWithinMandates` say no more.
* More than one evaluator: nothing keeps a second order worker away (`apps/order-worker/src/main.ts:22`); there are several keepers here, but one process evaluates.
