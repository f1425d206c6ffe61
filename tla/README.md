# A formal model of UNMET

UNMET is a market for missing AI-agent capabilities. Supporters put tokens behind a
demand in an escrow contract (`backend/AgentDemand.sol`); a builder proposes a service
that a verifier has attested; the supporters vote and the contract pays or refunds. An
API process (`backend/server.ts`) indexes the contract and sells an x402-paid ranking of
the demands, observes the services and their activity, and a web frontend drives wallets
through the contract's transactions.

This directory holds TLA+ models of that system, their TLC configurations, and proofs
checked by TLAPS. `PROJECT.json` lists every run, the code each definition models, the
hazards the properties are for, and the proved theorems.

    tlc -workers 2 -config AgentDemandVote.cfg MCAgentDemand
    tlapm AgentDemandProofs.tla

Names that start with a comment `Faulty:` are plausible wrong versions of the definition
that follows; they show that a property notices, and no run of the system itself uses them.

## 1. Inventory

| Part | State | Operations | What is hard | Modules |
|---|---|---|---|---|
| **Escrow contract** `AgentDemand.sol` | demands, commitments, votes per submission, key register, `totalEscrowed`, the token's ledger | create, support, submit, approve, reject, finalize, cancelSettlement, reopen, refund, setVerifier | orders of calls around deadline, review end and grace; books over several fields; a key handed to a new demand while the old one still takes calls | `AgentDemand`, `Pledges` |
| **Durable payments** `payment-store.ts`, `durable-payment.ts`, `payment-*.ts` | table `payments`; one request's context; the buffered response | verify/reserve, settle, confirm, release, cancel; recover, cleanup, reconcile | crash between two writes, lost or wrong answers, operator and API on one file, keys given back | `DurablePayment`, `PaidOnce` |
| **Admission, quotas, shutdown** `admission.ts`, `upstream.ts`, `server.ts` | rate table, slots, upstream counter, health cache, phase of the process | admit, release, fetch under a bound, start, drain | counters at their limit, double release, cached failures, a drain beside work in flight | `RateLimiter`, `AdmissionGate`, `ApiProcess`, `BoundedFetch` |
| **Demand chain index** `server.ts` | checkpoint, demand ids, entries, the refresh in flight | refresh, rebuild, serve | awaits between read and publish, reorganisation, single flight | `Chain`, `DemandChain`, `DemandIndex` |
| **Activity index and store** `activity-*.ts` | SQLite table of events, checkpoint, target, coverage | page, complete, reset, guard a request | crash between pages, one page from two branches, requests and operator beside the worker | `Chain`, `ActivityIndex` |
| **Insights** `insights.ts` | none | snapshot and history of the paid answer | two sums of one thing from two sources | `MarketInsights` |
| **Scoring and ranking** `server.ts`, `app-state.ts`, `analytics.ts` | none | match, score, sort, explain; list and analytics of the page | boundaries, ties, missing values | `DemandRanking` |
| **Service discovery** `discovery-scheduler.ts`, `discovery-store.ts` | service records with their last observation, running probes | publish, tick, probe, record, show | results for a changed service or demand, or from another process | `DiscoveryScheduler` |
| **Discovery observer** `discovery-observer.ts`, `validation-transport.ts` | places, one inspection each | look up, connect, ask, under one timer | callbacks that come after the end | `EndpointInspection` |
| **Services** `server.ts`, `Services.tsx` | route, fetches | list, filter, show | answers that overtake one another | `ServicesPage` |
| **Candidate validation** `validation-*.ts`, `submitService` | slots, an authorization, an attestation | authorize, inspect, judge, sign, submit, read back | the world changes between any two of these | `PaymentChallenge`, `ChallengeLoop`, `Submission` |
| **Market board** `App.tsx`, `contract.ts` | board, cursor, number of the refresh | refresh, poll, readback | refreshes, poll and actions overlap; reorganisation | `MarketBoard` |
| **Page of a demand** `App.tsx`, `contract.ts` | the clock's timer | show the status, offer transactions | boundaries of the page and of the contract must be the same | `DemandPage` |
| **Wallet transactions** `transaction-lifecycle.ts`, `App.tsx`, `contract.ts` | pending records in memory and session storage, session of the provider, position shown | submit, observe, replace, verify, restore | reload between broadcast and record, unknown outcomes, a wallet that changes and changes back, late reads | `TransactionLifecycle`, `TransactionStorage`, `WalletSession`, `SupportPosition` |
| **Creation chat** `CreateDemandChat.tsx`, its model, `demand-prepare.ts` | answers, step, outcome shown, funded | answer, edit, create, verify, refresh | a wallet changes while its creation goes on; units and roundings | `CreateDemandChat`, `DemandTerms` |
| **User interface**, **deployment** | — | layout; scripts, configuration, documents | — | — |

How they interact: the frontend and the agents call the contract, the API and the
validation service; the contract calls its token and checks the verifier's attestations; the
API reads the contract through an RPC node, calls the facilitator, and serves what the index,
the activity store and the discovery table hold; the validation service reads the contract
and the builder's endpoint and calls its signer; the operator's commands work on the API's
SQLite files from a process of their own.

What makes each part correct, in a line:

* escrow — tokens in the contract are exactly the unpaid claims; only a majority of the
  reviewed stake pays a builder; no claim is locked for ever; one live demand per key;
* payments — an authorization is handed over once, an Idempotency-Key pays once, content
  is released once and only for a transfer on chain, whatever crashes or is lost;
* admission — limits are never passed, everything taken is given back, what `/ready` says
  is true, a clean exit has answered everybody who waits;
* index and board — what is shown belongs to one canonical block and never goes back;
* activity — the stored events are those of the canonical chain up to the cursor;
* insights, ranking, listing — the numbers add up, orders are orders, reasons agree;
* discovery, services — what is shown was observed of this service, or asked for by this route;
* validation — what the contract accepts was seen at the endpoint, in time, and once;
* wallet — no second submission while the first may still take effect; nothing signed for
  another session; what is typed is what is sent, what is stored is what is restored.

## 2. How the project is built

Each component has modules of its own: state as variables, one action for each operation or
each stretch between two awaits, a specification, and its properties. `Pledges` and `PaidOnce`
are abstract specifications that the detailed ones implement. `Totals` has sums and
sorted lists that can be proved about: both count (units, and members that come before), so that
neither needs recursion. MC modules give a component its small instance.

Components that share state are composed: `Submission` has browser, validation service,
signer, endpoint and contract in one state; `DemandPage` looks at the contract's own state
(`MCAgentDemand`); `ActivityIndex` has worker, request and operator on one store;
`DurablePayment` has requests, store, chain, facilitator and operator. Parts that share no
state are run side by side without interleaving, which would only multiply their states:
`MCApi`, `MCRequests`, `MCSnapshots`, `MCSubmission` and `MCWallet` have a variable `part`,
chosen at the start, and each behaviour is one of that part while the others stay as they
begin. Every property is checked in all behaviours, so the parts lose nothing by it.

| Run | Configuration of module | Parts |
|---|---|---|
| `contract_vote` | `AgentDemandVote.cfg` of `MCAgentDemand` | contract, page of a demand |
| `contract_keys` | `AgentDemandKeys.cfg` of `MCAgentDemand` | contract |
| `contract_review_end` (finding) | `AgentDemandReview.cfg` of `MCAgentDemand` | contract |
| `payment_safety` | `DurablePaymentSafety.cfg` of `MCDurablePayment` | payments |
| `requests_end` | `Requests.cfg` of `MCRequests` | payments, gate, observer, upstream calls |
| `gate_payments` (finding) | `AdmissionGatePayments.cfg` of `AdmissionGate` | gate |
| `api` | `Api.cfg` of `MCApi` | process, limiter, discovery, insights, ranking, listing, services |
| `activity_history` | `ActivityIndex.cfg` of `MCActivityIndex` | activity |
| `chain_snapshots` | `Snapshots.cfg` of `MCSnapshots` | index, board |
| `market_reorg` (finding) | `MarketReorg.cfg` of `MCSnapshots` | board |
| `submission` | `Submission.cfg` of `MCSubmission` | validation |
| `wallet` | `Wallet.cfg` of `MCWallet` | transactions, storage, session, position, chat, terms |

Several of these runs stop when their clock, chain or budget is used up, so they do not look
for deadlock; each has a progress property for what must go on. In `activity_history` the
scheduler may stop for good (section 7). `contract_vote`, `contract_keys` and `payment_safety` do
look for deadlock.

The theorems of a component stand in a module of their own (`AgentDemandProofs`,
`DurablePaymentProofs`, `ApiTheorems`, `ActivityTheorems`, `SnapshotTheorems`,
`SubmissionTheorems`, `WalletTheorems`); a "Proved" below says what they establish and along which
invariant. What they do not reach is in section 11.

## 3. The escrow contract and its page

* `AgentDemand` — the contract. Every transaction is one atomic action (the contract is
  `nonReentrant`, and a revert leaves no trace, so a failed require is a disabled action).
  The variables are the contract's storage plus the token's ledger and `block.timestamp`.
  An action's guard is the function's requires in order, including the checked
  arithmetic of `uint96` and `uint128` (`MaxUint96`, `MaxUint128` are parameters); its
  updates are the function's assignments with `_clearActiveKeyIfCurrent`, `_pullExact` and
  `_pushExact` expanded.
* `AgentDemandProperties` — the properties, and the inductive invariant `IInv` of the proofs.
* `Pledges` — what a supporter is promised: tokens leave the escrow only through one
  settlement by a majority for each demand, or back to their owner, and never while the
  demand is alive.
* `DemandPage` — what `App.tsx` makes of the demand it has read and of the clock: status,
  timer, and the transactions it offers, over the contract's own state. `Accepted` asks the
  contract's own guards. A press that is held back because the tab is busy
  is section 10's.

Left out: texts, `expectedCalls`, `maxUnitPrice`, the service URL, the digests of a
submission and the events, which no later branch reads. An attestation is a record of the
fields that `_verifyAttestation` compares with changing state. The token is a conforming
ERC-20; `_pullExact` and `_pushExact` would revert with any other. Nobody sends tokens to the
contract outside of it (a donation only adds to the escrow), and the contract is not its own
treasury.

`contract_vote` — 3 supporters, one demand, two submissions, amounts 5 and 7, quorum 60 %, fee
10 %: do money, votes, settlement, cancellation and refund fit together in every order
(`BooksBalance`, `VotesBacked`, `MajoritySettles`, `NoStakeLocked`, `DecisionsHold`), does the
contract implement `Pledges` (`KeepsPledges`), does the page offer exactly what the contract
accepts (`OffersAreAccepted`) and show a status that lasts until its timer (`StatusLasts`)?
`contract_keys` — two accounts, two demands, one key, two verifier keys, short attestations: can
a key name two live demands or a late call clear the wrong entry (`OneLiveDemandPerKey`); does
every demand reach a point where stakes come out (`EveryDemandEnds`)?

Bounds: three supporters are the fewest with a quorum that is neither one wallet nor all;
two submissions the fewest with a reopening; amounts 5 and 7 make the quorum round up; the
small `MaxUint` values make the overflow checks bite; the clock passes the last deadline,
its review and the grace. Fairness: `contract_keys` assumes `WF(Tick)` alone — blocks keep
coming. No account has to do anything.

Finding `contract_review_end`: `docs/ARCHITECTURE.md:107` draws the refund out of a submitted
demand only after the deadline and the review's end. The contract also refunds as soon as the
candidate is voted down and the deadline has passed (`_refundable`). The money is safe in that
trace; the drawing is incomplete.

**Proved.** `AgentDemandProofs!Inductive` proves `Spec => []IInv` for all values of the
constants that satisfy `ConstantsAssumption` (finite accounts, quorum above one half, the
constructor's checks). None of the properties is inductive alone: that a quorum is backed
needs that every unit of the review snapshot has voted at most once (`VotesBounded`), that
approvers' stakes stay in escrow unless the candidate failed for good (`ApprovalsBacked`), that
no vote exists for submissions to come (`FutureVotesEmpty`) and that the terms of a review are
those of its snapshot (`TermsFixed`). `DemandInv(d)` speaks of demand `d` alone; a transaction
changes one demand, so each action is looked at once for that demand, and the sum over all
demands moves by the difference, by the lemmas of `Totals`. From `IInv` follow
`BooksBalance`, `OneLiveDemandPerKey`, `VotesBacked`, `MajoritySettles`, `NoStakeLocked` and
`DecisionsHold` as theorems of `Spec`, and `ContractKeepsPledges` that the contract implements
`Pledges` (`KeepsPledges`): `createDemand` and `supportDemand` map to `Pledge`, `refund` to `Return`,
`finalize` to `Settle`, and any other transaction or the clock to `GiveUp` of the demands it ends
(`NothingMoves`). That a settlement's payers hold more than half of what is pledged needs one more
invariant, `ReviewBounded`: under review a demand never outgrows its snapshot. `StatusStaysRight`
states the page's `StatusLasts` for any demand and moment: whichever way a demand is, the only
time its status looks at is the one the timer is set for (`StatusUntilTransition`).
`OffersAlwaysAccepted` states `OffersAreAccepted`: each check a call can revert with is a conjunct of
`MayFinalize`, `MayCancel`, `MayReopen` or `MayRefund`, the guards of the actions, and what the page
offers implies them. That a refund or a settlement can be paid needs `IInv`; that a quorum seen by
the page is the contract's needs that a demand open for its first candidate has no builder and no
verifier's key (`UnbuiltWhileOpen`). Model-checked only: `EveryDemandEnds`.

## 4. Durable payments

* `DurablePayment` — the store, the wrapper of one API process, its start, the operator's
  commands and the world. A handler (one paid request) moves through the pieces of
  `verify`, `settle` and `wrap` between two awaits, cut again after each write to the store:
  there a crash can fall. The row of a payment stands under its authorization.

| Action | Code |
|---|---|
| `Arrive`, `Refuse`, `Verified` | `wrap`, `verify` with `reserve` in one SQLite transaction |
| `BeginSettle`, `CallSettle`, `SettleAnswers`, `SettleLost` | `settle` up to the facilitator's answer |
| `Checkpoint`, `Poll`, `Unconfirmed`, `Read`, `Confirm`, `Settle`, `Fail` | the rest of `settle` and its catch |
| `Abandon`, `Release` | the `finally` of `wrap`; the middleware's flush |
| `StoreFails` | any use of the store throws |
| `Crash`, `Restart` | SIGKILL; `initializePaymentStorage` |
| `Cleanup`, `Reconcile`, `ReconcileRow`, `ReconcileEnds` | `payment-ops.ts`, in a process of its own |
| `Include`, `Tick` | the chain (external) |

* `PaidOnce` — the promise: an authorization is handed over at most once, charged only then,
  content released at most once and only if charged.
* `DurablePaymentProperties` — the properties, and the inductive invariant `PaymentInv`.

The facilitator may answer anything, or nothing, and include a transfer at any time after it
was given the authorization; it is trusted only not to submit what it was not given. The
token takes an authorization once and before it expires. The clock does not go back, and
confirmed blocks are not reorganised (the code accepts L2 inclusion, see
`docs/PAYMENT_RECOVERY.md`). Reconcile may run beside the API: the comment in
`payment-ops.ts` asks the operator to stop it, nothing enforces that.

`payment_safety` — two requests with any choice of two authorizations and one key, two
transaction hashes, one crash, a clock past the expiry. Two requests are enough for every
conflict of `reserve` (same authorization, same key), two hashes for an answer that names
another payment's transaction, two time steps for a cleaned row. `Retention` is zero: the
row then goes as early as the expiry allows. Checked: `HandedOnce`, `SettledIsCharged`,
`TerminalHolds`, and that the code implements `PaidOnce` (`PaysOnce`).

`requests_end` (with section 5) — progress under `WF` of each handler's steps (each await is
bounded by the timeouts of the facilitator's transport, the status poll and the confirmation)
and of `Restart` (the container is restarted), for two requests with one authorization. No
fairness is assumed of the store's failures, the operator, the clock or the chain.
`NothingStaysInFlight` excepts a store that failed: the code then leaves the row to the next
start.

**Proved** (`DurablePaymentProofs`). `PaymentInductive` proves `Spec => []PaymentInv` for any sets of
requests, authorizations, keys and hashes (finite or not), any expiries, retention, record
limit and number of crashes, from `PaymentAssumption` alone (the placeholders are none of
the values, the numbers are numbers). `PaymentInv` adds to the properties what makes them
inductive:

* `RowOwned` — a row names a request that has verified its authorization, and has its key;
* `RowHash` — only the owner writes a hash, and it is the one the owner observed;
* `RowAttended` — an open row's owner is at the step the row's state says;
* `PathSound` — what a request knows at each of its steps: a request past the checkpoint
  has the row's hash in hand, one that is confirmed has seen it on chain;
* `Kept(h)` already for a request that is about to call `settle` (`Committed`): its row is
  no longer one that cleanup could forget or a key reclaim could touch;
* `KeysUnique`, `CommittedOnce` — what two rows, and two requests, have in common.

A request's step touches its own row, so `HandlerStep` carries every other row and request
over once and for all and each action is looked at for one row and one request; `RowStep`
does the same for restart, cleanup and reconcile; only the reservation, which gives keys
back, looks at all rows. From it follow `HandedOnce`, `SettledIsCharged`,
`ReleasedIsSettled`, `InFlightIsOwned`, the action property `TerminalHolds`, and `PaysOnce`:
`CallSettle`, `Include` and `Release` are the steps of `PaidOnce`, all others stutter. Liveness
stays with TLC.

## 5. Admission, calls to others, and the process

* `AdmissionGate` — `concurrencyGate` with `admittedWork`. The closures become functions of
  the request: `active` is the gate's counter, `admission` says whether the WeakMap has an
  entry, `pending` and `ended` are its fields. `Released` is `release`, which every listener
  and every end of work calls. Between the actions of one request the actions of others
  and the client's `Close` may come. A piece of admitted work lasts as long as the promise its
  handler returns. The handler of `createPaymentMiddleware` returns none, so `Admit` leaves a
  paid request with nothing pending, while the work goes on (`paying`).
* `EndpointInspection` — the observer's requests and `inspectTarget`: lookup, connection, request
  and one timer. Which of their callbacks comes first decides; all others still come. With the
  system's resolver a lookup may never end, and the timer ends the inspection; while a resolver
  that was passed in (`given`, the tests') is at work the timer only notes that it is late.
* `BoundedFetch` — calls to the facilitator: at most `MaxFetches` at once, each with its own
  timeout and the deadline of its scope, nested scopes taking the sooner one.
* `RateLimiter` — `rateLimiter`: one action for a request (`Handle`, `Unidentified`), which
  purges, looks the window up or opens it, and counts or refuses. `admitted` is a history
  of what was let through. A client is the pair of route and address the code uses as key.
* `ApiProcess` — `startServer`, the payment middleware that is made at the start or when first
  asked for, the health result that requests share, `GET /ready`, the schedulers' runs and the
  drain. Times are ages up to the limit they are compared with.

`requests_end` — three requests for two slots on either route, two observations and two calls
for one place each. `HandlersHoldSlots`: the routes' own work never exceeds the limit.
`NothingIsKept`: slot, record, place and the request's own time are given back. Fairness:
`WF` of what the server does for each request, of timers, of a lookup by a given resolver, and of
an aborted fetch's end (`AbortSignal`); none of clients, endpoints or the facilitator.

`api`, the parts of the process and the limiter — three clients for two places in the table,
quotas of one and two, a clock that passes two windows (`QuotaHolds`: the quota is kept for
every span of a window's length, and nobody is refused without a reason, whatever the purge
leaves; the clock is monotone). For the process: a monitor and one more client, at most two
outages of the node, the facilitator or the disk. `ReadyIsTrue`: who is told "ready" has open
payment storage, a middleware, and a chain that was well no longer ago than a health result is
kept and a call may last; a node that works answers within the timeout of its client. Only a
failure to open the storage is kept for good. `CleanExit`: who still waits has been answered
when the process exits with code 0, and no scheduler is at work when stores close. A request
whose client has left does not hold the drain up: `server.close` waits for connections. If it
was paying, its row is recovered at the next start (section 4).

**Proved** (`ApiTheorems`). `WorkHoldsSlots` states `HandlersHoldSlots` for any requests and any
limit. The invariant `GateInv` adds to the property what the gate knows of a request at each stage
(`CallSound`): work is pending exactly while the route works, and a request that is paying holds a
slot as long as its client is there, which is why its work may be entered without another look at
the gate. The counter follows the set of held slots, one element at a time.

`ReadyTellsTruth` states `ReadyIsTrue` and `ExitsClean` states `CleanExit` for any requests, delays
and outages, from `ProcessInv`: the two ages bound whatever was found out by how long ago that
was (`AgesInv`: a probe's answer by its age, a kept result by what is left of it, a pause after a
failure by what is left of that); a request gets to the health result only after store and
middleware (`VisitsInv`); and once the schedulers are stopped nobody waits and none begins again
(`LifeInv`). Each step is looked at once for each of the three.

`QuotaAlwaysHolds` states `QuotaHolds` for any clients, limits, table size and length of window. That
no span sees more than two quotas is about windows the table has long forgotten, so
`LimiterInv` keeps for each client the time at which its last window was opened, still in the table
or not (`LastWindow`): later requests all fell into it, and the requests of one window's length
before it were one quota at the most, since the window before was over when it was opened. Two
windows then cover any span (`RecentBounded`). `FitsTable` says what the loop of the purge relies on
(expiries in order, one window for each client) and what a refusal does: no window is empty, so
that a full table after a purge is one of as many clients admitted of late (`FullIsRecent`, by an
injection).

Finding `gate_payments`: a client that goes while its payment is verified or settled takes the
slot with it, since `admittedWork` does not see the payment's promise. The tests of
`hardening.test.ts` hold the gate to the contrary, with a middleware that does return its
promise.

## 6. The readers of the chain: index and board

`Chain` is a tree of blocks given by constants (`Past[b]` is the chain that ends in `b`); the
head moves along it and between branches; `abandoned` is what it has left. `DemandChain` says
what the contract holds after each block: how many demands, and which of them the events of a
block name. An entry is known by the block that changed it last, so two states of a demand are
equal only if they are the same state. A demand changes only in a block with an event that
names it: every function of the contract that writes emits one with the `demandId`, and the
views read depend on nothing else.

* `DemandIndex` — `ensureIndex` with `refreshIndex`, `rebuildIndex` and `changedDemandIds`, one
  action for each stretch between two awaits:

| Action | Code |
|---|---|
| `Ask` | `ensureIndex`: join the refresh in flight, be content with a fresh index, or start one |
| `Rebuild`, `Count` | `rebuildIndex` up to its reads |
| `Current`, `Indexed`, `Logs`, `Missing` | `refreshIndex` up to its reads, `Logs` once for each window |
| `Read` | one of the calls of `readEntry`; those of a batch come back in any order |
| `Publish` | the second look at the block, the assignments, and the promise's end |
| `NoSuchBlock`, `Abort` | reads that fail; the budget |
| `MoveHead`, `Expire` | the chain and the clock (external) |

* `MarketBoard` — the browser's board: several `refresh`es (start, button, after each action)
  and one poll (`synchronizeMarketBoard`), each a row of reads that name their block by number,
  with an await between any two. `BeginPoll`, `Applies` and `Conclude` are the conditions under
  which App.tsx takes a result; the second look at a pinned block compares hashes. `DetailLoad`,
  `ListState` and `AnalyticsState` are what the pages make of the board and of a failed read. The
  four views of a demand are one read.

Assumed: a block that was abandoned does not become canonical again (hashes are compared
before and after, so a chain that goes and comes back during one refresh would pass,
`server.ts:271`), and the RPC answers from one chain at a time. The board's saved checkpoint is
assumed to hold while a poll looks (`CheckpointHolds`), except in `market_reorg`.

`chain_snapshots` — a chain of four blocks and a branch, with the second demand created on one
of them only; windows of one block and at most two of them, so that refreshes by one and two
windows and the rebuild at three all happen; a block of the branch with more events than a window
may have; two requests, for joining a refresh needs one to
start it; two refreshes and a poll of the board, with an action of the user; one failing call of
each reader. `SnapshotOfBlock` and `BoardIsOfCursor`: what is published, or shown, is what the
contract held at one block. `BoardTellsTruth`: after an action's readback the board shows its
effect, and "not found" or "no requests yet" is said only of what was read. `NothingGoesBack`:
nothing is replaced by something older unless the chain went back. `ReadersCatchUp`: when chain
and user rest, both come to the head, except that an index before a window with more than
`10 * indexMaxDemands` events stays where it is (`Overloaded`, `server.ts:239`): each refresh fails
there, until the head is so far ahead that the index is rebuilt. Fairness is `WF` of the readers' steps (calls return or time
out), of requests, of polls and of the clock: an index nobody asks for is not refreshed, and
without any board there is no poll.

Finding `market_reorg`: a reorganisation between the two calls of a poll that look at the
checkpoint and pin the target leaves the board with demands of the abandoned branch, with the
cursor moved on, so that no later poll reads them again.

**Proved** (`SnapshotTheorems`), for any tree of blocks, demands, requests, windows and budgets:
`IndexIsSnapshot` states `SnapshotOfBlock`, `VersionsAlwaysTell` `VersionsTell` and `IndexGoesForward`
`GoesForward`. The index is only known to be of a block when it is published; what makes it so is
`IndexInv`, which follows each refresh from step to step. Its argument: only the refresh that is
awaited runs, and none while the index is fresh (`OneRefresh`); an abandoned block never returns,
so that what is read by number is of the pinned block, or else that block is abandoned by now and
the second look at it will say so (`StepSound`); the ids gathered after each window are the demands
that events name between the published block and the window's end (`TouchedUpTo`); and a demand
outside of them is what it was. That versions tell also needs that a pinned block had been the head since
the index went out of date (`seen`, `PinSound`).

For the board, `BoardIsSnapshot`, `PageTellsTruth` and `BoardNeverGoesBack` state `BoardIsOfCursor`,
`BoardTellsTruth` and `BoardGoesForward` under the hypothesis `CheckpointHolds`, which is the
constant that the finding `market_reorg` sets to FALSE: without it they are false. `BoardInv`
adds to the same argument who may still write: of the readers only the latest refresh and an
undisturbed poll (`InUse`, `UseSound`), and these have pinned nothing older than the board shown or
than what an action has confirmed (`NothingOlder`). `ReadersGoForward` puts both together to
`NothingGoesBack`, for an index and a board on one chain.

## 7. The activity history and what is said of it

* `ActivityIndex` is the worker of `activity-index.ts` over the store of `activity-store.ts`, one
  action for each stretch between two awaits, and each transaction of the store within one:

| Action | Code |
|---|---|
| `Poll`, `Begin`, `Head` | the scheduler's call, `getChainId`, the head |
| `Start`, `Cutoff`, `Target` | the anchors: start block, checkpoint and target, looked at again or set |
| `Pin`, `Before`, `GetLogs`, `Headers`, `After`, `Repin` | a page: checkpoint and last block before the logs, the logs, their blocks, both again, `commitPage` |
| `Count`, `StartPin`, `TargetPin` | at the target: `nextDemandId`, the anchors, `complete` |
| `NoSuchBlock`, `Abort` | a block the chain does not have; a call that fails, the budget |
| `StoreThrows` | the store throws, and `setFailure` with it: no timer is set any more |
| `Ask`, `Check`, `CheckFails`, `Answer` | `validateActivityCheckpoint` in a paid request, and the route after it |
| `Restart`, `Operate` | a process that dies and comes back; `activity:ops` on the same file |
| `MoveHead` | the chain (external) |

  `db` is the row of state with the events, `run` what a run of the worker holds in its local
  variables, `guard` what a request does. Events are model values with the block they are in.
  The lease of the worker's scheduler, one run at a time, is the single `run`.
* `MarketInsights` — the snapshot that is added up from the index and the history that is added up
  from the events, over a small market whose demands and events the contract makes. Grouping by
  capability repeats the snapshot and is left out.
* `DemandRanking` — filters, percentiles, score, the comparators of each sort, rank and reasons of
  the paid answer. Entries and query are any at the start; a deadline may be past, and then nothing
remains of its time while dates still order the rows. Fractions are counted in units that
  make the code's rounding exact; the floating point of the code is not modelled. In the same module, of
  the page: search, filter and sort of its list; counts, ring and bars of its analytics.

`activity_history` — a chain of four blocks, of which the last holds an event too many for the
store, and a branch of two that includes one transaction again and ends with a demand too
many; pages of two blocks, one page a run, so that a target takes two runs. One failing call
and one restart or command, for each property is about what a single one may spoil and the
worker starts afresh after it. `HistoryIsTrue`: the store is one chain's history up to the
cursor, and what is served was canonical. `HistoryKept`: nothing is thrown away for less than a
reorganisation. `ComesBack` (`WF(Work)`: the scheduler polls until it has stopped and every call
returns or times out) speaks of the time when failures are used up and the chain rests. It says
nothing of a scheduler whose store has thrown: `startActivityScheduler` ends it until the process
is started again (`activity-index.ts:190-194`), which nothing in the code does by itself.

`api`, the parts of insights, ranking and listing — two demands of one or two keys through two
supporters' calls, six events and a window that may be covered or not (`AnswerAddsUp`: the two
halves agree, and the history is never withheld as a mismatch for something the contract may
emit); three demands that agree or differ in every factor, for a query that limits them in one respect,
and three on the page
(`ListsAreSound`: percentiles count, every sort is a strict total order, who is better in nothing
worse ranks first, reasons agree with the numbers; the list holds what matches; counts add up).
Three are the fewest for transitivity.

**Proved** (`ApiTheorems`). `ListsAlwaysSound` states `ListsAreSound` for any demands, factors, queries,
weights, boards, escrow and sizes of what is shown, together with any catalogue of services
(section 8). It has three parts.

* `RankingTellsTruth`. `RankingInv`: what was scored is all that matches, each with its rounded
  score. The binary search of `percentile` is a recursive function of two bounds; `LowerBoundCounts`
  shows, by a set of the widths for which it holds, that in a sorted list it finds how many are
  smaller (`PercentilesAre`). From that, more of a factor gives no lower percentile, hence no lower
  score, rounded or not (`PercentileBounds`, `ScoreGrows`, `RoundedGrows`). Each
  comparator is a strict order because its first key is and the demand's number decides ties
  (`SortOrders`); so a rank is one more than the demands ahead, and ranks compare as scores do
  (`RanksAre`). The reasons follow from percentiles and ranks (`ReasonsAre`).
* `ListingTellsTruth`. `ListingInv`: what is shown is the list and the analytics of the board as it
  is. `InOrderIs`, on which it rests: in a strict order of a finite set, a member's place is one
  more than the number of those ahead, which is an injection of the members into as many places,
  hence onto them. The counts of the statuses add up to the board because each demand has one
  status (`CountedUpTo`, `CountedAre`), and each of the ring's arcs begins where those before it
  end, so that every demand is in exactly one (`ArcsAre`).
* `ServicesTellTruth`, section 8.

`AnswerAlwaysAddsUp` states `AnswerAddsUp` for any demands, keys, supporters, amounts, windows and
lengths of the history, from `InsightsAssumption`. The answer is read at one time and the demands
change later, so `InsightsInv` speaks of every reading there could be: for any time that is not
over, what is read of the events so far up to that time (`HistoryUpTo`) counts what the demands
show now (`Told`), and of each demand what the contract keeps (`DemandSound`: a builder only while
there is a candidate, a fulfilment not before the creation). `HistoryGrows` says that one event more
is taken last: the reading is a recursive function of the number of events read, and no later event
changes an earlier reading (`SameReading`, by a set of the numbers for which it holds). Each action
then has one lemma: what its events make of the reading (`TakesCreation`, `TakesSupport`,
`TakesProposal`, `TakesRejection`, `TakesFulfilment`, `TakesNothing`) is what the action makes of
what is counted (`OneChanges`, `OneMore`). Candidates are the units of the nonces, of which those
rejected leave one for each demand that has a builder (`BuildersRemain`).

**Proved** (`ActivityTheorems`). `HistoryStaysTrue` states `HistoryIsTrue` and `HistoryIsKept` states
`HistoryKept` for any tree of blocks, any placement of events, any limits, and any order of reads,
failures, crashes and reorganisations; the assumptions are those of `Chain` and `ActivityIndex`.
`ActivityInv` adds what makes the properties inductive. `StoreSound`: every anchor was canonical once,
the checkpoint is not above the target, and the events are those of the checkpoint's chain. `RunSound`,
per step of the worker: each block it has looked at lies on one chain with the block it will look at
last, or one of them has been abandoned (`Below`, `Under`) and the second look will find that out. It
is what makes the order of the looks matter: checkpoint and last block before the logs and after them.
`GuardSound`: the same for a paid request between its check and its answer. That a replaced block is
abandoned follows from a chain having one block at each height (`Replaced`).

## 8. Discovery and services

* `DiscoveryScheduler` — the scheduler with the table it works on, the route that publishes
  metadata and the row the API shows. `Tick` reads the rows that are due and marks the attempts;
  each probe then goes through `Current` (the index is asked), `Generation` (the version of the
  entry is read), `Observe` (the observer's answer, which ages from then on, or the mark that it is
  unavailable), `Current` again, and `Compare`, which stores it. `Failure` may take the place of a
  `Current` or of the store, under the version the entry has by then. A store that throws ends the tick while
  the other probes of it go on (`Promise.all` does not wait for them): `StoreFails`. Times are
  kept as ages up to the limit they are compared with, and `lastAttempt` as an order of the rows, so that the
  clock never stops and liveness needs no bound on it. A result is abstracted to "a result". The
  index is external here: `Reindex` gives an entry another state, or the same again, under
  a new version, which is what `VersionsTell` of section 6 allows. `era` is a ghost that counts
  the real changes, across restarts.
* `ServicesPage` — the list of `GET /v1/services` with its filters, and the page that fetches it:
  a visitor goes from list to service and on while answers are on their way; leaving aborts a
  fetch. An API of another deployment answers, and its 404 is taken as "not found"; the page
  searches among the newest services of the answer only.

`api`, these parts — two services with two possible contents, one probe at a time and room
for one left over by a failure, a refresh of one tick and a stale age of two; two revisions in
all, one new version beyond the first ones, and one failure or restart: the least that lets a
version recur after a restart with another content behind it, a probe outlive its revision,
and one service stay due while the other is probed. The index changes its mind only about the first
service: that the other is left behind is a matter of the queue. `ShownIsCurrent`: what is shown was found out
for this content of this demand. `EveryServiceProbed`: `WF` of ticks, probes and time — an
interval timer, calls under timeouts, and the clock. Lists are checked for any catalogue of three
services with room for two in an answer (`FiltersAgree`: filtering precedes the limit and one
offer must meet the whole filter, `docs/API.md:355`), visits for one catalogue with two
fetches under way (`PageIsOfRoute`).

**Proved** (`ApiTheorems`). `ShownStaysCurrent` states `ShownIsCurrent` for any services, contents,
numbers of probes, times and incidents. `DiscoveryInv`: what was found out under a version of an
entry is of the entry's state if it still has that version (`OfVersion`), for the probes that have
read the version and for the results of this process; a restart, which lets versions
recur, marks all results as old; a failure's mark hides what stood there; and a result is written only
into the row that was probed. The order of the rows by their last attempt is a relation, so
that all of it can be said without sequences; it is proved to be a total order of the rows.

`ServicesTellTruth` states `FiltersAgree` and `PageIsOfRoute`, for any
catalogue, offers, filters, size of an answer and number of fetches. That the list is in order and
leaves out only what is older comes from `InOrderIs` of section 7 (`NewestFirstSorts`). `ServicesInv` says of the page that only the fetch of its route is not
aborted (`FetchesSound`), that what was answered for a route stays so, for no demand is unfulfilled
(`AnswerFits`), and that it says "loading" only with such a fetch under way (`PageSound`).

## 9. Candidate validation

* `PaymentChallenge` — how an endpoint's 402 answer is judged: the first offer that can be compared
  with the demand's price, is on the policy's terms, pays the authorised receiver and is not too
  dear; otherwise which refusal. `ChallengeLoop` is the loop of `evaluateChallenge` with its
  flags; `LoopFindsIt` says that it finds what `Evaluate` defines, for every challenge of up to
  three of nine offers and two receivers.
* `Submission` — an attempt is a builder in a browser: `Authorize` (the wallet signs), `Ask`, the
  service's `Snapshot`, `Inspect`, `Vouch`, `Sign`, then `Receive`, `BeforeBroadcast`, the chain's
  `Accept`, and `ReadBack`. `Fail` and `GiveUp` end either side at any point; `Restart` loses the
  jobs in memory and may change the key. `demand` is the last of a chain of blocks, which
  `Reorganize` shortens. `Reopen`, `Settle`, `SetVerifier` and `Tick` are the world.

`submission` — two builders' attempts at one demand with one slot at the service, two nonces, four
blocks, one reorganisation, two keys, authorizations of two ticks in a time of three. Two attempts
are the fewest for an attestation that outlives another's acceptance. `AcceptedAsAgreed`: what the
contract holds was affordable at the endpoint after the builder authorised it, is accepted before
his authorization ends, though the contract only knows the attestation's longer life, and once for
each nonce. `CapacityReturns` assumes `WF(Serve)`: every call of the service has a timeout.

**Proved** (`SubmissionTheorems`). `AcceptsTheAgreed` states `AcceptedAsAgreed` for any attempts,
slots, keys, nonces, blocks and lifetimes. `SubmissionInv` follows an acceptance back to what was seen:
a tab goes on only with a pass for the nonce and within the life of its own authorization, a job
that has passed no longer changes, and was judged on an offer seen after the authorization was made
(`AttemptSound`); a block of an attempt carries that attempt's nonce (`BlockSound`); nonces never
fall along the chain, and grow with each submission, so that one nonce is accepted once
(`NoncesGrow`); the slot counter is the number of requests at work, which keeps it in its type.
`LoopFindsTheChoice` states `LoopFindsIt` for challenges of any length and any offers: what the flags
say after some offers is so of these (`LoopInv`), and the first match is the least one.

One clock serves browser, service and chain (`ClockSkew` is zero in the instance). A transaction
that reverted, or was mined in a block since abandoned, is not included again. Only this demand is
modelled, and it exists before the chain that may be reorganised begins. A key once replaced does
not return. What the endpoint answers is an input; the syntax of bodies, URLs and keys is left out.

## 10. Wallet

* `TransactionLifecycle` — what one tab does about the transactions of one wallet. An action is
  an action id; `Funding` ones may have to approve the token first, `ReadBack` ones
  (`submitService`) look at the contract before they report success. `Start` is `run` up to the
  prompt of the wallet (lock taken, records of memory and storage looked up); `WalletSends`,
  `HashArrives` and `HashLost` are the wallet's answer; `Receipt` and `NoReceipt` are the end of
  `waitForTransaction`; `Verify` and `Read` are `verifyPendingTransaction` with its look at the
  transaction; `VerifySubmission` and `Refreshed` are the readbacks. `Mine` gives a transaction
  its fate: the wallet may have replaced it by a cancellation, by something else, or by the same
  at another price, under another hash. `StorageFails` uses up the quota (records can then only
  be removed) or takes the storage away; `Reload` starts again from storage.
* `TransactionStorage` — the records' stored form: keys and spellings, records of older builds,
  unreadable ones, and the checks that a record must pass to be verified again. The record of a
  transaction that was replaced gets the other's hash (`Reconsider`). Accounts are
  always spelled by `getAddress`, the contract as the build's configuration has it. An unreadable
  record does not block its action, and is overwritten when the action is sent again.
* `WalletSession` — `run` captures provider, account and generation; `assertWalletSession` asks the
  provider and looks at the session around each answer, several times before each request to
  sign. The user changes wallet and provider at any time, and the page hears of it later.
* `SupportPosition` — the overlapping reads of `loadSupport`, by effect, button and readback. A
  read is two calls that are not pinned to a block, so the position may change between them.
* `CreateDemandChat` — steps, edits, creation, verification, refresh and changes of the wallet.
* `DemandTerms` — the terms from the typed text, or from `POST /v1/demands/prepare`, to the call.

`wallet` — each of these by itself:

* records: one action of each kind, two transactions, one reload: an action sends twice, or two
  actions once each; what must not happen is a second transaction beside the first, and a
  third adds nothing. `ToldTheTruth`: the notice tells what became of the transaction the wallet
  was asked for, never of something that replaced it. `SendsOnlyWhenClear`: while a transaction
  the tab has heard of may still be mined, nothing else is sent for its action (`ERRORS.md:162`).
  A transaction whose hash never came back has no record, by the code's design, and neither has
  one whose record could not be written before a reload (the page warns of that).
* storage: two wallets, the same address on two chains, two builds; beside leftovers one
  transaction, else two, the first of them of the first wallet; the second chain's builds spell in
  one way. `NothingIsAltered` (its half `RestoredAsSaved`): an open transaction has one record with
  what was sent, or the user was warned, and nothing offered for verification is refused.
* session: two accounts in two providers, two changes by the user, plans of one or two requests.
  `SentInOneSession`: nothing is given to the wallet to sign once the page was told of another
  session, even if the first is back (`WALLET_DISCONNECT.md`, "Wallet session transitions").
* position: two identities, of which one's position changes, two reads at a time.
  `SupportIsCurrent`: what buttons go by is of this wallet and demand, and no part of it is older
  than the read begun last.
* chat: two wallets, drafts before and after an edit, two demands; only one wallet uses other
  terms, and demands are created elsewhere only while the chat is at its review. `OffersOnlyOnce`:
  while a creation is unresolved or was confirmed in this session, "Create & Fund" is not offered.
  Going to another wallet and back begins a new session: the outcome of a confirmed creation, or
  one with a failed readback, is forgotten then and the button is there again; the property does
  not reach that. An RPC node is taken to be no older than the receipt it has given.
* terms: numbers with up to four decimals around every limit (`NothingIsAltered`, its half
  `TermsAreKept`): what is meant is what is shown, kept by an edit and sent, to the last unit, and
  the contract accepts what is sent, but for two reasons. The chat does not ask for the
  contract's least escrow. And it accepts a deadline of one hour exactly, as `ERRORS.md:44` says,
  which the contract refuses, for some time passes until the block. Floating point in fractions of
  a day is not modelled; `parsePriceUsageAnswer` and its like are not used by the page.

No liveness is stated: a record whose transaction was replaced, or whose readback can no longer
succeed, stays until the tab is closed. Prompts end with the page, each tab has its own storage,
and mined receipts are not reorganised in these models.

**Proved** (`WalletTheorems`). `SupportStaysCurrent` states `SupportIsCurrent` for any identities,
number of reads and changes. `SupportInv` adds that the read with the latest number, while it
is under way, is of the key and keeps the state at "loading", and that its answers are no older than
the position when it began (`LatestSound`); that is what lets `SettleRead` show it.
`SentInTheSessionItBegan` states `SentInOneSession` for any accounts, providers, plans and number of
changes. `Captured` is the invariant: the page is of the generation that was captured exactly
while it has been told of nothing since, and then of the captured provider and account; the last
answer of `assertWalletSession` compares generations, and only that leads to a prompt.

`TellsTheTruth` states `ToldTheTruth` and `SendsWhenClear` states `SendsOnlyWhenClear` for any actions,
transactions, reloads and failures of the storage. `LifecycleInv`: a record, and a run under way,
names a transaction its action has sent, by the hash the wallet gave or by a replacement's
(`RecordsNamed`, `RunNamed`); a transaction the tab knows of that may still be mined is the one
remembered for its action (`KnownRemembered`), so a run that has come to the prompt, with
nothing remembered, has none beside it; and whatever was told last agrees with the fate
(`OutcomeTrue`).

`OffersOnce` states `OffersOnlyOnce` for any wallets, terms and demands. `ChatInv`: a confirmation in
the session leaves no record and has ended the chat, or leaves a refresh that will end it
(`FundedSound`); and an outcome that ends the chat is of this wallet and names a demand with its
terms that was created after the board was last looked at (`OutcomeSound`, `MadeOf`).

`RecordsSurvive` states `RestoredAsSaved` for any wallets, deployments, spellings, deeds and reloads.
`StorageInv`: what is stored for a wallet, deployment and action is under its own key and alone there
(`ItemsSound`), so that reading gives one record for each (`ItemsReadBack`); every record says what
was sent (`RecordTrue`), which is what the checks before a verification ask; and what was stored of
an open transaction is among the items, what the tab has seen it holds, and for anything else it
has warned (`DueSound`).

`NothingEverAltered` states `NothingIsAltered`, that is `RestoredAsSaved` and, for any numbers, texts,
limits and decimals, `TermsAreKept`. `TermsInv`: the answers that were asked for so far have passed the checks of their fields and are
what is kept of what was typed (`AnswerSound`), and the call was made of all of them or of a
request that was accepted (`SentByChat`, `SentByAgent`). That the shortest form
is there, is the same amount and is its own shortest form (`ShortestIs`, `ShortestKeeps`) rests on
the powers of ten: `TenIs` has the recursive function `Ten` from its definition, by a set of the
exponents up to which it exists.

## 11. What the proofs do not reach

Every safety invariant and action property that the passing runs check is stated by a theorem.

Liveness under fairness is model-checked only: `EveryDemandEnds`,
`NothingIsKept`, `EveryServiceProbed`, `ComesBack`, `ReadersCatchUp`, `CapacityReturns`.

Where a proof needs a minimum (the first live window, the first window of logs, the first offer) it
takes it from the well-foundedness of the naturals, which needs no operator parameter, and where it
needs induction it states it of a set of numbers (`NatSetInduction` of `Totals`). The
assumptions of all theorems are the ASSUMEs of the modules, which the runs evaluate, and
`CheckpointHolds` where a theorem says so.

## 12. Not modelled

* User interface: landing page, documentation pages, navigation, effects and widgets
  (`UnmetLanding.tsx`, `MagicRings.tsx`, `components/`), layout that decides nothing about the market.
* `shared/abi.ts` and generated data; configuration and its syntax; `validation-codec` and
  `validation-config` beyond the fields that decisions read.
* Deployment, scripts, `payment-debug` and documents: no state of their own.
* What an x402 offer or a service's metadata must contain to be well formed, in the observer:
  its answer is any of the possible results.
* Insights by capability, and counts of discovery in the paid answer.
* Blocks that leave the chain and return within one refresh (section 6).
