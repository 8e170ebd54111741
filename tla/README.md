# Specifications of the Jito flash searcher

TLA+ models of the bot in `src/`, model-checked with TLC and, where the statement
holds for every size, proved with TLAPS. Paths below are relative to the
repository's `src/` directory unless they begin with another one.

The bot watches the pending transactions of Jito's block engines, simulates
them, and tries to earn on the price change that a large swap leaves behind. It
has no tests. All of it runs in one Node.js process: one event loop, a pool of
worker threads, and five remote services (RPC node, geyser, block engines, the
Jupiter API, the chain). An error that nobody catches ends that process, and
Docker starts it again (`--restart=on-failure`) with nothing kept but the log.

There are two entry points over the same first half:

```
                                     index.ts   ─ handleTrade ─ FlashBrain ─ gate ─ send ─ log
mempool ─ preSimulationFilter ─ simulate ─ postSimulateFilter ─┤
                                     bot.ts     ─ calculateArb ─ buildBundle ─ sendBundle ─ log
                                                      │
                                 markets/index.ts ─ worker-pool.ts ─ amm-calc-worker.ts (threads)
                                                      │
                                         geyser accounts, RPC reads
```

## Inventory

| Component | Source | State | Operations | What makes it correct | Status |
|---|---|---|---|---|---|
| Worker pool | `worker-pool.ts` | shared, high-priority and per-worker queues; `ready` flag, one-shot listeners and mailboxes of each thread | `runTask`, `runTaskOnAllWorkers`, `processTask`, online / message / error / exit / timeout handlers | a reply resolves the promise of its own task; a worker runs one task; nothing idles beside work; neither queue starves | modelled, safety and refinement proved |
| Account feed | `markets/index.ts` 49-178, `clients/geyser.ts`, `markets/amm-calc-worker.ts` 53-157 | sequence numbers; account infos, pools and `ammIsInitialized` of each thread | boot, geyser updates, re-seed after a failed update | threads are replicas; only complete pools are quoted; updates never go back by themselves | modelled, safety proved |
| Transaction builder | `flash_brain.ts` | none | quotes, profit, tip, instruction list | costs are covered, the loan is repaid | modelled and proved |
| Main searcher | `index.ts` | `bundlesInTransit`, timers, landing checks, rows | `handleTrade`, `isBundleSafe`, bundle results, `processCompletedTrade` | nothing unsafe is sent; every bundle is logged once, with what was heard of it | modelled, safety proved |
| Stream buffers | `utils.ts` | queue and waiting resolvers; the promises of a race | `put`, `get`, `enqueue`, `dequeue`, the consuming loops, `fuseGenerators` | nothing is lost below the mark, duplicated or overtaken; no lost wake-up | modelled and proved |
| RPC client | `clients/rpc.ts` | tokens, queue, batches in flight | `fetch`, refill, coalescing, answers | order, one answer for each request, its own; the rate | modelled, safety proved |
| Mempool | `mempool.ts`, `fuseGenerators` | the pending promise of each block engine | race, re-arm | updates in order, once, and fair | modelled and proved |
| Filter before simulation | `pre-simulation-filter.ts` | none; awaits lookup tables | skip, filter, throw | it survives what it warns of | modelled |
| Simulation stage | `simulation.ts` | counter, result queue, event | `sendSimulations`, `simulate` | counter exact, no lost wake-up, each transaction once | modelled, safety proved |
| Filter after simulation | `post-simulation-filter.ts` | none | vault differences to trades | direction and size of a trade | modelled, the direction proved |
| Lookup tables | `lookup-table-provider.ts`, program client of `clients/geyser.ts`, `pre-simulation-filter.ts` 34-57 | cache and its two indices | stream updates, reads, choice of tables | index covers the cache; chosen tables help | modelled and proved |
| Arbitrage search | `calculate-arb.ts`, `markets/market-graph.ts`, `markets/index.ts` 180-278 | graph, route cache, routes and best quotes of a search | build routes, estimate and quote step by step, choose | the trade is backrun; routes are circles, quotes stay with their routes, the best one is yielded | modelled, safety proved but for the estimate |
| Legacy bundle builder | `build-bundle.ts` | none that matters | profit conversion, tip, least output, main transaction | what lands repays the loan and leaves tip and margin | modelled and proved |
| Legacy bundle sender | `send-bundle.ts` | `bundlesInTransit`, timers, landing checks, rows | sends that nobody awaits, results, timer, check | every bundle is logged once, faithfully | modelled, safety proved |
| Stages | `bot.ts`, `index.ts` 235-241 | the generators | pull | items are lost at the buffers only; no back-pressure | modelled, safety proved |
| AMM arithmetic | `markets/amm-calc-worker.ts` 158-298 | | quotes by the SDKs of the exchanges | an estimate is no more than the market pays | partly: the estimate |
| Pool lists, configuration, logging | `markets/*/index.ts`, `config.ts`, `logger.ts` | constants after start-up | none | | not modelled |

What is hard to test in this code, at its line and with the property that
covers it, is listed under `hazards` in `PROJECT.json`. The recurring themes:

* handlers interleave at every `await`, and state read before one is used after it;
* replies are matched by position (the one listener of a worker, the index of a
  route, the id inside a batch), so one step too many or too few gives somebody
  else's answer;
* timers race late answers;
* streams repeat and reorder, and reads over RPC overtake them;
* wake-ups (events, resolvers) can be lost;
* amounts in different units are compared, and integer division rounds;
* an error in one stage is an unhandled rejection and ends all of them.

## Modules

Every action is one turn of the event loop (from one `await` or event to the
next), with everything that turn changes; data is reduced to what the
properties tell apart. `PROJECT.json` maps each definition to its lines.

How they are put together: `Pipeline` extends `Simulator` and composes everything
from the block engines to the trades; `LegacyPipeline` extends `HighWaterMark` and
`BuildBundle` and composes everything from the trades to the log of `bot.ts`;
`FlashSearcher` extends `FlashBrain` and does so for `index.ts`; `ArbSearch` extends
`ArbRoutes`, which extends `PostFilter`; `WorkerPool` implements `TaskService`, and
`HighWaterMark` (alone, and inside `LegacyPipeline`) implements `LossyQueue`.

**`TaskService`, `WorkerPool`** (`MCWorkerPool`, `WorkerPoolProofs`). `TaskService`
is what callers may rely on: a task is accepted, taken by a free worker at
most once, and its promise ends as resolved with its own result, rejected or
timed out. `WorkerPool` has the queues, `listeners[w]` (the `once('message')`
listeners), `inbox[w]` and `replies[w]` (the message channel), and `agenda`: the
calls of `processTask` that a handler still has to make in its turn. `EventLoop`
says that the agenda is empty; only then does the next handler run. Task names
are reused when their promise has ended, so calls may go on for ever.

**`AccountFeed`** (`MCAccountFeed`, `AccountFeedProofs`). The content of an account is
a version; `Null` means that it does not exist. `queue[w]` joins the pool's queue for
worker `w` and its channel, which the worker pool keeps in order. Geyser may deliver
any version since the subscription, repeated and out of order. `Rejected` says on
which contents `amm.update` throws, `Closed` which writes close an account: geyser then
delivers an empty account, a read over RPC finds none, and the re-seed of a
closed account (`ReseedThrows`) ends the process.

**`FlashBrain`, `FlashSearcher`** (`MCFlashSearcher`, `FlashSearcherProofs`). `FlashBrain`
has the arithmetic and the instruction list, `FlashSearcher` is `handleTrade` split
at its awaits, with the result stream, the timers and the landing checks around
it. The block engine names a bundle by its content, so a bundle sent twice has one
id. `heard` is a history variable: the results received since the record was made.

**`LossyQueue`, `HighWaterMark`** (proofs at the head of `LegacyPipelineProofs`). `HighWaterMark`
is `dropBeyondHighWaterMark` over `AsyncQueue` or `prioritize` over
`AsyncPriorityQueue` (`prioritized` says which), with the promise between a resolved `get` and its
continuation. The comparator that is passed to `prioritize` (calculate-arb.ts, with its normalisation
of the base tokens) is the constant `Rank`. `LossyQueue` is what both promise: as
it takes, passes on or loses the next item in one step, an item is never in two
places nor in none.

**`Simulator`, `Pipeline`** (`MCPipeline`, `PipelineProofs`). In `Simulator`
`simulating` is the set of calls in flight; `generator` says whether `simulate` holds
an item, waits for the event, or was woken and has not run yet. In `Pipeline` an update is
a pair of block engine and number, a transaction a triple; `settled` and `winner` are the promises of
`fuseGenerators` (`winner` is what `Promise.race` has resolved with, and when the
next race starts over settled promises the first of the list wins); `mempoolUpdates` and `simulations` are the two lossy
buffers, in one step where `HighWaterMark` has two; `filtered` is what `Simulator` received.
The lookup tables, the accounts of interest and the outcome of a simulation are choices. Either filter may
throw, which ends the process (`FilterThrows`: the error that `LookupTables` derives; `PostFilterThrows`:
a market of which only one vault was touched). Block engines are assumed never to end their
stream: `fuseGenerators` does not look at `done`, and would yield `undefined`.

**`PostFilter`, `ArbRoutes`, `ArbSearch`** (`MCArbSearch`, `ArbSearchProofs`). `PostFilter` reads the trade off the
balances of a market's vaults. `ArbRoutes` has the market graph, the
routes of a trade, and `Circles`, a definition of what they should be that does not use
the graph. `ArbSearch` is one search after another: all routes are quoted at one
size, answers come in any order, time out or fail, and the loop that judges them
(`Backwards`, from the last index to the first) removes routes by index.
`shuffle` is left out: every order of answers is possible anyway.
A quote uses the whole amount it was asked for, and is any of `Gains`; only the output on the market of the trade,
which `calculateRoute` estimates by its own arithmetic, is a formula (the factor 10000 in it cancels).
`answers` and `simulated` are history variables; they
and the variables of a search are reset when the search yields, as the generator's
locals go out of scope.

**`BuildBundle`, `LegacyPipeline`** (`MCLegacyPipeline`, `LegacyPipelineProofs`). `BuildBundle` is pure: whether an idea is
worth sending, tip, buffer, least output, the main transaction as a list of
instructions, and `Execution`, which runs that list as the chain would, all of it or nothing, for a
given output of the route. `LegacyPipeline` is the priority buffer, the search as a choice among `Ideas`, the
builder with its awaited quotes (`stage`), and any number of bundles on their way at once: `sends[n].answer`
is what `sendBundle` has heard, then comes the timer, then the landing check (`checks[n]`) and the row. A
USDC bundle may be byte for byte one that was sent before and then has its id. `heard` is a history variable as in `FlashSearcher`.
An error ends the process and with it the records, the timers and the rows not yet written.

**`RpcLimiter`** (`RpcLimiterProofs`). Requests are numbered in call order. Time is
counted in refill intervals; `due` intervals have passed and are not yet in the bucket. `allowance`
is the bucket that a limiter of HTTP requests would have, a history variable.

**`LookupTables`** (`MCLookupTables`, `LookupTablesProofs`). A table is only extended, so its content is its
version; `Contents` gives the addresses. Two callers read over RPC: the module, when it
is loaded, and the filter. The filter resolves the tables of a transaction one
after the other. Deactivated tables are left out.

Assumptions shared by the models: the process ends when a promise that
nobody handles rejects; JavaScript runs a turn without interruption; messages to and
from a worker thread arrive once and in order. What happens after the end is
the same program again: nothing is read back, so a restart is the initial state.

## Runs and what they show

| Run | Bounds | Shows |
|---|---|---|
| `pool` | 1 worker, 2 calls, 2 broadcasts (9,971 states) | `ResultOfOwnTask`, `OneTaskPerWorker`, `WorkConserving`, `BroadcastServed`, `PriorityServed`; the pool implements `TaskService` |
| `account_feed` | 2 workers, 2 pools that share an account, 3 versions, one rejected, one closed (204,066) | `ReplicasAgree`, `InitializedIsComplete`, `QuotesFollowAccounts`, `OnlyReseedGoesBack`, `UpdatesReachWorkers` |
| `searcher` | 2 sends of 2 bundles, 1 result; 3 sizes and 4 quoted amounts around the limits (395,725) | `CostsCovered`, `LoanRepaid`, `NoRecordForgotten`, `RowIsFaithful`, `EveryTradeLogged` |
| `searcher_tip` | 1 send, the same amounts | violation of `TipIsShareOfProfitInSol` |
| `legacy` | both buffers, 3 trades, mark 2; 3 ideas and 2 prices around the limit, 1 result (264,488) | `NoneWaitsBesideAnItem`, `LandingLeavesTheMargin`, `QuotedPriceKeepsItsShare`, `EveryTimerFindsItsTrade`, `LegacyRowIsFaithful`, `EveryBundleLogged`; the buffer implements `LossyQueue` |
| `legacy_docker` | 1 trade, the same ideas, TIP_PERCENT of `.env.docker.example` | violation of `QuotedPricePays` |
| `rpc` | 5 requests, 2 tokens, batches of 3 (16,608) | `NoOvertaking`, `EachRequestOnce`, `OwnAnswer`, `EveryRequestSettled` |
| `rpc_rate` | 4 requests, 2 tokens, batches of 2 | violation of `RateLimited` |
| `pipeline` | 3 block engines, 4 transactions in 4 updates (one empty, one of two), marks 1, limit 1, up to 2 trades each (91,108) | `InOrderOnce`, `PendingIsInFlight`, `NoLostWakeup`, `OnlyEarlierOvertake`, `NoBackPressure` |
| `lut_cache` | 3 overlapping tables, 2 versions, 4 addresses (91,557) | `IndexCoversCache`, `SelectionIsUseful`, `GoesBackOnlyByReads` |
| `lut_filter` | the same | violation of `FilterSurvives` |
| `arb_search` | 5 markets, 3 mints, every trade after every other, 3 routes, 2 steps, 3 gains (316,448) | `RoutesAreTheCircles`, `QuotesKeepTheirRoute`, `EstimatesAreCautious` (with `BackrunsUndoTheTrade`), `YieldsTheBest`, `EverySearchEnds` |

Why the bounds are enough: each makes the interesting case happen. Two calls put a cancelled task
before a live one in a shared queue, and keep that queue from ever running empty; two broadcasts do so to the
worker's own queue. The pool is checked with one worker, because its liveness with two is too much for TLC (five
strongly fair actions for each worker): what depends on several workers, that none stands idle while
another is busy and that no two take one task, is proved for any number of them (`NoWorkerIdles`, `PoolServesTasks`), and the
safety properties alone can be checked with `Size = 2` under `Spec`. A second
version is what makes an update old, a third what lets the read after a failed
update be newer than an update that is still to come; a pool with two accounts is what makes it
incomplete. Two sends of one bundle let a record be replaced and its replacement
be deleted; in `legacy` a third trade is lost at the mark or overtakes a second one. Batches are both fuller and
emptier than their limit. Three block engines are the least of which one can starve: with two, the
one listed second is overtaken once at most. Marks and a limit of one make every buffer of the chain lose something.
Three routes are the least for which removing one shifts
two others, so that a loop in the wrong direction misjudges; two steps are the least
for which a route can gain and then lose; and five markets give each trade three
circles, of two and of three markets. The amounts of
`searcher` and `legacy` lie on both sides of each limit by one unit, or leave a remainder at every division.

The bounds themselves are `MaxVersion`, `MaxSends`, `MaxResults`, `MaxArrivals`,
`MaxRequests`, `MaxTxns`, `MaxTrades`, and the sets of updates, tasks, tables, routes, ideas and
amounts; none of them is in the code. `WorkerPool` and `ArbSearch` need no bound
on how long they run. Symmetry is not used.

Deadlock is checked in every run: where the program may stop or wait for ever (an ended process, a
silent chain, no more trades) the specification says so with a step that changes nothing.

Each property is also checked against a mutant of the code it is about (listed in
`PROJECT.json`): a dropped guard, a swapped order, a missing reset. The mutated
operators are defined next to the ones they replace and marked as such. Type
invariants and `EachTxnOnce` are not in the runs; the types are theorems.

What some of the properties say is less than one might hope, because the code does less:

* `OnlyEarlierOvertake`: with two block engines, as in `.env.example`, none starves; a third may, as
  long as the first two are busy, because the race prefers the sources listed first.
* `OnlyReseedGoesBack`: after a failed update an account is read again, and the answer can be older than
  what geyser delivered meanwhile, or newer than what it delivers next; until the account changes again the workers may hold the older one.
* `LandingLeavesTheMargin`: at the least output the transaction keeps tip and profit buffer, not its fees: the
  buffer of 3 % of the profit may be smaller than 15,000 lamports. `QuotedPriceKeepsItsShare` is about
  the price the route was quoted at: of the minimum profit the part that is not tipped is left. Whether that part pays
  the fees depends on TIP_PERCENT and MIN_TIP_LAMPORTS, which nothing in the code relates (see `legacy_docker` below).
* `EstimatesAreCautious` speaks of amounts up to what the trade moved. When the hop before delivers
  more than that, the linear estimate exceeds the curve of the market; and when the trade moved a handful of base units, so that
  its fee rounds to none, the estimate can exceed what is paid as well. The run uses balances at which all divisions by the fee are exact.
* `EveryTimerFindsItsTrade`, `LegacyRowIsFaithful`, `RowIsFaithful`: bundles that were sent once. A bundle
  sent twice under one id shares a record; in `send-bundle.ts` the second timer may find none, which
  ends the process (line 57), in `index.ts` it is skipped.
* `RowIsFaithful`, `LegacyRowIsFaithful`: the results from the answer to the row. Before the await of `sendBundle` returns there is no
  record to note a result in (`index.ts`, line 376; `send-bundle.ts`, line 188), and what arrives then is ignored.
* `NoBackPressure`: an item that a stage drops has left it. That the simulator would drop everything if its counter leaked is
  not excluded by it but by `PendingIsInFlight`.
* `EveryBundleLogged`, `EveryTradeLogged`: while the process lives. Records are in memory only and rows go through a
  stream, so that a crash loses the bundles of the last 30 seconds; there is no recovery.

## Fairness

* `WorkerPool`: threads run (weak); the event loop polls every source again and
  again although other handlers keep coming, and a fair coin comes up both ways for
  each worker (strong). Errors and exits owe nothing.
* `AccountFeed`: each worker handles its messages (weak), which is what `pool`
  shows of the pool. Geyser owes nothing: `UpdatesReachWorkers` speaks of what it delivered.
* `FlashSearcher`, `LegacyPipeline`: timers fire, and `getTransaction` is answered or fails (weak). In `LegacyPipeline`
  also: the generators ask, continue and leave each stage (a search ends by `ArbSearch!EverySearchEnds`), and the block
  engine answers each bundle (weak). Weak fairness of `Taken` says no more than that an answer comes: `Failed` disables it.
* `Pipeline`: Node runs a generator that is ready, simulations are answered or fail (weak). Nothing is assumed of
  block engines, nor of what comes after the second buffer, which is the point of `NoBackPressure`.
* `RpcLimiter`: time passes, `setInterval` fires, and every batch gets some
  answer or error (weak, for each request).
* `ArbSearch`: the event loop runs, that is, one of these happens: time passes, a
  timeout fires, the generator is resumed (weak, of all three together); workers owe nothing.

## Where the code differs from what it says

* `searcher_tip`: the header of `src/index.ts` (line 10) promises a tip of TIP_PERCENT
  of the gross profit in SOL. `FlashBrain` takes the percentage of base units of the
  borrowed mint and uses them as lamports. For a USDC loan the tip is a share
  of micro-dollars. As long as a micro-dollar is worth at least a lamport, this errs on the safe side, which
  is what `CostsCovered` shows; a USDC arbitrage tips too little, and the minimum
  profit it is held to is too high.
* `rpc_rate`: `.env.example` (line 20) calls RPC_REQUESTS_PER_SECOND a rate
  limit for RPC requests. A refill posts the whole queue in batches that take no token.
* `legacy_docker`: the project's README (line 20) says that a bundle whose profit does not cover loan fee, tip and transaction
  fees is dropped. The legacy builder compares the profit with `minProfit` = MIN_TIP_LAMPORTS + 15,000 (`build-bundle.ts`,
  lines 70 and 174), but tips TIP_PERCENT of it (line 191), without a floor. The Docker image runs this pipeline (`Dockerfile`, line 12), and
  `.env.docker.example` (line 12) sets 50 % and leaves the minimum at 10,000: a profit of 25,000 lamports passes, 12,500 are tipped, and the 12,500 left
  do not pay 15,000. With the 25 % of `.env.example` the least profit leaves 18,750, so that what
  passes does pay.
* `lut_filter`: `pre-simulation-filter.ts` (line 52) warns of an address that is not in a
  lookup table, and line 57 then uses the result that was never assigned. Any transaction with a table
  that is unknown, or newer than the cache, ends the process.

## Proofs

The theorems hold for every value of the constants that satisfies the named
ASSUMEs (sets of workers and tasks that do not overlap, natural numbers where the code has
them, amounts that are natural, `UsdcValue >= 1`). TLC evaluates those assumptions in the runs. Four of them say more:

* `FinitenessAssumption` (`LookupTables`), `MarketsAssumption` (`ArbSearch`): there are finitely many tables, addresses
  and markets, so that what is counted has a number.
* `LimitsAssumption` (`LookupTables`): a table must add at least 2 addresses; the code's constant is 2 (line 88). With 1, the loop's
  break at `remaining.size <= 1` could leave out a table that would help.
* `InterestAssumption` (`ArbSearch`): a trade is on a market with a base mint, as only the vaults of those
  are in `tokenAccountsOfInterest` (markets/index.ts, lines 180-198).
* `NoValuesAssumption` (`ArbSearch`): a quote that is not there is none of the quotes; likewise for the idea.

Every safety invariant and action property that a passing run checks is a theorem, except `EstimatesAreCautious`, of
which one half is (`BackrunsUndoTheTrade`).

* **Worker pool.** `processTask` does not look at `ready`, so `OneTaskPerWorker` is
  not inductive. `DispatchInv` adds why no worker gets a second task: a
  worker is vacant or `Busy` with one task whose message is in one of two
  channels; before the pool is initialised nothing is queued; and
  if one turn calls `processTask` twice for a worker (the online
  handler and the end of `initialize`) then all queues are empty. One lemma shows
  what `processTask` does to it, and every handler reduces to that lemma.
  `ResultsGoToTheirTask` and `WorkersRunOneTask` follow. `NoWorkerIdles` needs `WorkInv`, for
  `WorkConserving` holds only between handlers: within one, a worker may stand beside work it is going to be called for, and if
  that work is shared it is one task, just queued at the end of one queue, and the call is the only one left. `PoolServesTasks` is the refinement of `TaskService`:
  each step is accepting, taking or ending one task, or none of these. It needs `PlaceInv`: a task is
  queued in one place and not while a worker has it, and it is cancelled exactly when nobody waits for it any more, without which a task would run twice, or after its promise had ended.
* **Account feed.** `TypeCorrect`, and `QuotesComplete`: `ammIsInitialized` is set only after an
  update with data for all accounts, and no later message takes the data away, though accounts be closed.
  `QuotesAreCurrent` needs `PoolsFirst` (in every queue the pools come before the accounts). `NeverBackWithoutReread` needs three: `BootInv` (each account is fetched once, and
  geyser is silent until the subscription), `CallbackInv` (an update is in a worker's queue once and its callback waits for that worker) and
  `AgeInv` (what a worker holds, then what is queued for it, then the newest version delivered, are in order, unless the account was read again).
  `WorkersAreReplicas` rests on `ReplicaInv`: there is one log of messages and one history of states, and each worker is somewhere along
  it with the rest of the log in its queue. As its witnesses grow without bound TLC cannot evaluate it; the proof gives them step by step.
* **Searcher.** `NothingSentInSimulationMode` covers the setting that the runs leave
  out. `SearcherInv` = types, `StageInv` (a trade beyond the profit check
  is worth building until its handler ends) and `TrackInv` (timers and checks
  belong to sends). `CostsAreCovered` rests on the lemma `ProfitInValue`: if a gross profit
  exceeds fee, tip and transaction fees as numbers, it does so in value when a base unit of USDC is worth at least a lamport.
  `LoansAreRepaid` rests on `Layout`, which locates the borrow and
  repay instructions for any number of set-up and compute budget instructions.
  `RecordsAreNotForgotten` is inductive with `TrackInv`. `RowsAreFaithful` needs `BooksInv` (what records, checks, timers and rows
  can be about: bundles whose `sendBundle` is over, under their own id, each with one timer) and `FaithInv` (a bundle that was sent once has its record in the map, equal
  to what was heard, until its one row is written).
* **Buffers.** `QueueInv` is the types and `NoneWaitsBesideAnItem`; `Refinement`
  maps the queue and the delivered and resolved items to `LossyQueue`, each step to one step or a stutter.
  `StagesLoseNoWakeup` and `StagesKeepTheBuffer` carry both over to `LegacyPipeline`, each step of
  which is one of the buffer or leaves it alone.
* **Legacy pipeline.** `BuilderInv` says that beyond the profit check the profit in lamports is at least `minProfit`, and
  that for SOL it is the expected profit. `BundlesLeaveTheMargin` then follows by running the instructions, under
  the assumption TIP_PERCENT + 3 <= 100: otherwise the least output exceeds the quoted one and nothing lands.
  `QuotedPricesKeepTheirShare` needs the same assumption and nothing about the minimum profit: at the quoted output the tip is all that is taken of the profit (`QuotedGain`),
  and a share of a larger profit is no smaller (`TipLeavesItsShare`). `TrackInv` is the inductive invariant of the log: each bundle
  that was sent once is in one phase (unsent or awaiting its answer; failed with its row; waiting, with one timer or check and its record
  in the map and all it heard in the record; logged, with nothing left), timers are distinct, and what
  the map or a check has under an id has that id (`SameId`). `TimersFindTheirTrades` and `LegacyRowsAreFaithful` follow.
* **Chain of stages.** `RaceInv`: the winner of the race is settled, and no source is settled without
  one; `OvertakenByEarlierOnly` follows. `CounterIsExactInTheChain` and `WakeupsAreNotLostInTheChain` carry `SimulatorInv` over. `InOrderAndOnce` needs `OrderInv`:
  what is in the buffer, in the filter, passed by and filtered is exactly what was fused, and along these the
  transactions of each source are in order (`InLine`), so that the next one handed on is beyond all.
* **RPC client.** `LimiterInv`; the arithmetic lemma `EnoughBatches` says that the
  batches of a refill empty the queue, hence `QueuedForTokens`, hence order. `EveryRequestHasOnePlace` needs `PlacesInv`: a request is in
  the queue, or in one post and once, or settled. The slices a refill cuts off the queue do not overlap and cover it.
* **Simulation stage.** `SimulatorInv` adds to the properties that `simulating` is
  finite and holds only received transactions, so that cardinalities count.

* **Lookup tables.** `LookupInv` is the types and which table each caller reads. `IndexIsComplete` and `OnlyReadsGoBack` follow by the
  one way the cache changes, `updateCache`. `SelectionHelps` is about the loop of
  `computeIdealLookupTablesForAddresses`: with `ChoiceInv` (the addresses kept for a table are those of its version, and
  the index covers them) what a table still matches is exactly what it adds, and `GreedyInv` says after each table tried: those chosen
  each added enough, what remains is what they do not cover, and of the others tried none adds enough, unless the limit is reached.
* **Arbitrage search.** `SearchInv` is inductive: `CacheInv` (what is cached for a pair of mints is what the graph gives,
  whichever way round it was asked first), `Ranges`, `StepInv` (as many quotes as routes, and an answer at index i is of route i), best quotes are
  answers with a profit, and `NoneMissed` (an answer that is not beaten by the best quote of its route is still among the quotes of the step). The
  backward loop keeps, while it is at index n, the first n routes where they were (`LoopInv`), which is why removing by
  index is safe in that direction. `QuotesStay` and `TheBestIsYielded` follow. `CirclesAreAsked` compares two descriptions of the
  routes, hop by hop; `TheTradeIsUndone` goes from the vault balances through the direction of the trade to the hop.

The loops of `LookupTables` and `ArbSearch` are recursive functions. That they exist, and that
their invariant holds after every iteration, is proved from the well-foundedness of the natural numbers: the
least iteration at which it failed would have a predecessor at which it holds.

The inductive invariants were checked by TLC on the instances of the runs before they were proved, but for `ReplicaInv`.

Only model-checked:

* liveness under fairness, which is out of the prover's reach: `BroadcastServed`, `PriorityServed`,
  `UpdatesReachWorkers`, `EveryTradeLogged`, `EveryBundleLogged`, `EveryRequestSettled`, `NoBackPressure`, `EverySearchEnds`;
* the estimate in `EstimatesAreCautious`: it is a statement about a constant-product curve with three roundings and holds for
  amounts large enough that rounding does not matter; there is no bound in the code to take for "large enough".

## Plan

All components of the inventory that are modelled have their safety proved. What could be added, all of it proofs:

1. The estimate of `EstimatesAreCautious` up to the rounding of the fees, for markets with a constant product.
2. The steps on which liveness rests as action properties: that the queue in front of a waiting task gets shorter with each
   call that serves it (`WorkerPool`), and that each search has fewer steps or routes left (`ArbSearch`).
3. `TipIsShareOfProfitInSol` for SOL, where it holds.

## Not modelled

* The arithmetic of the exchanges' SDKs (`calculateHop`, `calculateQuote`, swap legs): packages outside the
  repository. Quotes are any of a set; what is computed from them is modelled.
* Pool lists (`markets/*/index.ts`): JSON files read once; their result is the constant `Market`.
* Configuration, logging and the columns of `trades.csv`: constants and output.
* Serialisation between threads (`markets/utils.ts`) beyond the null that it dereferences: one-to-one copies.
* Set-up instructions, keys, blockhashes and tables of the legacy transactions; accounts and data of instructions.
* A batch of which the server leaves an item unanswered, contrary to JSON-RPC: its request would stay pending for ever.
* The gap between the initial fetch of the accounts and the start of their subscription: what changes in it is seen at the next change only.
  `UpdatesReachWorkers` therefore speaks of the updates delivered.
* `analyze/`: a notebook over the log.
