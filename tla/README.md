# Verification of SG / Invest

TLA+ models of the parts of this repository where the order of events decides
whether the result is right, with the TLC configurations that check them and
TLAPS proofs of their main invariants. Line numbers below are of the source in
this repository; `PROJECT.json` maps every definition to its lines.

## 1. The system

SG / Invest is two programs that meet in files.

*The pipeline* (Python) keeps a canonical store of prices, dividends, corporate
actions and FX rates in Parquet files, refreshes it from a data provider, and
builds *packs*: one JSON file per security and year, and a manifest that lists
them. *The site* (JavaScript) loads the manifest and the packs and calculates in
a Web Worker; it has no server side.

    provider --> GuardedProvider --> update_incremental --> store --> packs
                 (threads, budget)   (one run at a time)    (files)   (files)
                                                                         |
    panels <-- engine client <== messages ==> worker <-- pack loader <---+
    (app.js)   (promises)                     (timers)   (fetch, cache)

### Components

| Component | State | Operations | What is hard | What makes it correct |
|---|---|---|---|---|
| Engine request layer: `frontend/engine/engine-client.js`, `protocol.js`, `worker.js` | pending promises, tracker records, two message queues, the host's active and cancelled maps, timers | request, cancel, supersede, forceTerminate; the worker's message handler and timers | two threads, content-derived ids that come back, cancels that cross answers, worker death | every pending request is answered, once, with its own answer |
| Result views: `frontend/app.js` | per view: phase, request, run sequence; buttons, error line, last request ids | edit, pick a card, change mode, submit, complete, fail, restore the ledger, apply the address | answers after edits, several awaits per run, two modes in one form | what is shown belongs to what is on the form |
| Browser pack loader: `pack-loader.js` | manifest promise, IndexedDB copy, packs on their way | load manifest, load and join the packs of a range | several loaders and tabs, one cache key with a lifetime, sites replaced meanwhile | inputs have every year, the manifest is never older than its time to live |
| Ledger store: `ledger-store.js` and the ledger of `app.js` | one IndexedDB record, the rows on the page | restore, edit, save, clear, import | awaits nobody serialises, blocked upgrades of a shared database | what is shown is what is saved |
| Incremental update: `scripts/update_incremental.py`, `data/ingestion.py` | windows, coverage report, action checkpoints, update summary | the stages of one run | killed at any write, failed queries, restated and late observations | no observation is lost; a complete run means an up-to-date store |
| Canonical store: `data/storage.py` | Parquet partitions | upsert per dataset | one batch is several files | rows are merged by key, cursors are read off them |
| Guarded provider: `data/providers/guarded.py` | lock, circuit, counters, clock | `_call` by a pool of threads | pacing and retries of several threads, budgets | one call at a time, paced, none after the circuit opens |
| Yahoo provider: `data/providers/yahoo.py` | event cache | history queries | cache bounded and shared by three datasets | one history per listing |
| Price backfill: `data/backfill.py` | state file, store | scan, reconcile, fetch batches, record | crash between Parquet and state, catalog and calendar that move | attempts bounded, nothing unknown skipped, nothing stored fetched again |
| Dividend coverage: `data/dividend_backfill.py`, `dividend_quality.py` | archive, coverage report | select, query on a pool, write, audit | the report is status and checkpoint at once | the checkpoint skips nothing, a status is honest |
| FX history backfill: `scripts/backfill_fx_history.py` | year partitions of rates | three sources in order, normalise, write | a rerun measures against its own rows | no seam in a series, paging ends |
| Data packs and Pages pruning: `data/packs.py`, `scripts/build_data_packs.py`, `prune_packs_for_pages.py` | packs, manifest | full build, scoped merge, prune, verify | killed half way, edges of years, names compared instead of contents | a consistent publication is whole, full support can be computed |
| Universe catalog: `universe/catalog.py`, `scripts/refresh_universe.py`, `remove_excluded_listings.py` | catalog, every canonical file | load, merge, refresh, remove | one removal is many files | a removed listing stays out |
| Calculations: `analysis.py`, `calculations/`, `engine/*.js` | the timeline of one request | purchase, regular investment, ledger | a list that grows while it is walked, borders of periods | agreement with the oracles of `falsification/oracle.py` |
| Price quality, migrations, static build, local server, workflows, site shell | files | batch jobs | little that interleaves | see section 7 |

Interaction: the panels call the engine client (promises), which exchanges
messages with the worker, and the pack loader, which shares one IndexedDB
database with the ledger. An update run calls the guarded provider from its main
thread and from pools, writes the store, and starts the pack build as a
subprocess. The backfills, the removal and the pack scripts are started by hand,
one at a time, over the same files. Runs of the pipeline meet the site only
through published packs and manifest.

The hazards that these models are aimed at are listed with their lines in
`PROJECT.json`; those without a property carry the reason.

## 2. Plan

Done, in this order:

1. **Engine request layer**, proved: `EngineProtocol`, `RequestTracker`,
   `WorkerHost`, composed by `EngineClient`, refining `EngineService`.
2. **Incremental update**, proved: `MarketStore`, `IncrementalUpdate`.
3. **Guarded provider**, proved: `EventCache`, `GuardedProvider`.
4. **Result views**, proved: `ResultViews` over `EngineService`.
5. **Scripts that are killed and rerun**, proved: `PriceBackfill`,
   `DividendBackfill`, `FxHistory`, `PackSupport`, `PackPublication`,
   `ListingRemoval`; one instance, `MCMaintenance`.
6. **Browser data**, proved in its main parts: `BrowserDatabase` with its users
   `LedgerPage` and `PackLoader`, composed by `BrowserData`.
7. **Calculations**, proved: `CalculationRules`, `SecurityAnalysis`, `DcaAnalysis`
   and `PortfolioLedger` against `ReturnOracle` and `PortfolioOracle`, composed by
   `Calculations`.

Parameters are CONSTANTS, with a named assumption where a proof needs one, no
RECURSIVE operator is used, and a composition EXTENDS or instantiates the modules
it composes, so that the same definitions are checked by TLC and proved about.

Next, in the order of what they would add: the safety half of the liveness properties
(a measure of what is left to do that no step raises), for the guard and for the
loader; the packs of a security as the calculations read them, so that
`FreshSupportIsComputable` and the rate rule of the engine meet in one theorem; the
price quality filters.

## 3. Modules

| Module | Models | Holds |
|---|---|---|
| `EngineProtocol` | `engine/protocol.js` envelopes | envelopes, queue operators |
| `RequestTracker` | `protocol.js` `createRequestTracker` | record states, observe, issue, supersede |
| `WorkerHost` | `worker.js` `createHost` | handlers of the worker's messages and timers |
| `EngineClient` | `engine-client.js` | the client, both queues, the worker's life; properties |
| `EngineService` | abstract | one promise slot per request id |
| `EngineClientProofs` | | proofs about `EngineClient` |
| `MarketStore` | `storage.py`, parts of `packs.py` | rows, upsert, order of partitions, pack content |
| `IncrementalUpdate` | `update_incremental.py`, `dividend_backfill.py` | the stages of a run; properties |
| `IncrementalUpdateProofs` | | proofs about `IncrementalUpdate` |
| `EventCache` | `yahoo.py` | the event cache |
| `GuardedProvider` | `guarded.py` | `_call` by several threads; properties |
| `GuardedProviderProofs` | | proofs about `GuardedProvider` |
| `ResultViews` | `app.js` | views, forms, submissions and runs over `EngineService`; properties |
| `ResultViewsProofs` | | proofs about `ResultViews` |
| `Disturbances` | | kills and changes around the scripts run by hand, counted |
| `PriceBackfill` | `backfill.py`, `run_price_backfill.py`, `reconcile_price_backfill_state.py` | coverage, state file, batches; properties |
| `DividendBackfill` | `dividend_backfill.py`, `dividend_quality.py` and their scripts | selection, queries, report, audit; properties |
| `FxHistory` | `backfill_fx_history.py` | sources, normalisation, partitions, paging; properties |
| `PackSupport` | `packs.py`, `supportFor` of `pack-loader.js` | calendar, statuses of years, ranges and securities, rate windows |
| `PackPublication` | `build_data_packs.py`, `prune_packs_for_pages.py` | full build, scoped merge, prune, verify; properties |
| `ListingRemoval` | `catalog.py`, `refresh_universe.py`, `remove_excluded_listings.py` | catalog, removal file by file; property |
| `MaintenanceProofs` | | proofs about these five scripts |
| `BrowserDatabase` | IndexedDB as both modules use it | the queue of open requests, upgrades, blocked callers |
| `LedgerPage` | `ledger-store.js`, the ledger of `app.js` | restore, edit, save, clear, import |
| `PackLoader` | `pack-loader.js` | the loaders of all tabs: manifest promise and shared cache, packs of several years |
| `BrowserData` | composition | tabs, the database, the network; properties |
| `BrowserDataProofs` | | proofs about `BrowserData` |
| `CalculationRules` | `analysis.py`, `prices.js`, `fx.js`, `dividends.js`, `splits.js` | price, rate, dividend, split and tax rules |
| `SecurityAnalysis` | `analysis.py`, `analysis.js` | the timeline of one purchase |
| `DcaAnalysis` | `dca.py`, `dca.js` | the timeline of a regular investment |
| `PortfolioLedger` | `portfolio.py`, `portfolio.js` | the ledger, transaction by transaction |
| `ReturnOracle`, `PortfolioOracle` | `falsification/oracle.py` | the expected values, at once |
| `Calculations` | composition, `validation.py` | one request and its oracle; properties |
| `CalculationProofs` | | proofs about `Calculations` |
| `SumLemmas` | | what sums over finite sets do when a term is added or changed |
| `MC...` | | instances for TLC |

A definition under a comment `Variant with a bug: ...` is a mutated form of the
definition after it. No specification uses it; it is substituted for that
definition to see that the property named in `PROJECT.json` then fails.

### Engine request layer

`records`, `pending`, `active`, `cancelledIds` and `timers` are the maps of the
same name in the code; `inbox` and `outbox` are the message queues of the two
threads (FIFO, lossless while the worker lives, dropped by `terminate`).
Promises are numbered in the order in which `request()` returns them; `owner`,
`outcome`, `asked` and `withdrawn` record for the properties what happened to
each. A request is an id, because ids are derived from scope, action and inputs:
two equal requests *are* one id. Payloads, validation errors inside a payload
and progress percentages are abstracted to the kind of the envelope. A setTimeout
of the worker is an element of `timers`, which any later request of the same id
may meet.

`EngineService` states the promise to the panels: each id has one slot, a
request puts a new promise into it, an answer empties it. `EngineClient`
implements it under `slot <- pending`.

### Incremental update and store

A row is `[set, key, day, version]`; a version stands for the values of a row.
Days are numbered and belong to years of `DaysPerYear` days, so that partitions,
year borders and the December FX window all occur with four days. Each action of
`IncrementalUpdate` ends at one replaced file, and `Crash` may happen between any
two: prices by partition, the dividends of a batch year by year, the coverage
report, action files, checkpoints, FX rates, packs, summary. `Query*` actions
read the provider and the stored cursors. `world` is what the provider would
answer; it changes between runs only, which loses nothing because a run reads
every series once. Snapshot ids are the number of the run that issued them, and
`restamped` stands for the timestamps that a rewritten report carries into the
content hash. `run.fresh` is a history field: the packs that were current when
the run began.

Left out: `--no-build-packs`, `--dry-run`, distribution policies, the cap of
10,000 change keys, quality counters in packs, market membership (one market).
The full build is one step.

### Guarded provider

`lock`, `circuit`, `requests` and `lastStarted` are fields of the guard, `cache`
is the event cache. A caller passes through *waiting* (for the lock), *pacing*
(asleep with the lock), *calling* (in the provider, with the lock) and *backoff*
(asleep without it): the points at which other threads can move. `Invoke` plays
`update_incremental.py`: prices by the main thread, dividends and actions by
the pool, rates by the main thread, each sweep after the one before. The
provider answers anything: rows, a typed absence, a rate limit, a transient or a
permanent error, an event frame of any size up to `MaxSize`, an error after the
frame was retained. Time is a counter; a sleeper may wake at any time after its
delay. Windows are left out because the history of a listing is fetched from the
earliest of its three windows (`_shared_history_windows`).

### Result views

`ui.view[k]` is `resultViews[k]` with the run counter of the view (`s6Runs[k]`,
`s4State.runSeq`) as `seq`; `busy` are the disabled submit buttons, `error` is the
error line of the simulator form, `mode` is `state.simulatorMode`, `unavailable`
the panel with the demo button, and `lastId` holds `s7LastAnalyzeId`,
`s4State.requestId` and `s5LastPortfolioRequestId`. The operators `EditView`,
`BeginView`, `CompleteView`, `FailView`, `RenderView` and `SwitchMode` are the
functions of these names as maps from page to page, because handlers call them
in sequence.

A run is the closure of one submission. It waits for the *adapter* (if an API base
is configured), for the *packs* or for the *engine*, and each action is the code
from one await to the next. A run that was replaced ends at the first await it
returns from (`Abandon`). Compare runs its rows one after the other, so its run
comes back to the first stage for each. The engine is `EngineService`, which
`EngineClient` was shown to implement: views hold promises, and an equal request of
another view displaces the promise in its slot.

A form field is a value of its group: `setup` for the fields that both modes of
the simulator share (security, dates, assumptions), `amount` and `plan` for
those of one mode, `basket` for the comparison, `ledger` for the portfolio.
`moved` is a history field: the views whose form was changed without an edit of
the view since their last one. Four handlers do so: a card of the catalog, the
demo button and the scenario of the address change the fields that dca shares,
the ledger that is restored after start-up changes portfolio. `starting` holds
what start-up has yet to do: `RestoreLedger` and `ApplyAnalysisUrl` run once each,
at any time after the forms are wired, since `init` does not wait for the first
(`app.js:1393`) and does for the data status before the second (`app.js:1407`). A
stale run that issues no
request is what the `isCurrent` checks make it (lines 1488, 1588, 1591, 1683).

Left out: rendering, the series chart, drafts in local storage, the catalog, and
the rows of the stored ledger (they are in `LedgerPage`). An answer of the engine
and the read of the (already loaded) manifest after it are one step.

### Price backfill

`file` is `price_backfill_state.json` and `records` the copy in memory, `store`
the days with a canonical price. A run goes through *open* (the state is loaded
and reconciled but not yet persisted), *fetch*, *upsert* (one year partition per
step) and *record* (one state write per batch), and `Crash` may happen before
each. Between runs a day passes, listings leave and return, a partition is lost.
`asked` counts requests for the properties. The bars of an outcome are added to
those the run found at its start although they may overlap: this is what the code
does, and why the status is provisional until the reconciliation at the end.

### Dividend archive

`report` is `coverage_report.json`, at once the status shown to users and the
checkpoint from which `QueryStart` derives the next window. A run takes any
tickers and flags, asks on the pool (an answer, silence, an error with retries),
then writes the archive year by year and the report last. The audit rebuilds the
report without queries. Events are announced late by at most `Delay`, which the
reconciliation window must cover. Two things stay outside: `--start-floor`, with
which a run starts a checkpoint after events nobody asked for, and the figures of
the report that only inform.

### Exchange rate history

A rate is its *level*: the ratio to the exact cross of the ECB's quotes. The
daily provider stores its own level, the sources quote `One`, and the seam is the
ratio measured on an overlap. That makes the hazard visible: a rerun measures
against rows that a killed run wrote. `asIs` are the pairs a run reported without
a normalisation month. Of the mirror only the loop over its pages is modelled;
cross checks, divergence, gaps and the unit of the mirror feed the report only.

### Packs: support, build, prune

`PackSupport` computes from a store (the days with a bar of each security, the
days with a rate) what a pack holds and which status a year, a security and a
range get; a pack is known by the store it was built from, which is what
`data_snapshot_id` hashes. `PackPublication` runs the full build in its steps
(reset, pack by pack, manifest), the scoped build that an update uses (the selected
packs are copied over the old ones, then the merged manifest is written, or a
full build follows if there is none) and the prune in its steps (remove, rewrite,
assert), each of which may be killed, a file half written included. A manifest
holds for each pack the store that its entry describes, so that a merge, which
keeps the entries of the packs it leaves alone, is faithful: its entries may be of
several stores under the one id of the last. `replaced` is a history field: the
packs that a merge put in place before it was killed, beside entries of an older
store. `consistent` is the verdict of the last prune or `--verify-only`, which
compares names only. Sizes and the tier note, which a rerun overwrites, are left
out.

### Listing removal

Each canonical file is the set of identifiers it has rows or records for, since
the removal, the merge and the pack build only ask whether an identifier is in.
`RemoveRows` and `CountRows` are two steps because a partition and its manifest
are two writes. `removed` and `rebuilt` are history fields.

### Browser data

Every operation on IndexedDB is an entry in `requests`, in the order in which
the modules called `indexedDB.open`: asked, blocked, open, then executed and
closed. Requests to open one database are served in order; one that raises the
version waits for the open connections, its caller is rejected at once
(`onblocked`), and the connection that is granted later has nobody to close it
(`leaked`). The loader opens whatever version there is and the ledger opens
version 2, which is how they meet. The continuation of each operation is part of
the step that settles it. A page has three loaders (`app.js:31`, `32`, `1420`),
two of its own site and one of the address `PACK_BASE`; each keeps its own
manifest, and all of them store it under one key. Tabs open and close at any time;
an address is replaced by `Deploy` and `Hour` moves the clock of the cache. The
contents of the ledger are numbered in the order in which the user makes them.
Rows that are restored or imported are rendered by `ledgerRowTemplate`, which fills
in the selected security where a row has none and drops fees: contents in `Partial`
are shown as `Shown` of them, until the user edits. `overtaken` marks a tab in which
an answer asked for earlier has replaced what was done since, or may still: a
restore or import replaces rows edited meanwhile (`app.js:1507`, `1547`), and a
clear that ends after an import was asked for saves its default row over the
import (`app.js:1525`). The code does so, and `ShownIsSaved` excepts it until the
next edit or import.

### Calculations

Days are integers, prices and rates small powers of two, and the money of a
contribution a power of two large enough for every division to be exact, so that
integer arithmetic is the decimal arithmetic of the code on these inputs. Of the
two analyses the models keep the loop: the timeline is the set of dates ahead, a
settlement puts its date into it, and each date does splits, ex-dates, payments
and purchases in the order of the code. The oracles are the falsification audit's
own simulators, which compute the same figures without a growing list. The
portfolio is booked by transactions and compared with the fold of the oracle. `Calculations`
puts one request beside its oracle; `IsInput` and `IsLedger` are what validation lets
through (`validation.py:73`). An average cost is rounded down to an integer in both. The JavaScript engine is a
line-by-line port of the Python in these parts; its definitions are mapped to the
Python, and the parity fixtures of the repository hold the two together.

## 4. Runs

| Run | Instance | Shows |
|---|---|---|
| `engine_safety` | 2 ids of one scope, one of them throws, 3 promises, queue bound 2, the script may fail to load | nothing is lost, duplicated or misrouted; refines the service |
| `engine_live` | 2 ids of two scopes, 2 promises, fair event loops | every pending request is answered; refines the service with its fairness |
| `engine_retry` | smallest instance | a finding |
| `incremental_safety` | 1 security and its rates, 4 days in 2 years, 4 observations, 3 runs, 1 trouble | no observation lost behind a cursor, complete means up to date, packs follow, ids name stores |
| `incremental_rerun` | the same with 3 observations | a finding |
| `guarded_provider` | 2 threads, 2 listings, 1 currency, 5 requests, 4 ticks, cache of 3, frames of 1 or 2 | paced, within budgets, silent after the circuit opens, one history per listing, every call returns |
| `views_safety` | 2 setups, 1 valid and 1 invalid amount, 3 ledgers, a comparison of two rows or none, an adapter, 3 inputs, 6 promises | current means fresh, the error line follows the view on show, replaced calculations are cancelled, loading ends |
| `maintenance` | five scripts, one per behaviour, 1 kill each; see below | ten properties of the scripts run by hand |
| `publication_stale` | 2 securities, 2 years of 3 days, any rates | a finding |
| `calculations` | 6 days, 12,480 markets with their scenarios in 4 ranges with 2 initial amounts; ledgers of up to 5 of 9 transactions | the engine ends in what the oracles compute; one contribution is a lump sum; money is conserved |
| `browser_data` | 2 tabs, the ledger edited in one (3 contents); 3 loaders in both over 2 addresses, 2 years, 3 publications, 2 hours, 2 visits; see below | what is shown is saved, the cache keeps its age, inputs are whole, everything settles |
| `browser_packs` | one loader | a finding |

The *maintenance* run. Five scripts work on files of their own, so a behaviour
runs one of them, chosen at the start, and the others' variables stand still:
the run is the disjoint sum of five models under one next-state relation, not a
product. The modules share `Disturbances`, the count of kills and changes; their
variables and constants have names of their own, so that `MCMaintenance` extends
all five and their proofs stand in one module. The instances: *prices* three listings in two markets, batches of
two, two attempts, three days in years of two, a listing without history and
one with a gap; *dividends* one listing of unknown, distributing or accumulating
policy, three days, three combinations of flags; *rates* the euro (whose history
must not be required) and one required currency, four stored days and two to
fetch, three sources; *packs* a listing in a foreign currency, one of the
unpublished tier, one excluded, six days in two years, two sets of days of the
foreign listing and sixteen of rates, merges of one listing or of one year;
*listings* two identifiers of one listing, a price and an event file.

The *browser data* run. `about` fixes what happens in a behaviour: the *ledger*
(edited in one tab while the other opens, restores and leaves), the *manifests* of
all three loaders under replaced addresses, the *packs* of one loader under
replaced addresses, or *both* the ledger and those packs, with one edit. All of
them share the database, its upgrades, failures and the visits, so a blocked upgrade
meets every kind of request; only edits and several loaders do not occur together,
and neither reads what the other writes.

Why the bounds suffice. *Engine*: two ids of one scope are what supersede and
cancel need; three promises allow a request, its retry and a bystander, and every
hazard listed involves at most two requests for one id. *Update*: a skipped
observation needs an observation, a later one that moves the cursor, and a run
that should have fetched the first: four observations and three runs leave room
for a restatement and a repair. One trouble (crash, failed query, failed build)
is enough for every stage, because it can happen at each of them; after it two
runs remain. Two days per year put adjacent days into different partitions.
*Guard*: seven calls in four sweeps against five requests and four ticks let each
budget run out; two frames of two units do not fit into three, so the memory
circuit opens; one retry with backoff lets two threads sleep at once. *Views*:
three inputs allow a submission, the edit, change of mode or second submission
that overtakes it, and one input more before or after; runs need no bound
of their own, and six promises are more than three submissions issue (a comparison
issues two). *Scripts*: the hazards are a kill, the run after it and one change of
the surroundings (a lost partition, a refreshed catalog, a new bar) at any point;
none needs a second kill, since every script starts from its files alone. The
number of runs is not bounded. *Calculations*: six days in periods of three hold a
dividend whose payment falls on a day without trading, after the range, or on a
purchase; a split between ex-date and payment; and two events that settle
together. *Browser*: two tabs suffice to block an upgrade and to leak a
connection; three loaders, one in the first tab and two in the second, to store a
manifest behind each other's back from two tabs and two addresses; three
publications to replace each address or one twice; three contents (one incomplete,
one rendered differently, one plain) for an edit or import after what was overtaken.

`CHECK_DEADLOCK FALSE` is set in all runs: the site may sit idle, the bounded
pipeline ends, and the guard is idle after its last call. The guard, the engine,
the views and the browser data state liveness instead.

### Fairness

*Engine*: weak fairness on the worker's message handler, each timer step, the
client's message handler and the error event: the event loops of a browser run
every task that stays ready. Nothing is assumed of users (request, cancel) or of
`forceTerminate`. *Guard*: weak fairness on the clock and on each thread: threads
are scheduled, sleeps end, and a provider call returns because each carries a
timeout of 20 seconds. Strong fairness of the lock is not needed: only finitely
many calls compete for it. *Views*: weak fairness on the steps of runs and on the
engine: the browser runs what it has queued, a fetch ends with an answer or an
error, and the engine serves its slots (`PendingIsAnswered`). Nothing is assumed
of the user, who may leave every view pending. `LoadingEnds` is stated for dca and
portfolio: analysis and compare displace each other's equal requests, and the view
whose promise was displaced does load for ever. *Browser data*: weak fairness of
the database for the requests of each store, and of the network of each loader. A
browser answers an open request or tells its caller that it is blocked, and ends
every transaction, commit or abort; stores are independent, so a queue on one does
not starve the other. A fetch ends because each carries `AbortSignal.timeout`.
Nobody is assumed to close a tab, retry or ask again. *Scripts*: no liveness is
claimed; a run may be killed at any time and is started by an operator.

## 5. Proofs

`EngineClientProofs` proves, for every set of ids, scopes and bounds, type
correctness, that a pending entry is an unsettled promise of its id, that no
pending request is lost between the threads (`ReplyOwed`), that tracker and
pending map agree, that the worker never works on a request flagged as cancelled,
that a cancelled answer was asked for, that ended records stay ended, and that
the client refines the safety part of `EngineService`. The inductive invariant
`IInv` is the conjunction of these with `NoWorkerNoPending`: without a worker
nothing is pending, which the step that creates a worker needs, since an empty
inbox owes nothing. `ReplyOwed` alone is not inductive: that the worker may drop
a duplicate rests on `CancelNeverPoisons` (the entry it finds will be answered)
and that an entry in the queue will be answered rests on `QueuedHasTimer`.

`GuardedProviderProofs` proves, for every number of threads, listings, budgets
and delays, type correctness (which bounds the retries), that only the holder of
the lock paces or calls, that both budgets are kept, that starts are an interval
apart and that nothing starts once the circuit is open. The inductive invariant
adds three facts: a pacing thread wakes no earlier than the interval after the
latest start and within the request budget (`PacingIsTimed`; nobody else can
start meanwhile, by `Serialised`), a thread paces or calls only while the circuit
is closed (`GuardedIsClosed`), and a thread in backoff has a retry left
(`RetryIsLeft`). The assumption used on the constants is that the clock's horizon
lies beyond the time budget, so that a call sent is never one that the horizon
woke early.

`OneHistoryPerListing` needs a second invariant, `HistoryInv`. That a listing is
not queried twice is not inductive: it rests on the cache still holding the
history when the dividend and the action calls come. `Remembered` says so (while
the circuit is closed, a listing whose prices were answered stays cached until its
corporate actions were asked for), and it rests in turn on `SweepsInOrder` (each
call is made once, and no call starts before the sweep ahead of it has ended), so
that the release after the action query cannot come before the dividend query.

`IncrementalUpdateProofs` proves, for any catalog, store, window, number of runs and
failures, type correctness, `CursorsSkipNothing`, `CompleteMeansUpToDate`,
`PacksFollowTheStore`, `NoPackIsForgotten` and, as an action property,
`SameIdSameStore`. The invariant has four layers. *Store* (`StoreInv`): what is
stored or about to be written was observed, and a cell has one row; so a row that
differs from the provider's is one that was restated. *Fetch* (`FetchInv`): a
series that the run was answered for is in the store up to the rows still to be
written; its window starts where the store is settled, which is
`CursorsSkipNothing` itself, and this holds while a batch is half written because
the partitions are written in the order of their years: the cursor, the last day
stored, passes over no earlier year. *Base* (`BaseInv`): the run knows the store it
started from (a summary's id names one store), and cells never vanish. *Packs*
(`PackInv`): a pack that was current at the start differs from the store only where
a change key leads to it. The last rests on the arithmetic of years: a rate is read
by the pack of its own year or, through the lookback, of the next, which is
what `_touched_pairs` adds. The assumption that matters is
`Lookback <= DaysPerYear`.

`ResultViewsProofs` proves, for every set of inputs and any number of submissions,
type correctness, that a result called current belongs to the inputs on the form
(`CurrentIsFresh`), that a view on show that failed has its error line and no other
has (`FailureIsExplained`), and that an analysis cancels what it replaces
(`OlderAreCancelled`). First, each operator of the page is shown to change one view
only (`Frame`). The invariant `IInv` adds `PageInv` (only the view on show is ever
loading) and `RunsInv`: no run is ahead of its view, the runs of a view have
different numbers, and a run that is not stale is the one its view is loading, for
the inputs on the form. An input either keeps a view and its inputs or advances its
number (`Kept`, `Edited`), and that is all `RunsInv` needs. A view is excepted while
its form was changed behind its back (`moved`: dca by a card, the demo button or the
address, portfolio by the restored ledger), until it is edited or submitted. The
error line needs in addition what is saved with the view that is not
on show (`ErrorInv`): switching the mode swaps the two. Cancellation needs that the
id an analysis read before its awaits is still the last one issued when it issues
its own (`PreviousInv`), which holds for the one run that is not stale.

`MaintenanceProofs` is about the five scripts run by hand.

*Publication.* `PublishedIsWhole`, for any securities, stores, scopes and tiers: the
verification compares names, so the invariant supplies the contents. While a
readable manifest exists, every pack beside it is the one its entry describes, but
for those a merge has replaced (`Agrees`): the full build removes the manifest
before it writes a pack and writes it after the last one (`BuildInv`), a merge
changes only packs that it records as staged and then writes their entries
(`MergeInv`), and a prune only removes (`PruneInv`).
`FreshSupportIsComputable`, which is about publications whose entries are all of
one store (`OfOneStore`), adds that the stores of manifests are stores and name no
excluded security (`StoresInv`); the rest is about `PackSupport`: the years of a
pack are a subset of the interval from the first bar to the last, and as many as it
has years only if they are all of them, so the browser's rule and `classify_range`
agree; and a rate that is not stale lies within the window that the pack was cut
to. The assumption is that the lookback is at least the staleness limit (10
and 7 days in the code).

*Removal.* `RemovedStaysOut`, for any catalog, number of files, kills, refreshes and
restored partitions. A catalog lists nothing it excludes (`IsClean`), what a removal
once completed is both configured and excluded in the catalog, and `Progress`
says which records the removal under way has already dropped, which is what makes
its last step complete. Nothing takes an identifier out of the exclusions again: a
refresh starts from the configuration, which only grows, and records, checkpoints and
report are filled from what the catalog lists. The packs are the one place that an
excluded row could come back to, from a restored partition, and `BuildPacks`
subtracts the exclusions.

*Rates.* `OneLevel`, for any levels, quotes, overlaps and kills: what is stored of a
currency that no run took as quoted stands on the provider's level, also while a run
is half written (`LevelInv`). The ratio is a mean over months of one level; that the
sum of one level over a finite set is the level times its size is a lemma about
sums. `PagingStops` needs that each page counted as full brought a row not seen
before, and that a page of the mirror is a finite set.

*Prices.* `RequestsAreCounted` and `UnknownIsNeverSkipped` are both about the
attempts on record, and neither is inductive: a request is made before it is
counted. `AttemptInv` follows it: memory and file agree on the attempts of a
security at every point; the requests made are those on record and the one in
flight, and at most one more per kill; and a security is given up at the last
attempt only. That reconciling changes no attempts and gives nothing up, whatever
store and catalog look like, is the lemma `ReconcileKeepsAttempts`.
`NothingStoredIsAskedAgain` needs `AskInv`: what a run still has to ask for is not
covered now, although its own batches extend the calendar of sessions, because
more sessions close no gap (`GapsStay`) and the run adds no rows to what it has yet
to ask for.

*Dividends.* `CheckpointSkipsNothing` and `StatusIsHonest`, for any securities,
policies, flags, lags and retries and any number of kills and catalog changes, under
the assumption (`Bounds`) that the reconciliation window is at least as long as the
provider's delay; without it the checkpoint does skip events. `ArchiveInv` says of
each record that, if its last query succeeded, an event is missing from the archive
only if it lies within the window before `through` (`IsCheckpoint`); of a run that
it starts each query no later than that (`NoneBefore`) and that what an answer held
is in memory or archived (`Asked`). So the report, written last, moves the
checkpoint only over archived events. A late announcement keeps all this because no
checkpoint is ahead of today. Honesty needs that a policy cannot change during a
run: a skipped security keeps its status but loses `ok`, which is harmless only
because its policy is unknown.

`BrowserDataProofs` proves three properties for any tabs, loaders, addresses, years,
retries, publications, contents and requests in progress. `InputsAreWhole`: the load in
progress has an entry for each year from its start to its end, or there is none
(`LoadInv`), and it is joined only when no entry is left without a snapshot.
`NoOldPublication`: the manifest in the cache, and each one on its way to the cache,
was current at its address when it was fetched (`WasCurrent`), in whatever order the
writes of several loaders arrive; what a loader takes up from it is fresh by its own
hour (`TakenUp`). `ShownIsSaved` is about the order of requests. Those of one database are
granted in order (`QueueInv`), so the load of the stored ledger precedes all writes
(`RestoreInv`). While nothing was overtaken, no import is behind a clear, and a save
that is not followed by an import has none ahead of it either (`OrderInv`): so an
edit or import after an overtaken one decides anew what is shown and stored, and the
last write on its way, or else the record, holds the table (`TableInv`). A closed tab takes its requests out of the
middle of the queue; `ComesFrom` and `Onward` say that what stays keeps its order,
and every property of the queue is shown once for all changes of that kind.

`CalculationProofs` proves all four properties of the calculations, for every
calendar, period and payment delay and every request and ledger that validation
lets through (`CalculationsAssumption`: days of the calendar, positive closes and
rates, no payment before its ex-date, one transaction per identifier).
*Returns* (`AgreesWithOracle`, `NothingSettlesUnseen`): the engine walks a list of
dates that grows; the oracle keeps a book for every day. `Stands` ties the two: at
day `k` shares and cash are those of the oracle's book of `k`, what is owed is what
the book has yet to settle, and every day ahead on which the book changes is
listed. A step moves from a listed day to the next; the days between are quiet,
which leave the book as it was (`QuietDay`), by the least one that would not.
`PurchaseInv` and `PlanInv` say this of the two analyses. *One contribution*
(`OnePurchaseIsALumpSum`): the books of the plan are those of the purchase from its
day on, and before it they hold nothing. *Ledgers* (`AgreesWithOracle`,
`MoneyIsConserved`): what was posted are the first transactions in the order of day
and identifier (`BookedInv`), and the books are the oracle's fold of them
(`OracleInv`), which takes the last one last. Conservation is a matter of sums by
type and currency: a transaction adds its term to one of them and to no other. The
agreement excepts ledgers with a sale of no shares, on which the oracle divides by
zero (`SellsShares`).

`SumLemmas` holds what these proofs need of sums. The oracle's books, its fold and
the library's sums are functions that are defined by themselves. That such a function
exists is proved by the least number of days or elements for which it would not
(`BooksExist`, `WalksExist`), and so is every equality along it.

Only model-checked: all liveness (`PendingIsAnswered`, `EveryCallReturns`,
`LoadingEnds`, `EverythingSettles`) and the service's fairness, since fairness and
ENABLED are outside the proof system's reach. Every safety invariant and every
action property that the passing runs check is also a theorem. A theorem says what
holds for all values of the constants of the model; that the model is the program is
checked by nobody but the reader of `PROJECT.json`'s map.

## 6. Findings

Each is a run that is expected to fail, with its counterexample.

- `engine_retry`: the confirmation of an earlier cancel rejects the promise of a
  retry of the same id (`engine-client.js:45`; `worker.js:246` calls such a retry
  legitimate).
- `incremental_rerun`: a run killed between a store write and its pack build is
  followed by a complete run that rebuilds no pack
  (`docs/incremental-updates.md:113`, "Re-runs are safe by construction").
- `publication_stale`: a year whose rates end more than ten days before its first
  price is published as fully supported with a pack that holds no rate for it
  (`packs.py:381`; `docs/data-pack-schema.md:325` says that the engine computes
  such ranges).
- `browser_packs`: a site that is replaced between the manifest and a pack gives
  inputs that mix snapshots (`pack-loader.js:243`;
  `docs/data-pack-budgets.md:60` says that each pack is validated against the
  manifest).

Other effects were met while modelling and are not runs of their own. Each is why
some property has an exception:

- A run killed between two years' action files moves the action cursor past an
  action that was never stored (`update_incremental.py:814`, `storage.py:205`);
  `CursorsSkipNothing` is about prices, rates and dividends.
- A scoped run that changes a shared FX pair leaves the packs of unselected
  securities behind (`update_incremental.py:617`).
- A changed corporate action touches only the pack of its own year, although every
  year's pack lists it (`update_incremental.py:659`).
- A second request for an id in flight displaces the first promise, which is never
  settled (`engine-client.js:54`; `LoadingEnds` leaves out analysis and compare),
  and the analysis panel cancels its previous request by an id that a row of the
  comparison may have by then (`app.js:1688`).
- A card of the catalog, and the scenario of the address, change the security of a
  regular investment without invalidating its run (`app.js:1772`, `1357`); the
  restored ledger does the same to a portfolio that was submitted before it arrived
  (`app.js:1506`). `CurrentIsFresh` excepts both (`moved`).
- The message of a failed analysis is lost when the mode is switched and back,
  because `failView` saves the error line before it is written (`app.js:792`).
- A rejected manifest promise is kept, so a page whose manifest failed recovers
  only by a reload (`pack-loader.js:166`).
- The stored ledger, or an import, replaces rows entered while it was awaited
  (`app.js:1507`). A clear that ends after an import was asked for saves its default
  row over it, while the table shows the import (`app.js:1525`).
- A restored or imported row without a security is shown with the selected one, and
  fees are dropped (`app.js:1236`, `1501`); the next edit stores what is shown.
- The manifests of the page's site and of `PACK_BASE` are cached under one key
  (`pack-loader.js:66`), so a loader takes up the other address's manifest as its own
  for up to a day. `NoOldPublication` bounds its age, not its address.
- A scoped build that was killed leaves new, or truncated, packs beside entries of
  older ones; `--verify-only` compares names and the loader checks no digest, so
  neither notices (`build_data_packs.py:77`; `PublishedIsWhole` excepts them). After
  a completed one the packs left alone are of earlier stores, under the new
  `data_snapshot_id`.
- A removal killed between a price partition and its manifest leaves the row count
  of the manifest too high for good.

## 7. Not modelled

*Within modelled components*: decimal arithmetic and rounding, XIRR and drawdown,
parsing and layout of files, HTTP caching, two loads of packs by one loader at the
same time, the default row that a failed restore adds below rows already entered, an
imported ledger without rows, an exception without any text (which
`dividend_backfill.py:244` would take for a success), an exception that escapes a
task of a running worker (`run` catches those of a calculation), two events of one
security on one ex-date in the calculations' inputs, the DOM, `--no-build-packs` and
`--dry-run`, distribution policies of the update and its cap of 10,000 change keys,
`replace_corporate_action`, the parsers of external membership tables, the figures
that reports only carry. IndexedDB itself, the provider and the browser's event
loops are modelled from how this code uses them.

*Components left out*: the workspace and site shell (layout without state of its
own), price quality (pure filters over one series of decimals), the full update
and one-off migrations (older scripts run by hand, alone), static build and linters,
the local server (each request is independent) and the workflows, which run the
scripts modelled here one after the other.
