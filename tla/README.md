# A TLA+ model of SignalGuard

SignalGuard is a Rust service that ingests market data (from a JSONL fixture or
from Binance's public streams), keeps the latest market state of every symbol,
detects anomalies, stores history in PostgreSQL and latest states in Redis, and
serves both over HTTP to a web console. These modules model the parts of it
with state, check them with TLC on small instances, and prove with TLAPS, for
instances of any size, the safety of the supervisor, the runs, the order book,
the aggregator, the detectors, the health scores, the counters, the HTTP reads
and the Redis cache. Paths below are relative to the repository.

## The system

| part | state it keeps | operations | talks to |
|---|---|---|---|
| supervisor (`src/runtime_supervisor.rs`) | run ids, task slot, switch guard | start, switch, reset, shutdown | spawns runs; writes the runtime snapshot; resets both stores |
| runtime snapshot (`src/runtime.rs`) | mode, status, symbols, errors | update, read | supervisor, runs and HTTP handlers |
| main (`src/main.rs`, `src/startup.rs`) | lifecycle; start-up policy for Redis | start, serve, drain, stop | supervisor, HTTP server |
| a run (`src/ingestion/*.rs`) | bounded channel, source, pipeline | read, send, reconnect; receive, persist, cache, detect | exchange or file; stores; counters |
| aggregator (`src/state/*.rs`) | per symbol: state, trade window, order book | apply an event | the pipeline |
| detectors (`src/detectors/*.rs`) | per symbol: burst baseline, last top of book, gap count; last emissions | evaluate | the pipeline |
| health (`src/health/scoring.rs`) | none | score a state | HTTP handlers |
| stores (`src/storage/*.rs`) | rows; states and symbol set | insert, truncate; set, get, list, clear | pipeline, supervisor, handlers |
| counters (`src/telemetry/*.rs`) | atomics | increment, snapshot | everyone |
| formats (`src/exchange/binance.rs`, `src/ingestion/replay.rs`, `src/domain/*.rs`) | none | parse a message, a line | the sources of a run |
| configuration (`src/config.rs`) | none after the start | load and check | main |
| HTTP API (`src/api/*.rs`) | none | reads, and POST /runtime/mode | supervisor, stores, counters |
| web console (`web/`) | polled answers, selections | poll, open, switch | HTTP API |

What is hard here: a mode switch is a sequence of awaits over shared state
(snapshot, slot, stores) beside a running task that writes to the same state;
the handler that executes it is dropped when its client disconnects; the run-id
check and the update it guards are not one step; the source and the pipeline of
a run race each other, shutdown, failing stores and reconnects; depth updates
are repeated, late, overlapping or lost; events arrive out of the order of
their times; the wall clock steps back; a request is answered from several
reads, counter by counter and store by store, while all of them change; two
parsers written apart must agree. `PROJECT.json` lists each such place
under "hazards" with the properties that watch it.

## Modules

* `RuntimeSupervisor`: supervisor, snapshot, main and POST /runtime/mode.
  Clients and main have a `pc`; every step is what a process does between two
  awaits, atomics or uses of the snapshot's lock. `update_runtime_if_current`
  is two steps, because the code reads `current_run_id` before it takes the
  lock: the first moves a process to a `mark_...` pc (a task to `update`), the
  second writes. A task is `reset`, `run`, `update`, `done`; what it writes is
  the fact that rows or states of its run exist. `Disconnect` drops a handler at
  the awaits that can be pending.
* `IngestionLease`: the abstract specification of the supervisor: runs get the
  lease in order, one at a time, once.
* `IngestionRun`: one run, replay or live (`source`). A line or message is
  abstracted to its outcome (event, ignored, parse error), which
  `MessageFormats` details; the state an event leads to is abstracted to its
  position, and Redis holds one position for each symbol.
* `OrderBook` and `TradeWindow`: the pure parts of `src/state` as operators.
* `DepthFeed`: an exchange that numbers the changes of its book, a stream that
  delivers any range of them in any order and number, and the local book.
* `MarketStateAggregator`: states of several symbols under events of any order,
  using `OrderBook` and `TradeWindow`.
* `DetectorEngine`: the seven detectors and the cooldown. Floats are kept as
  sums and counts; messages are left out.
* `MarketStateCache`: the keys in Redis command by command: the pipeline's
  script, `clear_market_state_cache` page by page, validation or reset at the
  start, the dashboard's two reads, failures and crashes between any two
  commands. Redis keeps its content over a crash, the process does not keep
  its variables. `orphaned` tells the behaviours in which a pipeline left
  over from a disconnected switch goes on writing, also during a clear.
* `MarketHealth`: scoring, and the two requests that score. `market_health`
  takes the time, reads the state, then the symbol's newest anomalies; the
  dashboard reads the states, then the newest anomalies of all symbols, and
  takes the time last. Between any two of these reads the pipeline caches a
  state, raises anomalies and stores them one by one, or a switch resets cache
  and tables. A state carries the number of its event and of its run, an anomaly
  the event it was raised about: history, which no action reads.
* `Telemetry`: the counters. An error with a source is a `fetch_add` on a total
  and one on a part, with `Ordering::Relaxed`: two steps of the task in either
  order (`adding` holds what is to come). A snapshot is begun in one step and
  ends in another, and each of its loads gives what the counter held at some
  moment between: `SnapshotAt` is the set of all such snapshots.
* `DemoData`: the fixed answers of `mode=demo`.
* `PublicApi`: every GET endpoint but the health of a symbol. A request is a
  record with a `pc`; a step of it is what the handler does up to the next
  await. Ingestion appears as its effects on counters, rows, Redis and the
  snapshot, each an action of its own in any order, which allows more than the
  pipeline does. A state is written whatever Redis holds: the aggregator of a
  run never goes back in time, but a switch that resets nothing leaves the
  states of one run to the next, which may replay older events (`aggregates`
  has a time for each run). What the request found when it came (`arrived`) is
  history, as is the number of the write in a state.
* `DomainEvents`: symbols, trades, quotes, levels and updates, and what their
  constructors refuse.
* `MessageFormats`: the parsers of both formats, field by field, with the errors
  in the order of the code. A JSON value is its type and what its text reads
  as; `as i64` wraps at the scaled width.
* `Tables`: the inserts of trades and quotes and the reading of a trade, for what
  a column cannot hold: a trade id beyond i64, a time before 4713 BC.
* `Settings`: `Settings::load_from_map`: the table of variables, the parsers by
  type, the checks group by group.
* `Inputs`: reads one environment, or one event in both formats and persists it.
  It has no history: its initial states are the inputs.
* `MC...`: constants for TLC.
* `..._proofs`: the theorems about a module and their proofs. The lemmas on
  keeping the best levels of a side (`OrderBook`) are in `DepthFeed_proofs`,
  those on the counters (`Telemetry`) in `PublicApi_proofs`.

How they fit together: `RuntimeSupervisor` treats a run as a task that writes
and ends, and assumes of it what `IngestionRun` checks
(`NothingLostOrReordered`: nothing is left to write after the join; `RunEnds`:
it ends).
`IngestionRun` abstracts the aggregator and the detectors that
`MarketStateAggregator` and `DetectorEngine` detail, `DetectorEngine` assumes of
a market state what the aggregator guarantees (`Follows`), and
`MarketStateCache` with one pipeline at a time relies on `OneIngestionAtATime`.
`Inputs` shows that what the parsers accept is what the aggregator, the books
and the detectors take for granted, that an insert refuses what its table has no
room for, and that the settings that are accepted meet
the assumptions of the other modules on their constants. `PublicApi` takes from
`MarketStateCache` that a state and its registration are written at once and
from `RuntimeSupervisor` the snapshots.

## Runs

| run | instance | shows |
|---|---|---|
| `supervisor_connected` | 2 clients, 3 runs | one pipeline at a time, as the lease demands; a reset leaves nothing of earlier runs; a late status update is written while the switch still waits; the status between switches describes the current run; an answer describes its own switch; a failure stays visible |
| `supervisor_disconnect` | one of 2 clients may disconnect, 3 runs, fair scheduling | only a disconnect lets go of a task; a switch owns the current run id; every switch and every shutdown ends |
| `supervisor_overlap` | violation | a disconnect during the join lets the next switch run a second pipeline, which `start_mode` means to refuse |
| `supervisor_serving` | violation | the API serves during the initial replay; `docs/architecture.md` says otherwise |
| `ingestion` | replay or live, 3 lines or messages of 2 symbols, channel of 2, 2 reconnects, fair scheduling | nothing lost or reordered, nothing left when joined, missing rows and symbols lagging in the cache are counted, a live run outlives faults and backs off within its bounds, a replay ends and a live run ends when told to |
| `orderbook_feed` | 4 changes, 3 prices a side, depth 2; and 3 changes in updates that lack ids | without a counted gap the book holds what the exchange has; gaps are counted; trimming |
| `aggregator` | 2 symbols | newest prices, exact window, true freshness |
| `cache` | 2 symbols, 6 initial contents, with and without a left-over pipeline | without one: no state is unlisted, a clear that succeeds leaves nothing, the catalog misses no symbol that had a state throughout the request; always: a cache in use was checked, and a start without it is counted |
| `health` | 2 symbols, 2 events with up to 4 anomalies, limits of 2, 1 error | a score counts every recent anomaly in spite of the limit; penalties belong to the state shown or an earlier one; slow reads do not make a fresh symbol stale |
| `detectors` | 2 symbols, 3 evaluations | stuck quotes and bursts exactly, gaps reported once, the cooldown |
| `api` | 2 markets, 2 runs, 3 runtime snapshots, up to 3 counts or writes and 1 fault beside the requests | a page of metrics is off by no more than what is being counted; a verdict of healthy or unhealthy is true of some moment of the request; timelines and dashboards are as new as what was there when the request came |
| `inputs` | some 35,000 environments and events, each in up to two places different from an accepted one | what is accepted can be used in memory, and its row is the event or is refused; fixture and Binance agree; settings are refused if and only if they break an assumption of another part, and the error is about a variable that was set |

Bounds. Three runs let a switch supersede a run that has itself superseded one;
two clients let one be refused, or begin, while the other is anywhere in its
switch. A channel of two with three inputs is full, empty and in between, and
could reorder; the three contents (two kinds for one symbol, the third for the
other) let one symbol lag while the other is up to date. Two attempts to
reconnect reach the limit of the delay. Four changes allow a gap, an overlap and a repetition in one
feed; depth two with three prices trims. Three evaluations allow two
observations and a burst, or an emission, a step back of the clock and a second
emission. In `health` two penalties reach the base score and the limits cut at
the third anomaly, as 100 anomalies of at least 15 points do under the default
settings (no detector raises an Info); that this proportion holds is the premise
of `ScoreIsExact`, not an assumption on all settings. Two symbols, one of them
configured, let a clear stop half-way and the catalog hold a symbol of an
earlier run; the number of crashes is not bounded. In `api` the budgets give a
request three increments, three writes, or one of each with a failure; limits
of one row make two rows compete, and an event may be one tick late, so that the
order of times differs from the order of writing; the two runs let a state be
replaced by one with an older time. In `inputs` the values of a
field or variable lie at, just inside and just outside every bound of the code,
with the integers scaled (u64 to 22 bits, u32 to 20, the times of chrono,
PostgreSQL and RFC 3339 below them); two changes at once reach every check that compares two
variables, and every order of two errors. `CHECK_DEADLOCK FALSE` is used where
something ends: an ingestion run once joined, an input once read, and histories
once `MaxEvents`, `MaxEvaluations` or the budgets are used up.

Fairness. The executor polls a task that can go on: weak fairness of main's,
the clients', the source's and the pipeline's steps. Clients, signals, messages
and live runs that were not told to stop have none. A `select!` with both arms
ready picks at random, so the shutdown is taken in the end although messages
keep coming: strong fairness of `StopLive`. A connection attempt is assumed to
return; the code has no timeout of its own around `connect_async`.

## Proofs

A theorem holds for every value of the constants that the module's assumptions
admit: any symbols, clients, inputs, contents and any of the bounds, of which
TLC sees one instance. Each inductive invariant stands, in named parts, at the
end of the module it is about; TLC checked it there, on the constants of the
run, before it was proved. The proof that a step preserves it has a case for
every action.

**Supervisor** (`RuntimeSupervisor_proofs`). The types; no task is lost; a switch
in progress owns the guard and the current run id. These rest on
`SupervisorInv`. `TasksAccountedFor` alone is not inductive: a client at `spawn`
would overwrite a slot in use. `SlotProtocol` says at which pcs the slot is
empty and that only a process at `join` holds a task, `FreshRunIds` that the run
id of a switch has no task before it spawns one, and `SwitchOwnsRunId` that at
most one client is past `try_lock`, without which `SlotProtocol` is not
preserved.

With `Disconnecting = {}`, that is for clients that stay connected, follow: one
pipeline at a time (of two running tasks each is in the slot or held by the only
process that can hold one); that the supervisor implements `IngestionLease`; and
the properties of what is written. The hypothesis cannot be dropped:
`supervisor_overlap` is the counterexample. The latter rest on
`ConnectedInv`, which adds what snapshot and stores hold at each pc of a switch:
the slot has the current run until a switch takes it out (`SlotIsCurrent`); the
outcome of a task is set when it ends, and a live one ends well only if told to
(`OutcomesAreFinal`, without which a live run could show Completed); the snapshot
shows the run in the slot, or the switch that replaces it (`SnapshotShowsRun`,
`SnapshotShowsSwitch`, `SwitchHasRun`); and a store that was reset stays empty
until the next run is spawned (`ResetStaysEmpty`). A late update of a superseded
run is harmless because its task is then the one that the switch joins.

**Runs** (`IngestionRun_proofs`). `IngestionInv` gives the types, that what was
sent is what was applied followed by the channel, that missing rows and a
lagging cache are counted, and that a live run outlives faults. Order by id is
inductive only together with `EventsInOrder` (an id in `pending` is the newest);
`RowsOrCounted` needs `RowsAreBehind`, or the next row might be there already;
and `TasksProtocol` is what the tasks know of each other: the pipeline ends only
after the source, with the channel empty. `CacheLagIsCounted` is about the set
`Lagging` of events whose state is missing in Redis with no later one of their
symbol there; a write takes the events of its own symbol out of it, and only a
counted failure puts one in, so that its size is bounded by the counter for any
number of symbols.

**Redis** (`MarketStateCache_proofs`). Over crashes, restarts and failed commands:
states are listed, a cache in use was checked, a successful clear leaves nothing
and the catalog is complete; the last two are action properties. `CacheInv` has
`ClearProtocol` (no pipeline of the process writes while it clears),
`ScanIsComplete` (what SCAN has not returned yet, or DEL not removed, is all
that is left), `EveryKeyIsListed`, which is `EveryStateIsListed` for keys that
hold anything at all (a corrupt value may be overwritten by a state),
and `SteadyIsListed` for the reader between its two reads. Assumed: the
initial contents were left by this program, which registers a key as it writes
it.

**Detectors** (`DetectorEngine_proofs`). The cooldown, gaps reported once, and
stuck quotes and trade bursts exactly. `EmissionsRemembered` is needed because the
cooldown compares with the last emission only; `EvaluationsInOrder` because
two reports of one count must be excluded across any number of evaluations
between them; `StuckMemory` ties the remembered time to the evaluation since
which the top of the book has not changed; and `BurstMemory` ties the count, the
sum and the last rate that the baseline keeps to the evaluations it observed,
those whose rate differs from the one before. Assumed: thresholds above zero, as
`DetectorSettings::validate` demands, and a cooldown above zero (30 s in the
code; with none, a clock that steps back would break the spacing).

**Order book** (`DepthFeed_proofs`). For any log of
changes, delivered in any ranges, order and number: every gap counted was one
(each leaves an id of its own in `missed`, `GapsLeaveIds`); with no gap counted
each level of the book is what the exchange has (`Agrees`, the levels at the id
the book has reached); and the trimmed book is the best part of the untrimmed
one, as long as no level was removed. The last rests on a lemma about any strict
total order: to keep the first n, add some more and keep the first n again gives
the first n of all.

**Aggregator** (`MarketStateAggregator_proofs`). For arrivals in any order: the
prices shown are the newest by event time (`NewestIsRemembered`), the freshness
is the latest time that counted (`FreshnessIsKnown`, for updates that carry both
ids, as Binance's do), and the signals are those of exactly the trades of the
last minute (`WindowIsExact`). The window is a sequence with sorted
insertion at the first later sample and eviction at its front; the invariant
says that it is the list of the recent trades by time, then arrival, by naming
the order (`Lists`). That an evicted trade is never missed later needs that the latest
time never goes back and that eviction removes a prefix.

**Health** (`MarketHealth_proofs`). For any weights that `validate` accepts, any
delays and any interleaving of the pipeline with a request: the score of
`market_health` is that of all anomalies stored although it reads a limited
number (`ScoreIsExact`), it counts no anomaly of a later state, and it penalises
what was stale already. The last two rest on `HealthInv`: in one run the states
cached and read never go back (`StatesInOrder`), and an anomaly that was found is
about the cached state or an earlier one (`AnomaliesInOrder`), which has to
include what the pipeline has cached and not detected yet. The score needs no
invariant but the types: it is a sum per kind of penalty, and the rows that the
limit cuts off come after enough penalties to reach zero.

**Counters and HTTP reads** (`PublicApi_proofs`). For any number of markets, rows
and errors, with writes, clearings and truncations between the reads of a
request. `ErrorsAddUp` says that a total and its parts differ by what the
source is adding at that moment; `SnapshotBegun` that the counts a reading began
with were at least what had been completed then, and have only grown since.
From these follow `SnapshotsAddUp` and `VerdictIsSound`. For `AnswersAreCurrent`,
`TimelineBegun` says that the trades read are the newest of those which were
there all along; it needs that a row number is never used twice
(`StoresInOrder`), or a row inserted after a truncation could pass for one
that was lost. `DashboardBegun` follows listing and states through the
dashboard's reads, as long as nothing was cleared. The times in Redis
are not ordered: a new run may overwrite a state with an older one. What is ordered is the writes (`Written`: a state is older as a write
than what is still to be written) and, within a run, the times (no state is
ahead of the aggregator of its run), and that is what the dashboard is claimed
to respect.

Sums over finite sets, and that rows can be sorted, are proved by taking a
smallest set for which they fail: strict inclusion of subsets of a finite set is
well founded (`WFMin`). The induction theorems of the library, whose parameter
is an operator, are not used.

Only model-checked: liveness (`SwitchEnds`, `ShutdownCompletes`, `RunEnds`), and
`Inputs` (`EventsAreUsable`, `SourcesAgree`, `SettingsAreUsable`), which has no
history: it compares the parsers, the inserts and the settings with their
reference definitions on values at their bounds.

## Correctness, part by part

* Supervisor: at most one pipeline; resets isolate runs; the snapshot describes
  the current run; switches and shutdown end. Checked; all but liveness proved.
* Run: events neither lost nor reordered; drained before joined; failures
  counted; back-off bounded; ends. Checked; all but the end proved.
* Order book, window, aggregator: what sorting and applying all accepted events
  would give. Checked, and proved, against such reference definitions.
* Detectors: each raises exactly when its definition says; cooldown. The four
  without memory raise by a threshold, which is their definition: they are part
  of `Evaluate`, with no property of their own. Checked and proved.
* Redis and start-up: listed states, clean resets, nothing unchecked in use.
  Checked and proved.
* Health: an answer as if all anomalies, the state and the time were read at
  once. `market_health` has this up to the limits above; the dashboard does not:
  it may count an anomaly of a later state than it shows, call a symbol stale
  that was fresh when asked, and miss anomalies crowded out by another symbol.
  No document promises otherwise; the hazards record it. Checked and proved.
* Counters and HTTP reads: an answer is that of a moment within the request, or
  at least as new as what was there when it came. What they do not have: states
  whose times never go back over a switch that resets nothing; a total equal to
  the sum of its parts while errors are counted; an availability as new as the
  states beside it; rows of one run only, when a replay truncates the tables
  between the two reads of a timeline. One failed read of any request keeps the
  verdict from being healthy for as long as the process runs. Checked and
  proved.
* Formats: what is accepted needs no further check in memory, and a replay of a
  session is the session. `SourcesAgree` names what one format says and the other cannot:
  only a fixture may leave out the ids of an update, quote a trade id, or
  have a time before 1970; only Binance may leave out the time of a quote, quote
  the time of an update, or have a time past the year 9999. Among the latter are
  the largest u64s, which `as i64` turns into times before 1970
  (`binance.rs:251`). The tables have room for less than an event: a trade id
  beyond i64 is refused by `insert_trade`, a time before 4713 BC by PostgreSQL,
  and the pipeline counts either. What is inserted is read back as it was: a
  wrapped id would fail every timeline of its symbol (`map_trade_row`).
  PostgreSQL keeps microseconds; finer times of a fixture are below the
  model's milliseconds.
* Configuration: accepted if and only if it meets what the other modules assume.
  They do not assume an upper bound of the window of recent anomalies, and
  `config.rs` checks none: one too long for chrono is let through
  (`scoring.rs:116`).
* Order books of fixtures: an update with its first id only is accepted whatever
  it skips, and no gap is counted; `NoPhantomLevels` is claimed for feeds that
  number their updates, as Binance does.

## Plan

Done: the modules above, in the order of the table of runs, and the theorems on
each but `Inputs`. What could follow: that what the parsers accept is usable, for
any texts instead of those at the bounds.

## Not modelled

SQL and migrations (`migrations/`): an insert, a query with its order and limit
or a TRUNCATE happens or fails. The OpenAPI contract, logging, the text of the
Prometheus page and of the errors, the URL of the streams: no state. The web
console: its requests are sequenced by a third-party library
(`@tanstack/react-query`); what remains is rendering. JSON, decimals and RFC 3339
are what the texts in `Inputs` are named for, not parsed letter by letter.
`stop_and_reset` of the supervisor is called by tests only. A symbol set of
another Redis type than set, and a Redis connection that is lost and does not
come back, are not distinguished from failing commands.

Out of the prover's reach, and left to TLC: liveness under fairness, `ENABLED`,
and what a recursive definition over sequences computes for every input.
