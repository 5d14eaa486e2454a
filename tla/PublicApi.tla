----------------------------- MODULE PublicApi -----------------------------
(***************************************************************************)
(* The read side of the HTTP API (src/src/api/handlers.rs, routes.rs,      *)
(* error.rs, dto.rs): a request is answered from the counters, the runtime *)
(* snapshot, Redis and PostgreSQL while ingestion changes all of them.     *)
(* /market/{symbol}/health is MarketHealth's, the switch of the mode       *)
(* RuntimeSupervisor's.                                                    *)
(*                                                                         *)
(* A step of a request is what it does between two awaits.  Ingestion is   *)
(* its effects, in any order: IngestionRun and MarketHealth have the order *)
(* of the pipeline, RuntimeSupervisor that of the snapshots,               *)
(* MarketStateCache the commands of Redis.  Requests that run beside the   *)
(* one modelled show in the counters only, as faults do.                   *)
(***************************************************************************)
EXTENDS Telemetry, DemoData

CONSTANTS
  Symbols,
  Runs,                   \* the runs of ingestion, each with an aggregator of its own
  BadSymbol,              \* a name Symbol::new refuses
  EventKinds,             \* the kinds of events ingested
  RuntimeSnapshots,       \* the mode, status and symbols the supervisor publishes
  Limits,                 \* what ?limit= may say: None, or a number, negative if it is none
  TimelinePointLimit,     \* MARKET_TIMELINE_POINT_LIMIT
  TimelineAnomalyLimit,   \* MARKET_TIMELINE_ANOMALY_LIMIT
  DefaultAnomalyLimit, MaxAnomalyLimit,
  Delays,                 \* how late an event may be
  MaxTime,                \* bounds: the clock,
  Budgets                 \* and how much is counted, written and fails in a behaviour

\* what Redis has of a symbol: the state's last_event_time, the run that wrote it
\* and, as history, which write that was
States == [run : Runs, time : Int, written : Int]

ASSUME ApiAssumption ==
  /\ {TimelinePointLimit, TimelineAnomalyLimit, MaxAnomalyLimit} \subseteq Nat \ {0}
  /\ DefaultAnomalyLimit \in 1 .. MaxAnomalyLimit
  /\ {MaxTime} \cup Delays \subseteq Nat
  /\ Budgets \subseteq [counting : Nat, writing : Nat, faults : Nat]
  /\ \A r \in RuntimeSnapshots : r.symbols \subseteq Symbols
  /\ EventKinds \subseteq {"trade", "quote", "depth"}
  /\ None \notin Int /\ None \notin States /\ None \notin [shown : States, age : Int]

VARIABLES
  now,
  runtime,      \* the runtime snapshot
  aggregates,   \* the last_event_time of each symbol in each run's aggregator
  registered,   \* the symbols registered in Redis
  states,       \* the state of each symbol in Redis, None if there is none
  trades,       \* the rows of the table trades
  anomalies,    \* the rows of the table anomalies
  faults,       \* history: the errors of stores that ended an operation
  budget,       \* what is left of the budget; numbers the rows
  request,      \* the request in progress; its fields arrived and cleared are history
  answer        \* what the last step answered, None if it answered nothing

stores == <<runtime, aggregates, registered, states, trades, anomalies>>
vars == <<now, telemetry, stores, faults, budget, request, answer>>

NoRequest ==
  [pc |-> "idle", endpoint |-> None, symbol |-> None, at |-> 0, runtime |-> None,
   listed |-> {}, states |-> None, rows |-> {}, recent |-> {}, counts |-> None,
   last |-> 0, arrived |-> None, cleared |-> FALSE]

Init ==
  /\ TelemetryInit
  /\ now = 1
  /\ runtime \in {r \in RuntimeSnapshots : r.status = "Starting"}
  /\ aggregates = [r \in Runs |-> [s \in Symbols |-> None]]
  /\ registered = {}
  /\ states = [s \in Symbols |-> None]
  /\ trades = {} /\ anomalies = {}
  /\ faults = 0 /\ budget \in Budgets
  /\ request = NoRequest
  /\ answer = None

-----------------------------------------------------------------------------
(* Ingestion *)

Spend(what) == budget[what] > 0 /\ budget' = [budget EXCEPT ![what] = @ - 1]

Counting == Spend("counting") /\ answer' = None /\ UNCHANGED <<now, stores, faults, request>>
Writing == Spend("writing") /\ answer' = None /\ UNCHANGED <<now, telemetry, faults, request>>

IngestEvent(source, kind) ==
  Counting /\ RecordEvent(source, kind, now)

CountParseError(source) ==
  Counting /\ IncrementParseErrors(source)

CountReconnect ==
  Counting /\ IncrementReconnectAttempts

FinishCounting(task, c) ==
  /\ Add(task, c)
  /\ answer' = None
  /\ UNCHANGED <<now, stores, faults, budget, request>>

\* an operation of a store fails and is counted
CountFault(store) ==
  /\ Spend("faults")
  /\ Increment(store)
  /\ faults' = faults + 1
  /\ UNCHANGED <<last_message, adding, begun, completed>>

NoFault == UNCHANGED <<telemetry, faults, budget>>

\* a write of the pipeline, or a read of another request
StoreFault(store) ==
  CountFault(store) /\ answer' = None /\ UNCHANGED <<now, stores, request>>

\* insert_trade
InsertTrade(s, d) ==
  /\ Writing
  /\ trades' = trades \cup {[id |-> -budget.writing, symbol |-> s, time |-> now - d]}
  /\ UNCHANGED <<runtime, aggregates, registered, states, anomalies>>

\* insert_anomaly: about an event that is late by d
InsertAnomaly(s, d) ==
  /\ Writing
  /\ anomalies' = anomalies \cup
       {[id |-> -budget.writing, symbol |-> s, time |-> now - d, created |-> now]}
  /\ UNCHANGED <<runtime, aggregates, registered, states, trades>>

\* an event is late by d: it makes the aggregator of its run no older
Advanced(time, d) == IF time = None THEN now - d ELSE Max({time, now - d})

\* set_market_state: the key and the registration in one transaction, whatever
\* the key held.  A switch that resets nothing leaves the states of one run to be
\* overwritten by the next, which may replay older times; two runs may even
\* write beside each other (supervisor_overlap).
SetMarketState(r, s, d) ==
  /\ Writing
  /\ aggregates' = [aggregates EXCEPT ![r][s] = Advanced(@, d)]
  /\ states' = [states EXCEPT ![s] = [run |-> r, time |-> Advanced(aggregates[r][s], d),
                                      written |-> -budget.writing]]
  /\ registered' = registered \cup {s}
  /\ UNCHANGED <<runtime, trades, anomalies>>

\* clear_market_state_cache deletes the keys, then the set of symbols
ClearKeys ==
  /\ Spend("writing")
  /\ states' = [s \in Symbols |-> None]
  /\ request' = IF request.pc = "idle" THEN request ELSE [request EXCEPT !.cleared = TRUE]
  /\ answer' = None
  /\ UNCHANGED <<now, telemetry, faults, runtime, aggregates, registered, trades, anomalies>>

ClearRegistered ==
  /\ Writing
  /\ \A s \in Symbols : states[s] = None
  /\ registered' = {}
  /\ UNCHANGED <<runtime, aggregates, states, trades, anomalies>>

\* reset_replay_storage
Truncate ==
  /\ Writing
  /\ trades' = {} /\ anomalies' = {}
  /\ UNCHANGED <<runtime, aggregates, registered, states>>

UpdateRuntime(r) ==
  /\ Writing
  /\ runtime' = r
  /\ UNCHANGED <<aggregates, registered, states, trades, anomalies>>

Tick ==
  /\ now < MaxTime
  /\ now' = now + 1
  /\ answer' = None
  /\ UNCHANGED <<telemetry, stores, faults, budget, request>>

-----------------------------------------------------------------------------
(* Answers *)

\* ApiError::into_response; the outcomes of reading a store
Status(error) ==
  CASE error \in {"invalid_symbol", "invalid_request"} -> 400
    [] error = "not_found" -> 404
    [] error = "cache_unavailable" -> 503
    [] error = "internal_error" -> 500

Reply(endpoint, status, source, body) ==
  /\ request' = NoRequest
  /\ answer' = [endpoint |-> endpoint, status |-> status, source |-> source, body |-> body]

Refuse(endpoint, error) == Reply(endpoint, Status(error), None, None)

\* From<CacheError>: Redis does not answer, or what it holds does not decode
CacheErrors == {"cache_unavailable", "internal_error"}

\* map_cache_error and map_storage_error: counted, then answered; the one error
\* that is not counted, a limit the store refuses, cannot occur: every limit was
\* checked before
FailCache(endpoint) ==
  CountFault("cache_errors") /\ \E e \in CacheErrors : Refuse(endpoint, e)
FailStorage(endpoint) == CountFault("storage_errors") /\ Refuse(endpoint, "internal_error")

Continue(r) == request' = r /\ answer' = None

\* a request without an await leaves everything as it is
Immediate == request.pc = "idle" /\ NoFault /\ UNCHANGED <<now, stores>>
Step(pc) == request.pc = pc /\ UNCHANGED <<now, stores>>

\* the sets ORDER BY key DESC LIMIT n may give; rows of equal keys in any order
Newest(rows, n, Key(_)) ==
  {S \in SUBSET rows :
     /\ Cardinality(S) = Min({n, Cardinality(rows)})
     /\ \A r \in S, q \in rows \ S : Key(r) >= Key(q)}

Time(r) == r.time
Created(r) == r.created

\* rows put in an order, given by the pairs of which the first comes before the
\* second; rows the order does not tell apart follow each other somehow
SortedBy(rows, before) ==
  CHOOSE seq \in [1 .. Cardinality(rows) -> rows] :
    /\ \A r \in rows : \E i \in DOMAIN seq : seq[i] = r
    /\ \A i, j \in DOMAIN seq : i < j => <<seq[j], seq[i]>> \notin before

LatestCreatedFirst(rows) == {p \in rows \X rows : p[1].created > p[2].created}
OldestFirst(rows) == {p \in rows \X rows : p[1].time < p[2].time}
OldestThenCreatedFirst(rows) ==
  {p \in rows \X rows : \/ p[1].time < p[2].time
                        \/ p[1].time = p[2].time /\ p[1].created < p[2].created}

Of(rows, s) == {r \in rows : s = None \/ r.symbol = s}

\* get_recent_anomalies and get_recent_trades_for_symbol
GetRecentAnomalies(s, n) == Newest(Of(anomalies, s), n, Created)
GetRecentTrades(s) == Newest(Of(trades, s), TimelinePointLimit, Time)

LastEventAge(time, t) == Max({0, t - time})

-----------------------------------------------------------------------------
(* The endpoints that read no store *)

Health == Immediate /\ Reply("health", 200, "live", "ok")

GetRuntimeMode == Immediate /\ Reply("runtime_mode", 200, "live", runtime)

\* pipeline_health and metrics: the snapshot is begun with the time of the request
BeginSnapshot(endpoint) ==
  /\ Immediate
  /\ Continue([NoRequest EXCEPT !.pc = "snapshot", !.endpoint = endpoint, !.at = now,
                 !.counts = counters, !.last = last_message,
                 !.arrived = [completed |-> completed, faults |-> faults]])

PipelineHealth ==
  /\ Step("snapshot") /\ request.endpoint = "pipeline_health" /\ NoFault
  /\ \E s \in SnapshotAt(request.counts, request.last, request.at) :
       Reply("pipeline_health", 200, "live", PipelineHealthResponse(s))

Metrics ==
  /\ Step("snapshot") /\ request.endpoint = "metrics" /\ NoFault
  /\ \E s \in SnapshotAt(request.counts, request.last, request.at) :
       Reply("metrics", 200, "live", RenderPrometheusMetrics(s))

-----------------------------------------------------------------------------
(* /symbols, /market/{symbol}/state, /anomalies: one read *)

GetSymbols ==
  /\ Step("idle")
  /\ \/ NoFault /\ Reply("symbols", 200, "live", registered)
     \/ FailCache("symbols")

\* MarketStateResponse::from_market_state
MarketStateResponse(state, t) ==
  [availability |-> "observed", last_event_time |-> state.time,
   last_event_age |-> LastEventAge(state.time, t)]

\* parse_market_symbol, load_market_state
MarketState(s) ==
  /\ Step("idle")
  /\ \/ s = BadSymbol /\ NoFault /\ Refuse("market_state", "invalid_symbol")
     \/ /\ s \in Symbols /\ NoFault
        /\ IF states[s] = None THEN Refuse("market_state", "not_found")
           ELSE Reply("market_state", 200, "live", MarketStateResponse(states[s], now))
     \/ s \in Symbols /\ FailCache("market_state")

\* parse_anomalies_query: the symbol, then the limit
LimitAccepted(limit) == limit = None \/ limit \in 1 .. MaxAnomalyLimit
LimitOf(limit) == IF limit = None THEN DefaultAnomalyLimit ELSE limit

Anomalies(s, limit) ==
  /\ Step("idle")
  /\ \/ s = BadSymbol /\ NoFault /\ Refuse("anomalies", "invalid_symbol")
     \/ /\ s # BadSymbol /\ ~LimitAccepted(limit)
        /\ NoFault /\ Refuse("anomalies", "invalid_request")
     \/ /\ s # BadSymbol /\ LimitAccepted(limit) /\ NoFault
        /\ \E rows \in GetRecentAnomalies(s, LimitOf(limit)) :
             Reply("anomalies", 200, "live", SortedBy(rows, LatestCreatedFirst(rows)))
     \/ s # BadSymbol /\ LimitAccepted(limit) /\ FailStorage("anomalies")

-----------------------------------------------------------------------------
(* /market/{symbol}/timeline: the trades, then the anomalies *)

\* ?mode=; a request that does not say gets the demo
Modes == {None, "demo", "live"}
ResolvedMode(query) == IF query = None THEN "demo" ELSE query

MarketTimeline(s, query) ==
  /\ Immediate
  /\ \/ s = BadSymbol /\ Refuse("market_timeline", "invalid_symbol")
     \/ s \in Symbols /\ ResolvedMode(query) = "demo"
          /\ Reply("market_timeline", 200, "demo", DemoTimeline(s))
     \/ /\ s \in Symbols /\ ResolvedMode(query) = "live"
        /\ Continue([NoRequest EXCEPT !.pc = "trades", !.symbol = s, !.at = now,
                       !.arrived = [trades |-> Of(trades, s), anomalies |-> Of(anomalies, s)]])

LoadTimelineTrades ==
  /\ Step("trades")
  /\ \/ /\ NoFault
        /\ \E rows \in GetRecentTrades(request.symbol) :
             Continue([request EXCEPT !.pc = "timeline", !.rows = rows])
     \/ FailStorage("market_timeline")

\* MarketTimelinePointResponse::from_trade
TimelinePoint(row, t) == [row |-> row, age |-> LastEventAge(row.time, t)]

\* the trades turned round, oldest first
TimelinePoints(rows, t) ==
  LET points == SortedBy(rows, OldestFirst(rows))
  IN  [i \in DOMAIN points |-> TimelinePoint(points[i], t)]

\* sorted by event_time and created_at
TimelineAnomalies(rows) == SortedBy(rows, OldestThenCreatedFirst(rows))

AnswerTimeline ==
  /\ Step("timeline")
  /\ \/ /\ NoFault
        /\ \E rows \in GetRecentAnomalies(request.symbol, TimelineAnomalyLimit) :
             Reply("market_timeline", 200, "live",
                   [points |-> TimelinePoints(request.rows, request.at),
                    anomalies |-> TimelineAnomalies(rows)])
     \/ FailStorage("market_timeline")

-----------------------------------------------------------------------------
(* /dashboard/summary: the runtime snapshot, the registered symbols, the    *)
(* states, the anomalies, and at last the time and the counters             *)

Dashboard(query) ==
  /\ Immediate
  /\ \/ ResolvedMode(query) = "demo" /\ Reply("dashboard", 200, "demo", DemoDashboard)
     \/ /\ ResolvedMode(query) = "live"
        /\ Continue([NoRequest EXCEPT !.pc = "symbols", !.runtime = runtime,
                       !.arrived = [states |-> states]])

\* mutant: only the registered symbols are looked up
DashboardSymbols_RegisteredOnly ==
  /\ Step("symbols")
  /\ \/ NoFault /\ Continue([request EXCEPT !.pc = "states", !.listed = registered])
     \/ FailCache("dashboard")

\* list_symbols, and the configured symbols
DashboardSymbols ==
  /\ Step("symbols")
  /\ \/ NoFault /\ Continue([request EXCEPT !.pc = "states",
                               !.listed = request.runtime.symbols \cup registered])
     \/ FailCache("dashboard")

\* get_market_states
DashboardStates ==
  /\ Step("states")
  /\ \/ NoFault /\ Continue([request EXCEPT !.pc = "recent", !.states = states])
     \/ FailCache("dashboard")

DashboardAnomalies ==
  /\ Step("recent")
  /\ \/ /\ NoFault
        /\ \E rows \in GetRecentAnomalies(None, DefaultAnomalyLimit) :
             Continue([request EXCEPT !.pc = "build", !.recent = rows])
     \/ FailStorage("dashboard")

\* the time of the summary, and the snapshot of the counters begins
DashboardTime ==
  /\ Step("build") /\ NoFault
  /\ Continue([request EXCEPT !.pc = "summary", !.at = now, !.counts = counters,
                 !.last = last_message,
                 !.arrived = [states |-> request.arrived.states,
                              completed |-> completed, faults |-> faults]])

\* derive_live_availability
Availability(snapshot, s, observed) ==
  CASE observed -> "observed"
    [] ~observed /\ s \notin snapshot.symbols -> "unavailable"
    [] ~observed /\ s \in snapshot.symbols /\ snapshot.mode = "Live" ->
         IF snapshot.status \in {"Starting", "Running", "Switching"}
         THEN "awaiting" ELSE "unavailable"
    [] OTHER -> "configured"

\* DashboardStateSummary::from_market_state
DashboardStateSummary(state, t) == [shown |-> state, age |-> LastEventAge(state.time, t)]

\* build_dashboard_symbol_summaries; MarketHealth has the evaluation, which is
\* made of the state and the symbol's share of the anomalies
SymbolSummary(s) ==
  LET state == request.states[s]
  IN  [availability |-> Availability(request.runtime, s, state # None),
       state |-> IF state = None THEN None ELSE DashboardStateSummary(state, request.at),
       health |-> IF state = None THEN None ELSE Of(request.recent, s)]

AnswerDashboard ==
  /\ Step("summary") /\ NoFault
  /\ \E c \in SnapshotAt(request.counts, request.last, request.at) :
       Reply("dashboard", 200, "live",
             [pipeline |-> PipelineHealthResponse(c),
              symbols |-> [s \in request.listed |-> SymbolSummary(s)],
              recent_anomalies |-> SortedBy(request.recent, LatestCreatedFirst(request.recent))])

-----------------------------------------------------------------------------
IngestionStep ==
  \/ \E source \in Sources, kind \in EventKinds : IngestEvent(source, kind)
  \/ \E source \in Sources : CountParseError(source)
  \/ CountReconnect
  \/ \E task \in Tasks : \E c \in adding[task] : FinishCounting(task, c)
  \/ \E store \in {"storage_errors", "cache_errors"} : StoreFault(store)
  \/ \E s \in Symbols, d \in Delays : InsertTrade(s, d)
  \/ \E s \in Symbols, d \in Delays : InsertAnomaly(s, d)
  \/ \E r \in Runs, s \in Symbols, d \in Delays : SetMarketState(r, s, d)
  \/ ClearKeys
  \/ ClearRegistered
  \/ Truncate
  \/ \E r \in RuntimeSnapshots : UpdateRuntime(r)

\* the routes
RequestStep ==
  \/ Health
  \/ GetRuntimeMode
  \/ \E endpoint \in {"pipeline_health", "metrics"} : BeginSnapshot(endpoint)
  \/ PipelineHealth
  \/ Metrics
  \/ GetSymbols
  \/ \E s \in Symbols \cup {BadSymbol} : MarketState(s)
  \/ \E s \in Symbols \cup {BadSymbol, None}, limit \in Limits : Anomalies(s, limit)
  \/ \E s \in Symbols \cup {BadSymbol}, query \in Modes : MarketTimeline(s, query)
  \/ LoadTimelineTrades
  \/ AnswerTimeline
  \/ \E query \in Modes : Dashboard(query)
  \/ DashboardSymbols
  \/ DashboardStates
  \/ DashboardAnomalies
  \/ DashboardTime
  \/ AnswerDashboard

\* the answer is on its way and nothing waits for it: a step of its own, so that
\* what was answered is told apart from what goes on
Deliver ==
  /\ answer # None
  /\ answer' = None
  /\ UNCHANGED <<now, telemetry, stores, faults, budget, request>>

Next == Deliver \/ (answer = None /\ (IngestionStep \/ RequestStep \/ Tick))

Spec == Init /\ [][Next]_vars

-----------------------------------------------------------------------------
(* Properties *)

Answers(endpoint) == answer' # None /\ answer'.endpoint = endpoint /\ answer'.status = 200

SnapshotAddsUp ==
  Answers("metrics") =>
    \A total \in Totals :
      LET shown == answer'.body[total]
          sum == IF total = "parse_errors" THEN shown.parts["replay"] + shown.parts["binance"]
                 ELSE shown.parts["binance"]
      IN  {shown.total, sum} \subseteq request.arrived.completed[total] .. begun[total]

\* A page of metrics is read counter by counter while errors are counted, each
\* in two counters (counters.rs:61-74, 137-160).  A total and the sum of its
\* parts may then differ, but by no more than the errors being counted
\* meanwhile: both lie between the errors fully counted when the request came
\* and the errors begun when it is answered, so a page read at rest adds up.
SnapshotsAddUp == [][SnapshotAddsUp]_vars

SoundVerdict ==
  (Answers("pipeline_health") \/ (Answers("dashboard") /\ answer'.source = "live")) =>
    LET verdict == IF answer'.endpoint = "dashboard" THEN answer'.body.pipeline.status
                   ELSE answer'.body.status
    IN  /\ verdict = "healthy" =>
             /\ request.arrived.faults = 0
             /\ request.arrived.completed["parse_errors"] = 0
             /\ last_message # 0 /\ request.at - last_message <= DegradedAfter
        /\ verdict = "unhealthy" =>
             /\ faults + begun["parse_errors"] > 0
             /\ request.at - request.last > UnhealthyAfter

\* The verdict on the pipeline, in /pipeline/health and in the dashboard, from
\* counters that move while they are read (dto.rs:494-507).  "healthy": no
\* error of parsing, storing or caching had been counted when the reading
\* began, at whatever moment and by whichever task or request, and a message
\* had come within DegradedAfter.  "unhealthy": an error was counted, and none
\* of the messages recorded before the reading was within UnhealthyAfter.
VerdictIsSound == [][SoundVerdict]_vars

PointTime(p) == p.row.time
Ordered(seq, Key(_)) == \A i, j \in DOMAIN seq : i < j => Key(seq[i]) <= Key(seq[j])

\* of the rows there all along, the ones not shown are older than all `limit` shown
ShowsNewest(shown, stored, limit, Key(_)) ==
  \A r \in stored \ shown : Cardinality(shown) = limit /\ \A q \in shown : Key(q) >= Key(r)

TimelineIsCurrent(body) ==
  LET points == {body.points[i].row : i \in DOMAIN body.points}
      anomalies_shown == ToSet(body.anomalies)
  IN  /\ Ordered(body.points, PointTime) /\ Ordered(body.anomalies, Time)
      /\ ShowsNewest(points, request.arrived.trades \cap trades, TimelinePointLimit, Time)
      /\ ShowsNewest(anomalies_shown, request.arrived.anomalies \cap anomalies,
                     TimelineAnomalyLimit, Created)

\* written no earlier, and no older if it is the same run's
NoOlder(state, earlier) ==
  /\ state.written >= earlier.written
  /\ state.run = earlier.run => state.time >= earlier.time

DashboardIsCurrent(body) ==
  /\ request.runtime.symbols \subseteq DOMAIN body.symbols
  /\ \A s \in DOMAIN body.symbols :
       (body.symbols[s].availability = "observed") <=> (body.symbols[s].state # None)
  /\ ~request.cleared =>
       \A s \in Symbols : request.arrived.states[s] # None =>
         /\ s \in DOMAIN body.symbols
         /\ body.symbols[s].state # None
         /\ NoOlder(body.symbols[s].state.shown, request.arrived.states[s])

CurrentAnswer ==
  /\ Answers("market_timeline") /\ answer'.source = "live" => TimelineIsCurrent(answer'.body)
  /\ Answers("dashboard") /\ answer'.source = "live" => DashboardIsCurrent(answer'.body)

\* An answer put together from several reads (handlers.rs:104-137, 219-244) is
\* at least as new as the request, whatever ingestion, a switch of runs, a clearing
\* of the cache or a truncation does between them.  The timeline shows the newest trades
\* and anomalies in the order of time, and leaves out none that was stored all
\* along unless the limit is used up by newer ones.  The dashboard has every
\* configured market, and the state of every market that had one when the
\* request came and was not cleared: as it was written then or by a later write,
\* whose last_event_time is no earlier if it is the same run's (another run may
\* replay older times).
AnswersAreCurrent == [][CurrentAnswer]_vars

-----------------------------------------------------------------------------
(* What makes the answers so: the inductive invariant *)

TradeRows == [id : Int, symbol : Symbols, time : Int]
AnomalyRows == [id : Int, symbol : Symbols, time : Int, created : Int]
Stamps == [Symbols -> States \cup {None}]

StoresTypeOK ==
  /\ now \in Nat
  /\ runtime \in RuntimeSnapshots
  /\ registered \subseteq Symbols
  /\ aggregates \in [Runs -> [Symbols -> Int \cup {None}]]
  /\ states \in Stamps
  /\ trades \subseteq TradeRows /\ IsFiniteSet(trades)
  /\ anomalies \subseteq AnomalyRows /\ IsFiniteSet(anomalies)
  /\ budget \in [counting : Nat, writing : Nat, faults : Nat]
  /\ DOMAIN request = DOMAIN NoRequest

\* states that were written before now, each by a run that has come as far
Written(stamps) ==
  \A s \in Symbols : stamps[s] # None =>
    /\ stamps[s].written < -budget.writing
    /\ aggregates[stamps[s].run][s] # None
    /\ stamps[s].time <= aggregates[stamps[s].run][s]

\* a row has a number of its own: no row comes back after a truncation
StoresInOrder ==
  /\ \A s \in Symbols : states[s] # None => s \in registered
  /\ Written(states)
  /\ \A r \in trades \cup anomalies : r.id < -budget.writing
  /\ faults = counters["storage_errors"] + counters["cache_errors"]

\* the counts a reading began with, which the counters only grow from
SnapshotBegun ==
  request.pc \in {"snapshot", "summary"} =>
    /\ request.counts \in [CounterNames -> Nat]
    /\ \A c \in CounterNames : request.counts[c] <= counters[c]
    /\ request.last \in 0 .. last_message
    /\ request.at \in Nat
    /\ request.arrived.completed \in [Totals -> Nat]
    /\ \A t \in Totals :
         /\ request.arrived.completed[t] <= request.counts[t]
         /\ request.arrived.completed[t] <= SumOfParts(request.counts, t)
    /\ request.arrived.faults = request.counts["storage_errors"] + request.counts["cache_errors"]

TimelineBegun ==
  /\ request.pc \in {"trades", "timeline"} =>
       /\ request.symbol \in Symbols /\ request.at \in Nat
       /\ request.arrived.trades \subseteq Of(TradeRows, request.symbol)
       /\ request.arrived.anomalies \subseteq Of(AnomalyRows, request.symbol)
       /\ \A r \in request.arrived.trades \cup request.arrived.anomalies : r.id < -budget.writing
  /\ request.pc = "timeline" =>
       /\ request.rows \subseteq TradeRows /\ IsFiniteSet(request.rows)
       /\ ShowsNewest(request.rows, request.arrived.trades \cap trades, TimelinePointLimit, Time)

\* every market that had a state has one, the same or a later one
AtLeast(later, earlier) ==
  \A s \in Symbols : earlier[s] # None => later[s] # None /\ NoOlder(later[s], earlier[s])

DashboardBegun ==
  /\ request.pc \in {"symbols", "states", "recent", "build", "summary"} =>
       /\ request.runtime \in RuntimeSnapshots
       /\ request.arrived.states \in Stamps
  /\ request.pc \in {"symbols", "states"} /\ ~request.cleared =>
       Written(request.arrived.states) /\ AtLeast(states, request.arrived.states)
  /\ request.pc \in {"states", "recent", "build", "summary"} =>
       /\ request.runtime.symbols \subseteq request.listed
       /\ request.listed \subseteq Symbols
       /\ ~request.cleared =>
            \A s \in Symbols : request.arrived.states[s] # None => s \in request.listed
  /\ request.pc \in {"recent", "build", "summary"} =>
       /\ request.states \in Stamps
       /\ ~request.cleared => AtLeast(request.states, request.arrived.states)

CountersInv == TelemetryTypeOK /\ ErrorsAddUp /\ StoresTypeOK /\ StoresInOrder /\ SnapshotBegun
ReadingsInv == TimelineBegun /\ DashboardBegun
ApiInv == CountersInv /\ ReadingsInv
=============================================================================
