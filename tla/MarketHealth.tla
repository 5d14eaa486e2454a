---------------------------- MODULE MarketHealth ----------------------------
(***************************************************************************)
(* What the service says of a symbol's health (src/src/health/scoring.rs): *)
(* a base score less a penalty for every recent anomaly and for a stale    *)
(* state.  Two requests ask for it (src/src/api/handlers.rs):              *)
(*   - market_health takes the time, reads the state and then the symbol's *)
(*     newest anomalies;                                                   *)
(*   - the dashboard reads all states, then the newest anomalies of all    *)
(*     symbols, and takes the time last.                                   *)
(* Meanwhile the pipeline (src/src/ingestion/pipeline.rs) caches states,   *)
(* raises anomalies and stores them one by one, and a switch may reset the *)
(* cache and the tables.                                                   *)
(*                                                                         *)
(* Which anomalies a state raises is left open, apart from StaleData       *)
(* (DetectorEngine has the detectors); all other types stand as PriceMove, *)
(* for scoring tells them apart by severity only.  No detector raises Info.*)
(***************************************************************************)
EXTENDS Integers, Sequences, FiniteSets, FiniteSetsExt

CONSTANTS
  Symbols, None,
  BaseScore, InfoPenalty, WarningPenalty, CriticalPenalty, StalePenalty,
  Window,                    \* recent_anomaly_window_secs
  HealthyMin, DegradedMin,
  StaleAfter,                \* stale_data_ms_threshold
  Delays,                    \* how late an event may arrive
  HealthLimit,               \* HEALTH_ANOMALY_LIMIT
  DashboardLimit,            \* DEFAULT_ANOMALY_LIMIT
  MaxTime, MaxEvents, MaxErrors  \* bounds

\* the settings that are accepted at the start
ValidHealthSettings ==
  /\ {BaseScore, CriticalPenalty, StalePenalty, HealthyMin} \subseteq 0..100
  /\ InfoPenalty \in 0..WarningPenalty /\ WarningPenalty \in 0..CriticalPenalty
  /\ DegradedMin \in Nat /\ DegradedMin < HealthyMin /\ HealthyMin <= BaseScore
  /\ Window \in Nat \ {0}

ASSUME HealthAssumption ==
  /\ ValidHealthSettings
  /\ {StaleAfter, HealthLimit, DashboardLimit} \subseteq Nat \ {0}
  /\ {MaxTime, MaxEvents, MaxErrors} \cup Delays \subseteq Nat
  /\ None \notin Nat /\ None \notin [time : Nat, event : Nat, run : Nat]

VARIABLES
  now,
  aggregate,   \* the run's last_event_time per symbol, None before an event
  event_no,    \* history: numbers the events
  run,         \* history: the number of the run's first event
  pipe,        \* where the pipeline stands with its event
  cache,       \* the state in Redis: its last_event_time and its event
  anomalies,   \* the table; of an anomaly also what it was raised about
  request,     \* the request in progress
  answer,      \* what the last step answered, None if it was not the end of a request
  cache_errors, storage_errors

pipeline == <<aggregate, event_no, run, pipe, cache, anomalies>>
vars == <<now, pipeline, request, answer, cache_errors, storage_errors>>

NoEvent == [pc |-> "recv", symbol |-> None, state |-> None, cached |-> FALSE,
            pending |-> <<>>]
NoRequest == [pc |-> "idle", symbol |-> None, at |-> 0, states |-> None,
              rows |-> {}, cut |-> FALSE, arrived |-> None]

Init ==
  /\ now = 0
  /\ aggregate = [s \in Symbols |-> None]
  /\ event_no = 0 /\ run = 1
  /\ pipe = NoEvent
  /\ cache = [s \in Symbols |-> None]
  /\ anomalies = {}
  /\ request = NoRequest
  /\ answer = None
  /\ cache_errors = 0 /\ storage_errors = 0

CountCacheError ==
  /\ cache_errors + storage_errors < MaxErrors
  /\ cache_errors' = cache_errors + 1
  /\ UNCHANGED storage_errors

CountStorageError ==
  /\ cache_errors + storage_errors < MaxErrors
  /\ storage_errors' = storage_errors + 1
  /\ UNCHANGED cache_errors

-----------------------------------------------------------------------------
(* Scoring: evaluate_health *)

LastEventAge(state, t) == IF t > state.time THEN t - state.time ELSE 0

IsStale(state, t) == LastEventAge(state, t) >= StaleAfter

RecentAnomalies(rows, t) == {r \in rows : t <= r.created + Window /\ r.created <= t}

SeverityPenalty(severity) ==
  CASE severity = "Info" -> InfoPenalty
    [] severity = "Warning" -> WarningPenalty
    [] severity = "Critical" -> CriticalPenalty

AnomalyPenalty(r) ==
  IF r.type = "StaleData" THEN StalePenalty ELSE SeverityPenalty(r.severity)

\* mutant: any StaleData anomaly that was read stands for the state's penalty
AddsStatePenalty_AnyRow(state, rows, t) ==
  IsStale(state, t) /\ \A r \in rows : r.type # "StaleData"

\* a stale state is penalised itself unless a recent StaleData anomaly is
AddsStatePenalty(state, rows, t) ==
  IsStale(state, t) /\ \A r \in RecentAnomalies(rows, t) : r.type # "StaleData"

\* at most 101 penalties of at most 100: the u16 sum does not saturate
TotalPenalty(state, rows, t) ==
  MapThenSumSet(AnomalyPenalty, RecentAnomalies(rows, t))
    + (IF AddsStatePenalty(state, rows, t) THEN StalePenalty ELSE 0)

ComputeScore(total) == IF total < BaseScore THEN BaseScore - total ELSE 0

Classify(score) ==
  CASE score >= HealthyMin -> "Healthy"
    [] score < HealthyMin /\ score >= DegradedMin -> "Degraded"
    [] OTHER -> "Unhealthy"

EvaluateHealth(state, rows, t) ==
  LET score == ComputeScore(TotalPenalty(state, rows, t))
  IN  [score |-> score, status |-> Classify(score), evaluated_at |-> t,
       counted |-> RecentAnomalies(rows, t),
       state_penalty |-> AddsStatePenalty(state, rows, t),
       state |-> state]

\* get_recent_anomalies: the newest by created_at; equal ones in any order
GetRecentAnomalies(rows, limit) ==
  {S \in SUBSET rows :
     /\ Cardinality(S) = Min({limit, Cardinality(rows)})
     /\ \A r \in S, q \in rows \ S : r.created >= q.created}

-----------------------------------------------------------------------------
(* The pipeline *)

\* the aggregator keeps the newest event time; an event may be late
Receive(s, time) ==
  /\ pipe.pc = "recv" /\ event_no < MaxEvents
  /\ LET newest == IF aggregate[s] = None THEN time ELSE Max({time, aggregate[s]})
     IN  /\ aggregate' = [aggregate EXCEPT ![s] = newest]
         /\ pipe' = [NoEvent EXCEPT !.pc = "cache", !.symbol = s,
                       !.state = [time |-> newest, event |-> event_no + 1, run |-> run]]
  /\ event_no' = event_no + 1
  /\ answer' = None
  /\ UNCHANGED <<now, run, cache, anomalies, request, cache_errors, storage_errors>>

\* update_latest_state_cache: a failure is counted and the pipeline goes on
UpdateCache ==
  /\ pipe.pc = "cache"
  /\ \/ /\ cache' = [cache EXCEPT ![pipe.symbol] = pipe.state]
        /\ pipe' = [pipe EXCEPT !.pc = "detect", !.cached = TRUE]
        /\ UNCHANGED <<cache_errors, storage_errors>>
     \/ /\ CountCacheError
        /\ pipe' = [pipe EXCEPT !.pc = "detect"]
        /\ UNCHANGED cache
  /\ answer' = None
  /\ UNCHANGED <<now, aggregate, event_no, run, anomalies, request>>

Raised(type, severity) ==
  [symbol |-> pipe.symbol, type |-> type, severity |-> severity, created |-> now,
   event |-> pipe.state.event, cached |-> pipe.cached]

\* the anomalies of the state: the others, then StaleData if it is; the
\* cooldown may hold back any of them
Detect ==
  /\ pipe.pc = "detect"
  /\ LET stale == Raised("StaleData",
                    IF LastEventAge(pipe.state, now) >= 2 * StaleAfter
                    THEN "Critical" ELSE "Warning")
     IN  \E others \in {<<>>} \cup
                        {<<Raised("PriceMove", v)>> : v \in {"Warning", "Critical"}},
            rest \in {<<>>} \cup (IF IsStale(pipe.state, now) THEN {<<stale>>} ELSE {}) :
           LET found == others \o rest
           IN  pipe' = IF found = <<>> THEN NoEvent
                       ELSE [pipe EXCEPT !.pc = "insert", !.pending = found]
  /\ answer' = None
  /\ UNCHANGED <<now, aggregate, event_no, run, cache, anomalies, request,
                 cache_errors, storage_errors>>

\* insert_anomaly, one after the other; a failure is counted and the next follows
InsertAnomaly ==
  /\ pipe.pc = "insert"
  /\ \/ anomalies' = anomalies \cup {Head(pipe.pending)}
        /\ UNCHANGED <<cache_errors, storage_errors>>
     \/ CountStorageError /\ UNCHANGED anomalies
  /\ pipe' = IF Len(pipe.pending) = 1 THEN NoEvent
             ELSE [pipe EXCEPT !.pending = Tail(pipe.pending)]
  /\ answer' = None
  /\ UNCHANGED <<now, aggregate, event_no, run, cache, request>>

\* a switch of the run, the old one drained; RuntimeSupervisor has its steps
Switch(reset_state, reset_storage) ==
  /\ pipe.pc = "recv"
  /\ aggregate' = [s \in Symbols |-> None]
  /\ cache' = IF reset_state THEN [s \in Symbols |-> None] ELSE cache
  /\ anomalies' = IF reset_storage THEN {} ELSE anomalies
  /\ run' = event_no + 1
  /\ answer' = None
  /\ UNCHANGED <<now, event_no, pipe, request, cache_errors, storage_errors>>

-----------------------------------------------------------------------------
(* The requests *)

Reply(symbol, outcome, health) ==
  /\ request' = NoRequest
  /\ answer' = [symbol |-> symbol, outcome |-> outcome, health |-> health]

Only(s, x) == [q \in Symbols |-> IF q = s THEN x ELSE None]

Fail(symbol, outcome) == Reply(symbol, outcome, [s \in Symbols |-> None])

\* market_health takes its time before it reads anything
MarketHealth(s) ==
  /\ request.pc = "idle"
  /\ request' = [NoRequest EXCEPT !.pc = "state", !.symbol = s, !.at = now,
                   !.arrived = cache[s]]
  /\ answer' = None
  /\ UNCHANGED <<now, pipeline, cache_errors, storage_errors>>

\* mutant: the time is taken after the state was read
LoadMarketState_TimeAfter ==
  /\ request.pc = "state" /\ request.arrived # None
  /\ request' = [request EXCEPT !.pc = "anomalies", !.at = now,
                   !.states = Only(request.symbol, request.arrived)]
  /\ answer' = None
  /\ UNCHANGED <<now, pipeline, cache_errors, storage_errors>>

\* load_market_state: a symbol without a state is not found, an error is
\* counted (CacheUnavailable, or Internal for a value that does not decode)
LoadMarketState ==
  /\ request.pc = "state"
  /\ \/ /\ cache[request.symbol] # None
        /\ request' = [request EXCEPT !.pc = "anomalies", !.states = Only(request.symbol, cache[request.symbol])]
        /\ answer' = None
        /\ UNCHANGED <<cache_errors, storage_errors>>
     \/ /\ cache[request.symbol] = None
        /\ Fail(request.symbol, "not_found")
        /\ UNCHANGED <<cache_errors, storage_errors>>
     \/ CountCacheError
        /\ \E outcome \in {"cache_unavailable", "internal"} : Fail(request.symbol, outcome)
  /\ UNCHANGED <<now, pipeline>>

RowsOf(s) == {r \in anomalies : r.symbol = s}

\* mutant: the time of the evaluation is taken when everything is read
AnswerHealth_TimeLast ==
  /\ request.pc = "anomalies"
  /\ \E rows \in GetRecentAnomalies(RowsOf(request.symbol), HealthLimit) :
       Reply(request.symbol, "ok", Only(request.symbol,
         EvaluateHealth(request.states[request.symbol], rows, now)))
  /\ UNCHANGED <<now, pipeline, cache_errors, storage_errors>>

\* the symbol's anomalies, and the evaluation as of the request's time
AnswerHealth ==
  /\ request.pc = "anomalies"
  /\ \/ /\ \E rows \in GetRecentAnomalies(RowsOf(request.symbol), HealthLimit) :
             Reply(request.symbol, "ok", Only(request.symbol,
               EvaluateHealth(request.states[request.symbol], rows, request.at)))
        /\ UNCHANGED <<cache_errors, storage_errors>>
     \/ CountStorageError /\ Fail(request.symbol, "internal")
  /\ UNCHANGED <<now, pipeline>>

\* the dashboard: the states of all symbols (MarketStateCache has the two
\* commands that find and read them)
DashboardStates ==
  /\ request.pc = "idle"
  /\ \/ /\ request' = [NoRequest EXCEPT !.pc = "recent", !.states = cache]
        /\ answer' = None
        /\ UNCHANGED <<cache_errors, storage_errors>>
     \/ CountCacheError
        /\ \E outcome \in {"cache_unavailable", "internal"} : Fail(None, outcome)
  /\ UNCHANGED <<now, pipeline>>

\* load_dashboard_recent_anomalies: of all symbols together
DashboardAnomalies ==
  /\ request.pc = "recent"
  /\ \/ /\ \E rows \in GetRecentAnomalies(anomalies, DashboardLimit) :
             request' = [request EXCEPT !.pc = "evaluate", !.rows = rows,
                           !.cut = rows # anomalies]
        /\ answer' = None
        /\ UNCHANGED <<cache_errors, storage_errors>>
     \/ CountStorageError /\ Fail(None, "internal")
  /\ UNCHANGED <<now, pipeline>>

\* build_dashboard_symbol_summaries, as of the time the answer is put together
AnswerDashboard ==
  /\ request.pc = "evaluate"
  /\ Reply(None, "ok",
       [s \in Symbols |->
          IF request.states[s] = None THEN None
          ELSE EvaluateHealth(request.states[s],
                              {r \in request.rows : r.symbol = s}, now)])
  /\ UNCHANGED <<now, pipeline, cache_errors, storage_errors>>

-----------------------------------------------------------------------------
Tick ==
  /\ now < MaxTime
  /\ now' = now + 1
  /\ answer' = None
  /\ UNCHANGED <<pipeline, request, cache_errors, storage_errors>>

Next ==
  \/ \E s \in Symbols, d \in Delays : d <= now /\ Receive(s, now - d)
  \/ UpdateCache
  \/ Detect
  \/ InsertAnomaly
  \/ \E reset_state, reset_storage \in BOOLEAN : Switch(reset_state, reset_storage)
  \/ \E s \in Symbols : MarketHealth(s)
  \/ LoadMarketState
  \/ AnswerHealth
  \/ DashboardStates
  \/ DashboardAnomalies
  \/ AnswerDashboard
  \/ Tick

Spec == Init /\ [][Next]_vars

-----------------------------------------------------------------------------
(* What makes the answers right *)

\* market_health, or the dashboard, is about to give an evaluation
HealthAnswered == request.pc = "anomalies" /\ answer' # None /\ answer'.outcome = "ok"
DashboardAnswered == request.pc = "evaluate" /\ request'.pc = "idle"

\* the score by counting: every anomaly of the window by its kind, and a stale
\* state as one StaleData anomaly if there is none
ReferenceScore(rows, state, t) ==
  LET Count(P(_)) == Cardinality({r \in rows : r.created \in (t - Window)..t /\ P(r)})
      stale == Count(LAMBDA r : r.type = "StaleData")
      warning == Count(LAMBDA r : r.type # "StaleData" /\ r.severity = "Warning")
      critical == Count(LAMBDA r : r.type # "StaleData" /\ r.severity = "Critical")
      state_stale == IF t - state.time >= StaleAfter THEN 1 ELSE 0
  IN  Max({0, BaseScore - warning * WarningPenalty - critical * CriticalPenalty
                - Max({stale, state_stale}) * StalePenalty})

LeastPenalty == Min({WarningPenalty, StalePenalty})

\* the step that answers gives the score of all anomalies: of those stored, or
\* of those the dashboard has read
ExactAnswer ==
  /\ HealthAnswered =>
       LET rows == RowsOf(request.symbol)
           h == answer'.health[request.symbol]
           newer == Cardinality({r \in rows : r.created > h.evaluated_at})
       IN  \/ Cardinality(rows) <= HealthLimit
           \/ (HealthLimit - newer) * LeastPenalty >= BaseScore
           => h.score = ReferenceScore(rows, h.state, h.evaluated_at)
  /\ DashboardAnswered /\ ~request.cut =>
       \A s \in Symbols : answer'.health[s] # None =>
         answer'.health[s].score =
           ReferenceScore({r \in request.rows : r.symbol = s},
                          answer'.health[s].state, answer'.health[s].evaluated_at)

\* Although market_health reads a limited number of anomalies its score is that
\* of all of them: what the limit cuts off comes after enough penalties to reach
\* zero, unless anomalies newer than the evaluation take up too much of the
\* limit.  The dashboard's score is exact if its limit, shared by all symbols,
\* cut nothing.
ScoreIsExact == [][ExactAnswer]_vars

\* the step that answers counts no anomaly of a later state
FittingAnswer ==
  HealthAnswered =>
    LET h == answer'.health[request.symbol]
    IN  \A r \in h.counted :
          r.cached /\ r.created # h.evaluated_at => r.event <= h.state.event

\* The state and the anomalies of a market_health answer are read one after the
\* other, and yet an anomaly it counts was raised about the state it shows or
\* an earlier one, unless that state could not be cached (or it was raised at
\* the very instant of the evaluation).  This takes a wall clock that does not
\* step back (Tick), or an anomaly of a later state could seem to be older than
\* the request, and one pipeline at a time (OneIngestionAtATime).
PenaltiesFitState == [][FittingAnswer]_vars

\* the step that answers penalises what was stale already
RealAnswer ==
  HealthAnswered =>
    LET h == answer'.health[request.symbol]
    IN  /\ h.state_penalty
        /\ request.arrived # None
        /\ request.arrived.run = h.state.run
        => IsStale(request.arrived, request.at)

\* However long the reads take, market_health penalises a state as stale only if
\* the symbol's state was stale when the request arrived (both of one run, for a
\* new run may replay older data).
StaleIsReal == [][RealAnswer]_vars

-----------------------------------------------------------------------------
(* The inductive invariant behind the safety theorems *)

States == [time : Nat, event : Nat, run : Nat]
Rows == [symbol : Symbols, type : {"StaleData", "PriceMove"},
         severity : {"Warning", "Critical"}, created : Nat, event : Nat,
         cached : BOOLEAN]

PipelineTypeOK ==
  /\ now \in Nat
  /\ aggregate \in [Symbols -> Nat \cup {None}]
  /\ event_no \in Nat /\ run \in 1 .. event_no + 1
  /\ pipe \in [pc : {"recv", "cache", "detect", "insert"}, symbol : Symbols \cup {None},
               state : States \cup {None}, cached : BOOLEAN, pending : Seq(Rows)]
  /\ pipe.pc # "recv" => pipe.symbol \in Symbols /\ pipe.state \in States
  /\ pipe.pc = "insert" <=> pipe.pending # <<>>
  /\ cache \in [Symbols -> States \cup {None}]
  /\ anomalies \subseteq Rows /\ IsFiniteSet(anomalies)

RequestTypeOK ==
  /\ request \in [pc : {"idle", "state", "anomalies", "recent", "evaluate"},
                  symbol : Symbols \cup {None}, at : Nat, states : {request.states},
                  rows : {request.rows}, cut : BOOLEAN, arrived : States \cup {None}]
  /\ request.pc \in {"state", "anomalies"} => request.symbol \in Symbols /\ request.at <= now
  /\ request.pc = "anomalies" => request.states[request.symbol] \in States
  /\ request.pc \in {"recent", "evaluate"} =>
       request.states \in [Symbols -> States \cup {None}]
  /\ request.pc = "evaluate" => request.rows \subseteq Rows /\ IsFiniteSet(request.rows)

\* The variables stay in their domains.
TypeOK == PipelineTypeOK /\ RequestTypeOK

\* x is a state of symbol s that was there: of an event of its run, and if that
\* is the run in progress, no newer than what the run has aggregated
Seen(s, x) ==
  x # None =>
    /\ x.run <= x.event /\ x.event <= event_no
    /\ x.run = run => aggregate[s] # None /\ x.time <= aggregate[s]

\* within a run, x is no newer than y
NoNewer(x, y) == x # None /\ y # None /\ x.run = y.run => x.time <= y.time

\* Within a run the states of a symbol follow each other by event time, from
\* the pipeline over the cache to the request.
StatesInOrder ==
  /\ \A s \in Symbols : Seen(s, cache[s])
  /\ pipe.pc # "recv" =>
       /\ Seen(pipe.symbol, pipe.state)
       /\ pipe.state.event = event_no /\ pipe.state.run = run
       /\ pipe.state.time = aggregate[pipe.symbol]
  /\ request.pc = "state" =>
       /\ Seen(request.symbol, request.arrived)
       /\ NoNewer(request.arrived, cache[request.symbol])
  /\ request.pc = "anomalies" =>
       NoNewer(request.arrived, request.states[request.symbol])

\* the anomalies that are stored, or about to be
Found == anomalies \cup {pipe.pending[i] : i \in DOMAIN pipe.pending}

\* An anomaly whose state was cached is about the state in the cache or an
\* earlier one; one raised before a request came, about the state it has read.
AnomaliesInOrder ==
  /\ pipe.pc \in {"detect", "insert"} /\ pipe.cached => cache[pipe.symbol] = pipe.state
  /\ pipe.pc = "cache" => ~pipe.cached
  /\ \A r \in Found :
       /\ r.event <= event_no
       /\ r.cached => cache[r.symbol] = None \/ r.event <= cache[r.symbol].event
       /\ (request.pc = "anomalies" /\ r.symbol = request.symbol /\ r.cached
             /\ r.created < request.at) => r.event <= request.states[request.symbol].event

HealthInv == TypeOK /\ StatesInOrder /\ AnomaliesInOrder
=============================================================================
