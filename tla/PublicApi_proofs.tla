-------------------------- MODULE PublicApi_proofs --------------------------
(***************************************************************************)
(* Proofs about PublicApi: what a reader of the counters, of Redis and of  *)
(* PostgreSQL is told while all of them change.                            *)
(***************************************************************************)
EXTENDS PublicApi, FiniteSetTheorems, TLAPS

\* The names of the counters; an event is counted in no counter of errors.
LEMMA Names ==
  /\ Sources = {"replay", "binance"}
  /\ Increments = {{"parse_errors", "replay_parse_errors"}, {"parse_errors", "binance_parse_errors"},
                   {"reconnect_attempts", "binance_reconnect_attempts"}}
  /\ ErrorCounters = {"parse_errors", "replay_parse_errors", "binance_parse_errors",
                      "reconnect_attempts", "binance_reconnect_attempts",
                      "storage_errors", "cache_errors"}
  /\ ErrorCounters \subseteq CounterNames
  /\ \A s \in Sources, k \in EventKinds : EventCounters[s][k] \in CounterNames \ ErrorCounters
<1>1. Sources = {"replay", "binance"}
  BY DEF Sources, EventCounters
<1>2. ParseErrors["replay"] = "replay_parse_errors" /\ ParseErrors["binance"] = "binance_parse_errors"
  BY DEF ParseErrors
<1>3. Increments = {{"parse_errors", "replay_parse_errors"}, {"parse_errors", "binance_parse_errors"},
                    {"reconnect_attempts", "binance_reconnect_attempts"}}
  BY <1>1, <1>2 DEF Increments
<1>4. ErrorCounters = {"parse_errors", "replay_parse_errors", "binance_parse_errors",
                       "reconnect_attempts", "binance_reconnect_attempts",
                       "storage_errors", "cache_errors"}
  <2>1. UNION Increments = {"parse_errors", "replay_parse_errors", "binance_parse_errors",
                            "reconnect_attempts", "binance_reconnect_attempts"}
    <3>1. ASSUME NEW c
          PROVE  c \in UNION Increments <=>
                   c \in {"parse_errors", "replay_parse_errors", "binance_parse_errors",
                         "reconnect_attempts", "binance_reconnect_attempts"}
      <4> HIDE <1>1, <1>2
      <4>1. c \in UNION Increments <=> \E pair \in Increments : c \in pair
        OBVIOUS
      <4>2. ASSUME NEW pair \in Increments, c \in pair
            PROVE  c \in {"parse_errors", "replay_parse_errors", "binance_parse_errors",
                          "reconnect_attempts", "binance_reconnect_attempts"}
        BY <1>3, <4>2, Zenon
      <4>3. ASSUME c \in {"parse_errors", "replay_parse_errors", "binance_parse_errors",
                          "reconnect_attempts", "binance_reconnect_attempts"}
            PROVE  \E pair \in Increments : c \in pair
        BY <1>3, <4>3, Zenon
      <4> QED
        BY <4>1, <4>2, <4>3
    <3> QED
      BY <3>1, Zenon
  <2>2. ErrorCounters = {"parse_errors", "replay_parse_errors", "binance_parse_errors",
                         "reconnect_attempts", "binance_reconnect_attempts"}
                          \cup {"storage_errors", "cache_errors"}
    BY <2>1, Zenon DEF ErrorCounters
  <2> QED
    BY <2>2
<1>5. ErrorCounters \subseteq CounterNames
  <2>1. {"replay_parse_errors", "binance_parse_errors"} \subseteq {ParseErrors[s] : s \in Sources}
    BY <1>1, <1>2
  <2>2. {"binance_reconnect_attempts", "storage_errors", "cache_errors"} \subseteq CounterNames
    BY Zenon DEF CounterNames
  <2>3. Totals \subseteq CounterNames /\ {ParseErrors[s] : s \in Sources} \subseteq CounterNames
    BY Zenon DEF CounterNames
  <2> QED
    BY <1>4, <2>1, <2>2, <2>3 DEF Totals
<1>6. ASSUME NEW s \in Sources, NEW k \in EventKinds
      PROVE  EventCounters[s][k] \in CounterNames \ ErrorCounters
  <2>1. k \in {"trade", "quote", "depth"} /\ s \in {"replay", "binance"}
    BY <1>1, ApiAssumption
  <2>2. DOMAIN EventCounters[s] = {"trade", "quote", "depth"}
    BY <2>1 DEF EventCounters
  <2>3. EventCounters[s][k] \in CounterNames
    <3>1. EventCounters[s][k] \in {EventCounters[s][x] : x \in DOMAIN EventCounters[s]}
      BY <2>1, <2>2
    <3> QED
      BY <3>1, Zenon DEF CounterNames
  <2>4. EventCounters[s][k] \in {"replay_trade_events", "replay_quote_events", "replay_depth_events",
                                 "binance_trade_events", "binance_quote_events",
                                 "binance_depth_events"}
    BY <2>1 DEF EventCounters
  <2> QED
    BY <1>4, <2>3, <2>4
<1> QED
  BY <1>1, <1>3, <1>4, <1>5, <1>6

-----------------------------------------------------------------------------
(* What a step may be *)

\* what happens to the counters
CountingStep ==
  \/ UNCHANGED <<telemetry, faults>>
  \/ /\ faults' = faults
     /\ \/ \E source \in Sources, kind \in EventKinds : RecordEvent(source, kind, now)
        \/ \E source \in Sources : IncrementParseErrors(source)
        \/ IncrementReconnectAttempts
        \/ \E task \in Tasks : \E c \in adding[task] : Add(task, c)
  \/ \E store \in {"storage_errors", "cache_errors"} : CountFault(store)

\* a request goes on to r
GoesOn(r) == Continue(r) /\ NoFault /\ UNCHANGED <<now, stores>>

\* what happens to the request in progress
RequestGoesOn ==
  \/ \E endpoint \in {"pipeline_health", "metrics"} : BeginSnapshot(endpoint)
  \/ \E s \in Symbols :
       GoesOn([NoRequest EXCEPT !.pc = "trades", !.symbol = s, !.at = now,
                 !.arrived = [trades |-> Of(trades, s), anomalies |-> Of(anomalies, s)]])
  \/ /\ request.pc = "trades"
     /\ \E rows \in GetRecentTrades(request.symbol) :
          GoesOn([request EXCEPT !.pc = "timeline", !.rows = rows])
  \/ GoesOn([NoRequest EXCEPT !.pc = "symbols", !.runtime = runtime,
               !.arrived = [states |-> states]])
  \/ /\ request.pc = "symbols"
     /\ GoesOn([request EXCEPT !.pc = "states", !.listed = request.runtime.symbols \cup registered])
  \/ request.pc = "states" /\ GoesOn([request EXCEPT !.pc = "recent", !.states = states])
  \/ /\ request.pc = "recent"
     /\ \E rows \in GetRecentAnomalies(None, DefaultAnomalyLimit) :
          GoesOn([request EXCEPT !.pc = "build", !.recent = rows])
  \/ DashboardTime

\* what happens to the stores
WritingStep ==
  \/ \E s \in Symbols, d \in Delays : InsertTrade(s, d)
  \/ \E s \in Symbols, d \in Delays : InsertAnomaly(s, d)
  \/ \E r \in Runs, s \in Symbols, d \in Delays : SetMarketState(r, s, d)
  \/ ClearKeys
  \/ ClearRegistered
  \/ Truncate
  \/ \E r \in RuntimeSnapshots : UpdateRuntime(r)

\* the stores stay as they are
Reading ==
  /\ UNCHANGED stores
  /\ \/ budget' = budget
     \/ \E what \in {"counting", "faults"} : Spend(what)
  /\ now' = now \/ Tick

\* A step of the system is one of these, whatever it does to the counters.
LEMMA StepKinds ==
  ASSUME [Next]_vars
  PROVE  /\ CountingStep
         /\ \/ Reading /\ request' \in {request, NoRequest}
            \/ RequestGoesOn
            \/ WritingStep
<1> DEFINE Goal == /\ CountingStep
                   /\ \/ Reading /\ request' \in {request, NoRequest}
                      \/ RequestGoesOn
                      \/ WritingStep
<1> USE DEF telemetry, stores
<1>0. ASSUME NEW store \in {"storage_errors", "cache_errors"}, CountFault(store),
             request' \in {request, NoRequest}, UNCHANGED <<now, stores>>
      PROVE  Goal
  BY <1>0 DEF CountingStep, Reading, CountFault
<1>1. ASSUME UNCHANGED <<telemetry, faults, stores, budget>>, request' \in {request, NoRequest},
             now' = now \/ Tick
      PROVE  Goal
  BY <1>1 DEF CountingStep, Reading
<1>2. CASE UNCHANGED vars
  BY <1>1, <1>2 DEF vars
<1>3. CASE Deliver \/ Tick
  BY <1>1, <1>3 DEF Deliver, Tick
<1>4. CASE IngestionStep
  <2> USE DEF CountingStep, Reading, Counting, Writing, WritingStep
  <2>1. ASSUME NEW source \in Sources, NEW kind \in EventKinds, IngestEvent(source, kind)
        PROVE  Goal
    BY <2>1 DEF IngestEvent
  <2>2. ASSUME NEW source \in Sources, CountParseError(source) PROVE Goal
    BY <2>2 DEF CountParseError
  <2>3. CASE CountReconnect
    BY <2>3 DEF CountReconnect
  <2>4. ASSUME NEW task \in Tasks, NEW c \in adding[task], FinishCounting(task, c) PROVE Goal
    BY <2>4 DEF FinishCounting
  <2>5. ASSUME NEW store \in {"storage_errors", "cache_errors"}, StoreFault(store) PROVE Goal
    BY <1>0, <2>5 DEF StoreFault
  <2>6. ASSUME NEW s \in Symbols, NEW d \in Delays, InsertTrade(s, d) PROVE Goal
    BY <2>6 DEF InsertTrade
  <2>7. ASSUME NEW s \in Symbols, NEW d \in Delays, InsertAnomaly(s, d) PROVE Goal
    BY <2>7 DEF InsertAnomaly
  <2>8. ASSUME NEW r \in Runs, NEW s \in Symbols, NEW d \in Delays, SetMarketState(r, s, d) PROVE Goal
    BY <2>8 DEF SetMarketState
  <2>9. CASE ClearKeys
    BY <2>9 DEF ClearKeys
  <2>10. CASE ClearRegistered
    BY <2>10 DEF ClearRegistered
  <2>11. CASE Truncate
    BY <2>11 DEF Truncate
  <2>12. ASSUME NEW r \in RuntimeSnapshots, UpdateRuntime(r) PROVE Goal
    BY <2>12 DEF UpdateRuntime
  <2> QED
    BY <1>4, <2>1, <2>2, <2>3, <2>4, <2>5, <2>6, <2>7, <2>8, <2>9, <2>10, <2>11, <2>12
       DEF IngestionStep
<1>5. CASE RequestStep
  <2> USE DEF Step, Immediate, NoFault
  <2>0. ASSUME NEW endpoint, FailCache(endpoint) \/ FailStorage(endpoint), UNCHANGED <<now, stores>>
        PROVE  Goal
    BY <1>0, <2>0 DEF FailCache, FailStorage, Refuse, Reply
  <2>00. ASSUME NEW endpoint, NEW status, NEW source, NEW body, Reply(endpoint, status, source, body),
                NoFault, UNCHANGED <<now, stores>>
         PROVE  Goal
    BY <1>1, <2>00 DEF Reply
  <2>01. ASSUME RequestGoesOn, NoFault PROVE Goal
    BY <2>01 DEF CountingStep
  <2>1. CASE Health \/ GetRuntimeMode
    BY <2>1, <2>00 DEF Health, GetRuntimeMode
  <2>2. ASSUME NEW endpoint \in {"pipeline_health", "metrics"}, BeginSnapshot(endpoint) PROVE Goal
    BY <2>2, <2>01 DEF RequestGoesOn, BeginSnapshot
  <2>3. CASE PipelineHealth \/ Metrics
    BY <2>3, <2>00 DEF PipelineHealth, Metrics
  <2>4. CASE GetSymbols
    BY <2>4, <2>0, <2>00 DEF GetSymbols
  <2>5. ASSUME NEW s \in Symbols \cup {BadSymbol}, MarketState(s) PROVE Goal
    BY <2>5, <2>0, <2>00 DEF MarketState, Refuse
  <2>6. ASSUME NEW s \in Symbols \cup {BadSymbol, None}, NEW limit \in Limits, Anomalies(s, limit)
        PROVE  Goal
    BY <2>6, <2>0, <2>00 DEF Anomalies, Refuse
  <2>7. ASSUME NEW s \in Symbols \cup {BadSymbol}, NEW query \in Modes, MarketTimeline(s, query)
        PROVE  Goal
    <3>1. CASE \E endpoint, status, source, body : Reply(endpoint, status, source, body)
      BY <2>7, <3>1, <2>00 DEF MarketTimeline
    <3>2. CASE /\ s \in Symbols
               /\ Continue([NoRequest EXCEPT !.pc = "trades", !.symbol = s, !.at = now,
                    !.arrived = [trades |-> Of(trades, s), anomalies |-> Of(anomalies, s)]])
      BY <2>7, <3>2, <2>01 DEF MarketTimeline, RequestGoesOn, GoesOn
    <3> QED
      BY <2>7, <3>1, <3>2 DEF MarketTimeline, Refuse
  <2>8. CASE LoadTimelineTrades
    BY <2>8, <2>0, <2>01 DEF LoadTimelineTrades, RequestGoesOn, GoesOn
  <2>9. CASE AnswerTimeline
    BY <2>9, <2>0, <2>00 DEF AnswerTimeline
  <2>10. ASSUME NEW query \in Modes, Dashboard(query) PROVE Goal
    <3>1. CASE Reply("dashboard", 200, "demo", DemoDashboard)
      BY <2>10, <3>1, <2>00 DEF Dashboard
    <3>2. CASE Continue([NoRequest EXCEPT !.pc = "symbols", !.runtime = runtime,
                           !.arrived = [states |-> states]])
      BY <2>10, <3>2, <2>01 DEF Dashboard, RequestGoesOn, GoesOn
    <3> QED
      BY <2>10, <3>1, <3>2 DEF Dashboard
  <2>11. CASE DashboardSymbols
    BY <2>11, <2>0, <2>01 DEF DashboardSymbols, RequestGoesOn, GoesOn
  <2>12. CASE DashboardStates
    BY <2>12, <2>0, <2>01 DEF DashboardStates, RequestGoesOn, GoesOn
  <2>13. CASE DashboardAnomalies
    BY <2>13, <2>0, <2>01 DEF DashboardAnomalies, RequestGoesOn, GoesOn
  <2>14. CASE DashboardTime
    BY <2>14, <2>01 DEF DashboardTime, RequestGoesOn
  <2>15. CASE AnswerDashboard
    BY <2>15, <2>00 DEF AnswerDashboard
  <2> QED
    BY <1>5, <2>1, <2>2, <2>3, <2>4, <2>5, <2>6, <2>7, <2>8, <2>9, <2>10, <2>11, <2>12, <2>13,
       <2>14, <2>15 DEF RequestStep
<1> QED
  BY <1>2, <1>3, <1>4, <1>5 DEF Next
-----------------------------------------------------------------------------
(* The counters *)

\* The greater of two integers.
LEMMA MaxOfTwo ==
  ASSUME NEW a \in Int, NEW b \in Int
  PROVE  Max({a, b}) = IF a >= b THEN a ELSE b
<1>1. Max({a, b}) = CHOOSE x \in {a, b} : \A y \in {a, b} : x >= y
  BY DEF Max
<1> QED
  BY <1>1

\* The lesser of two integers.
LEMMA MinOfTwo ==
  ASSUME NEW a \in Int, NEW b \in Int
  PROVE  Min({a, b}) = IF a <= b THEN a ELSE b
<1>1. Min({a, b}) = CHOOSE x \in {a, b} : \A y \in {a, b} : x =< y
  BY DEF Min
<1> QED
  BY <1>1

\* no counter ever goes back
CountersGrow ==
  /\ \A c \in CounterNames : counters[c] <= counters'[c]
  /\ last_message <= last_message'

FaultsCounted == faults = counters["storage_errors"] + counters["cache_errors"]

\* Whatever is counted, the types stay, the counters grow, and a fault is counted
\* with the operation that fails.
LEMMA CountingTypes ==
  ASSUME TelemetryTypeOK, now \in Nat, FaultsCounted, ErrorsAddUp, CountingStep
  PROVE  TelemetryTypeOK' /\ CountersGrow /\ FaultsCounted'
<1> USE DEF TelemetryTypeOK, CountersGrow, FaultsCounted, Tasks
<1>0. Totals \subseteq CounterNames /\ {"storage_errors", "cache_errors"} \subseteq CounterNames
  BY Names, Zenon DEF CounterNames
<1>1. CASE UNCHANGED <<telemetry, faults>>
  BY <1>0, <1>1 DEF telemetry
<1>2. ASSUME NEW source \in Sources, NEW kind \in EventKinds, RecordEvent(source, kind, now),
             faults' = faults
      PROVE  TelemetryTypeOK' /\ CountersGrow /\ FaultsCounted'
  <2>1. last_message' \in Nat /\ last_message <= last_message'
    BY <1>2, MaxOfTwo DEF RecordEvent
  <2>2. {EventCounters[source][kind]} \subseteq CounterNames
    BY Names
  <2>3. adding' \in [Tasks -> SUBSET CounterNames]
    BY <1>2, <2>2 DEF RecordEvent
  <2> QED
    BY <1>0, <1>2, <2>1, <2>3 DEF RecordEvent
<1>3. ASSUME NEW total \in Totals, NEW part \in CounterNames, IncrementTotalAndPart(total, part),
             faults' = faults
      PROVE  TelemetryTypeOK' /\ CountersGrow /\ FaultsCounted'
  BY <1>0, <1>3 DEF IncrementTotalAndPart
<1>4. ASSUME NEW task \in Tasks, NEW c \in adding[task], Add(task, c), faults' = faults
      PROVE  TelemetryTypeOK' /\ CountersGrow /\ FaultsCounted'
  <2>1. c \in CounterNames
    OBVIOUS
  <2>2. counters' = [counters EXCEPT ![c] = @ + 1]
    BY <1>4 DEF Add, Increment
  <2>3. counters' \in [CounterNames -> Nat] /\ \A x \in CounterNames : counters[x] <= counters'[x]
    BY <2>1, <2>2
  <2>4. adding' \in [Tasks -> SUBSET CounterNames]
    BY <1>4 DEF Add
  <2>5. completed' \in [Totals -> Nat]
    <3>1. completed' = completed
            \/ completed' = [completed EXCEPT !["reconnect_attempts"] = @ + 1]
            \/ completed' = [completed EXCEPT !["parse_errors"] = @ + 1]
      BY <1>4 DEF Add
    <3> QED
      BY <3>1 DEF Totals
  <2>6. c \notin {"storage_errors", "cache_errors"}
    <3>1. CASE task = "source"
      <4>1. PICK pair \in Increments : adding["source"] \subseteq pair
        BY DEF ErrorsAddUp
      <4> QED
        BY <3>1, <4>1, Names
    <3>2. CASE task = "pipeline"
      BY <3>2, Names DEF ErrorsAddUp
    <3> QED
      BY <3>1, <3>2
  <2> QED
    BY <1>0, <1>4, <2>1, <2>2, <2>3, <2>4, <2>5, <2>6 DEF Add
<1>5. ASSUME NEW store \in {"storage_errors", "cache_errors"}, CountFault(store)
      PROVE  TelemetryTypeOK' /\ CountersGrow /\ FaultsCounted'
  <2>1. counters' = [counters EXCEPT ![store] = @ + 1] /\ faults' = faults + 1
    BY <1>5 DEF CountFault, Increment
  <2>2. counters' \in [CounterNames -> Nat] /\ \A x \in CounterNames : counters[x] <= counters'[x]
    BY <1>0, <2>1
  <2>3. FaultsCounted'
    BY <1>0, <2>1
  <2> QED
    BY <1>5, <2>2, <2>3 DEF CountFault
<1>6. ASSUME NEW source \in Sources, IncrementParseErrors(source), faults' = faults
      PROVE  TelemetryTypeOK' /\ CountersGrow /\ FaultsCounted'
  <2>1. ParseErrors[source] \in CounterNames
    BY Zenon DEF CounterNames
  <2> QED
    BY <1>3, <1>6, <2>1 DEF IncrementParseErrors, Totals
<1>7. ASSUME IncrementReconnectAttempts, faults' = faults
      PROVE  TelemetryTypeOK' /\ CountersGrow /\ FaultsCounted'
  BY <1>3, <1>7, Names DEF IncrementReconnectAttempts, Totals
<1> QED
  BY <1>1, <1>2, <1>4, <1>5, <1>6, <1>7 DEF CountingStep

\* the counts of one family: a total, what is pending of it, and what completed
FamilyAddsUp(b, d, whole, parts, p, q) ==
  /\ b = whole + p
  /\ b = parts + q
  /\ d = IF p + q > 0 THEN b - 1 ELSE b

\* the source adds to the counters of one error, the pipeline to none of an error
AddingOneError ==
  /\ \/ adding["source"] \subseteq {"parse_errors", "replay_parse_errors"}
     \/ adding["source"] \subseteq {"parse_errors", "binance_parse_errors"}
     \/ adding["source"] \subseteq {"reconnect_attempts", "binance_reconnect_attempts"}
  /\ adding["pipeline"] \cap ErrorCounters = {}

\* ErrorsAddUp, counter by counter
ErrorsByCounter ==
  /\ AddingOneError
  /\ FamilyAddsUp(begun["parse_errors"], completed["parse_errors"], counters["parse_errors"],
       counters["replay_parse_errors"] + counters["binance_parse_errors"],
       Pending["parse_errors"], Pending["replay_parse_errors"] + Pending["binance_parse_errors"])
  /\ FamilyAddsUp(begun["reconnect_attempts"], completed["reconnect_attempts"],
       counters["reconnect_attempts"], counters["binance_reconnect_attempts"],
       Pending["reconnect_attempts"], Pending["binance_reconnect_attempts"])

\* The counts of errors add up when those of each counter do, before a step and
\* after it.
LEMMA ErrorsAreByCounter ==
  (ErrorsAddUp <=> ErrorsByCounter) /\ (ErrorsAddUp' <=> ErrorsByCounter')
<1>1. (\E pair \in Increments : adding["source"] \subseteq pair) <=>
        \/ adding["source"] \subseteq {"parse_errors", "replay_parse_errors"}
        \/ adding["source"] \subseteq {"parse_errors", "binance_parse_errors"}
        \/ adding["source"] \subseteq {"reconnect_attempts", "binance_reconnect_attempts"}
  BY Names, Zenon
<1>2. (\E pair \in Increments : adding'["source"] \subseteq pair) <=>
        \/ adding'["source"] \subseteq {"parse_errors", "replay_parse_errors"}
        \/ adding'["source"] \subseteq {"parse_errors", "binance_parse_errors"}
        \/ adding'["source"] \subseteq {"reconnect_attempts", "binance_reconnect_attempts"}
  BY Names, Zenon
<1>3. "parse_errors" # "reconnect_attempts"
  OBVIOUS
<1>4. ErrorsAddUp <=> ErrorsByCounter
  BY <1>1, <1>3, Zenon
     DEF ErrorsAddUp, ErrorsByCounter, AddingOneError, FamilyAddsUp, SumOfParts, Totals
<1>5. ErrorsAddUp' <=> ErrorsByCounter'
  BY <1>2, <1>3, Zenon
     DEF ErrorsAddUp, ErrorsByCounter, AddingOneError, FamilyAddsUp, SumOfParts, Totals
<1> QED
  BY <1>4, <1>5

\* What is pending of each counter of an error.
LEMMA PendingIs ==
  \A c \in ErrorCounters :
    /\ Pending[c] = IF c \in adding["source"] THEN 1 ELSE 0
    /\ Pending'[c] = IF c \in adding'["source"] THEN 1 ELSE 0
<1>1. ErrorCounters \subseteq CounterNames
  BY Names
<1> QED
  BY <1>1 DEF Pending

\* The counters of errors add up to the errors begun, but for the one being added.
LEMMA CountingErrors ==
  ASSUME TelemetryTypeOK, ErrorsAddUp, CountingStep
  PROVE  ErrorsAddUp'
<1> SUFFICES ErrorsByCounter'
  BY ErrorsAreByCounter
<1>0. ErrorsByCounter
  BY ErrorsAreByCounter
<1> DEFINE names == {"parse_errors", "replay_parse_errors", "binance_parse_errors",
                     "reconnect_attempts", "binance_reconnect_attempts"}
<1> USE DEF Tasks
<1>1. names \subseteq CounterNames /\ names \subseteq ErrorCounters
  BY Names, Zenon
<1>2. /\ adding \in [Tasks -> SUBSET CounterNames] /\ counters \in [CounterNames -> Nat]
      /\ begun \in [Totals -> Nat] /\ completed \in [Totals -> Nat]
  BY DEF TelemetryTypeOK
<1>3. ASSUME \A c \in names : counters'[c] = counters[c], adding'["source"] = adding["source"],
             adding'["pipeline"] \cap ErrorCounters = {}, begun' = begun, completed' = completed
      PROVE  ErrorsByCounter'
  <2>1. \A c \in names : Pending'[c] = Pending[c]
    BY <1>1, <1>3, PendingIs
  <2> QED
    BY <1>0, <1>3, <2>1 DEF ErrorsByCounter, AddingOneError, FamilyAddsUp
<1>4. CASE UNCHANGED <<telemetry, faults>>
  BY <1>0, <1>3, <1>4 DEF telemetry, ErrorsByCounter, AddingOneError
<1>5. ASSUME NEW source \in Sources, NEW kind \in EventKinds, RecordEvent(source, kind, now)
      PROVE  ErrorsByCounter'
  <2>1. EventCounters[source][kind] \notin ErrorCounters
    BY Names
  <2>2. adding'["source"] = adding["source"] /\ adding'["pipeline"] = {EventCounters[source][kind]}
    BY <1>2, <1>5 DEF RecordEvent
  <2> QED
    BY <1>3, <1>5, <2>1, <2>2 DEF RecordEvent
<1>6. ASSUME NEW store \in {"storage_errors", "cache_errors"}, CountFault(store)
      PROVE  ErrorsByCounter'
  <2>1. \A c \in names : counters'[c] = counters[c]
    BY <1>1, <1>2, <1>6 DEF CountFault, Increment
  <2> QED
    BY <1>0, <1>3, <1>6, <2>1 DEF CountFault, ErrorsByCounter, AddingOneError
<1>7. ASSUME NEW task \in Tasks, NEW c \in adding[task], Add(task, c)
      PROVE  ErrorsByCounter'
  <2>1. counters' = [counters EXCEPT ![c] = @ + 1] /\ begun' = begun
    BY <1>7 DEF Add, Increment
  <2>2. CASE task = "pipeline"
    <3>1. c \notin ErrorCounters
      BY <1>0, <2>2 DEF ErrorsByCounter, AddingOneError
    <3>2. \A x \in names : counters'[x] = counters[x]
      BY <1>1, <1>2, <2>1, <3>1
    <3>3. completed' = completed /\ adding'["source"] = adding["source"]
            /\ adding'["pipeline"] \subseteq adding["pipeline"]
      BY <1>2, <1>7, <2>2 DEF Add
    <3> QED
      BY <1>0, <1>3, <2>1, <3>2, <3>3 DEF ErrorsByCounter, AddingOneError
  <2>3. CASE task = "source"
    <3>1. /\ adding'["source"] = adding["source"] \ {c}
          /\ adding'["pipeline"] = adding["pipeline"]
      BY <1>2, <1>7, <2>3 DEF Add
    <3>2. c \in names
      BY <1>0, <2>3 DEF ErrorsByCounter, AddingOneError
    <3>3. \A x \in names : counters'[x] = IF x = c THEN counters[x] + 1 ELSE counters[x]
      BY <1>1, <1>2, <2>1
    <3>4. \A x \in names : Pending'[x] = IF x = c THEN 0 ELSE Pending[x]
      BY <1>1, <3>1, PendingIs
    <3>5. Pending[c] = 1 /\ \A x \in names : Pending[x] \in {0, 1}
      BY <1>1, <2>3, <3>2, PendingIs
    <3>6. \A x \in names : counters[x] \in Nat
      BY <1>1, <1>2
    <3>7. AddingOneError'
      BY <1>0, <3>1 DEF ErrorsByCounter, AddingOneError
    <3>8. \A x \in names : (x \in adding["source"]) <=> Pending[x] = 1
      BY <1>1, PendingIs
    <3>9. (adding["source"] = {c}) <=> \A x \in names : x # c => Pending[x] = 0
      BY <1>0, <2>3, <3>2, <3>5, <3>8 DEF ErrorsByCounter, AddingOneError
    <3> DEFINE total == IF c \in {"reconnect_attempts", "binance_reconnect_attempts"}
                        THEN "reconnect_attempts" ELSE "parse_errors"
    <3>10. completed' = IF adding["source"] = {c} THEN [completed EXCEPT ![total] = @ + 1]
                        ELSE completed
      BY <1>7, <2>3 DEF Add
    <3>11. \A t \in Totals : completed'[t] = IF t = total /\ adding["source"] = {c}
                                            THEN completed[t] + 1 ELSE completed[t]
      BY <1>2, <3>10 DEF Totals
    <3>12. /\ c \in {"parse_errors", "replay_parse_errors", "binance_parse_errors"} =>
                Pending["reconnect_attempts"] = 0 /\ Pending["binance_reconnect_attempts"] = 0
           /\ c \in {"reconnect_attempts", "binance_reconnect_attempts"} =>
                /\ Pending["parse_errors"] = 0 /\ Pending["replay_parse_errors"] = 0
                /\ Pending["binance_parse_errors"] = 0
           /\ c = "replay_parse_errors" => Pending["binance_parse_errors"] = 0
           /\ c = "binance_parse_errors" => Pending["replay_parse_errors"] = 0
           /\ Pending["replay_parse_errors"] = 0 \/ Pending["binance_parse_errors"] = 0
      BY <1>0, <2>3, <3>5, <3>8 DEF ErrorsByCounter, AddingOneError
    <3>13. begun["parse_errors"] \in Nat /\ begun["reconnect_attempts"] \in Nat
             /\ completed["parse_errors"] \in Nat /\ completed["reconnect_attempts"] \in Nat
      BY <1>2 DEF Totals
    <3>14. CASE c \in {"parse_errors", "replay_parse_errors", "binance_parse_errors"}
      <4>1. total = "parse_errors"
        BY <3>14
      <4>2. /\ completed'["reconnect_attempts"] = completed["reconnect_attempts"]
            /\ completed'["parse_errors"] =
                 IF Pending["parse_errors"] + Pending["replay_parse_errors"]
                      + Pending["binance_parse_errors"] = 1
                 THEN completed["parse_errors"] + 1 ELSE completed["parse_errors"]
        BY <3>5, <3>9, <3>11, <3>12, <3>14, <4>1 DEF Totals
      <4> HIDE DEF total
      <4> QED
        BY <1>0, <2>1, <3>3, <3>4, <3>5, <3>6, <3>7, <3>12, <3>13, <3>14, <4>2
           DEF ErrorsByCounter, FamilyAddsUp
    <3>15. CASE c \in {"reconnect_attempts", "binance_reconnect_attempts"}
      <4>1. total = "reconnect_attempts"
        BY <3>15
      <4>2. /\ completed'["parse_errors"] = completed["parse_errors"]
            /\ completed'["reconnect_attempts"] =
                 IF Pending["reconnect_attempts"] + Pending["binance_reconnect_attempts"] = 1
                 THEN completed["reconnect_attempts"] + 1 ELSE completed["reconnect_attempts"]
        BY <3>5, <3>9, <3>11, <3>12, <3>15, <4>1 DEF Totals
      <4> HIDE DEF total
      <4> QED
        BY <1>0, <2>1, <3>3, <3>4, <3>5, <3>6, <3>7, <3>12, <3>13, <3>15, <4>2
           DEF ErrorsByCounter, FamilyAddsUp
    <3> QED
      BY <3>2, <3>14, <3>15
  <2> QED
    BY <2>2, <2>3
<1>8. ASSUME NEW total \in Totals, NEW part \in names, {total, part} \in Increments, total # part,
             IncrementTotalAndPart(total, part)
      PROVE  ErrorsByCounter'
  <2>1. /\ adding["source"] = {} /\ adding'["source"] = {total, part}
        /\ adding'["pipeline"] = adding["pipeline"]
        /\ counters' = counters /\ completed' = completed
    BY <1>2, <1>8 DEF IncrementTotalAndPart
  <2>2. \A t \in Totals : begun'[t] = IF t = total THEN begun[t] + 1 ELSE begun[t]
    BY <1>2, <1>8 DEF IncrementTotalAndPart
  <2>3. \A x \in names : Pending[x] = 0 /\ Pending'[x] = IF x \in {total, part} THEN 1 ELSE 0
    BY <1>1, <2>1, PendingIs
  <2>4. \A x \in names : counters[x] \in Nat
    BY <1>1, <1>2
  <2>5. begun["parse_errors"] \in Nat /\ begun["reconnect_attempts"] \in Nat
           /\ completed["parse_errors"] \in Nat /\ completed["reconnect_attempts"] \in Nat
    BY <1>2 DEF Totals
  <2>6. \/ total = "parse_errors" /\ part = "replay_parse_errors"
        \/ total = "parse_errors" /\ part = "binance_parse_errors"
        \/ total = "reconnect_attempts" /\ part = "binance_reconnect_attempts"
    BY <1>8, Names DEF Totals
  <2>7. AddingOneError'
    BY <1>0, <2>1, <2>6 DEF ErrorsByCounter, AddingOneError
  <2> QED
    BY <1>0, <2>1, <2>2, <2>3, <2>4, <2>5, <2>6, <2>7 DEF ErrorsByCounter, FamilyAddsUp, Totals
<1>9. ASSUME NEW source \in Sources, IncrementParseErrors(source)
      PROVE  ErrorsByCounter'
  <2>1. ParseErrors[source] \in {"replay_parse_errors", "binance_parse_errors"}
    BY Names DEF ParseErrors
  <2>2. {"parse_errors", ParseErrors[source]} \in Increments
    BY Zenon DEF Increments
  <2> QED
    BY <1>8, <1>9, <2>1, <2>2 DEF IncrementParseErrors, Totals
<1>10. ASSUME IncrementReconnectAttempts
       PROVE  ErrorsByCounter'
  BY <1>8, <1>10, Names DEF IncrementReconnectAttempts, Totals
<1> QED
  BY <1>4, <1>5, <1>6, <1>7, <1>9, <1>10 DEF CountingStep
-----------------------------------------------------------------------------
(* The stores *)

\* The fields of a request.
LEMMA Fields ==
  DOMAIN NoRequest = {"pc", "endpoint", "symbol", "at", "runtime", "listed", "states", "rows",
                      "recent", "counts", "last", "arrived", "cleared"}
BY DEF NoRequest

\* A request in progress keeps its fields.
LEMMA NextFields ==
  ASSUME DOMAIN request = DOMAIN NoRequest, [Next]_vars
  PROVE  DOMAIN request' = DOMAIN NoRequest
<1>1. CASE request' \in {request, NoRequest}
  BY <1>1
<1>2. CASE RequestGoesOn
  BY <1>2 DEF RequestGoesOn, GoesOn, Continue, BeginSnapshot, DashboardTime
<1>3. CASE WritingStep
  BY <1>3 DEF WritingStep, InsertTrade, InsertAnomaly, SetMarketState, ClearKeys, ClearRegistered,
              Truncate, UpdateRuntime, Writing
<1> QED
  BY <1>1, <1>2, <1>3, StepKinds

\* What a spent unit leaves.
LEMMA Spent ==
  ASSUME budget \in [counting : Nat, writing : Nat, faults : Nat],
         NEW what \in {"counting", "writing", "faults"}, Spend(what)
  PROVE  /\ budget' \in [counting : Nat, writing : Nat, faults : Nat]
         /\ what = "writing" => budget'.writing = budget.writing - 1
         /\ what # "writing" => budget'.writing = budget.writing
<1>1. budget[what] \in Nat /\ budget[what] - 1 \in Nat
  BY DEF Spend
<1>2. budget' = [budget EXCEPT ![what] = budget[what] - 1]
  BY DEF Spend
<1> QED
  BY <1>1, <1>2

\* The row that is written is the newest of its table.
LEMMA RowsGrow ==
  ASSUME NEW rows, IsFiniteSet(rows), NEW row, NEW w \in Nat,
         \A r \in rows : r.id \in Int /\ r.id < -w, row.id = -w, w > 0
  PROVE  /\ IsFiniteSet(rows \cup {row})
         /\ \A r \in rows \cup {row} : r.id < -(w - 1)
<1>1. IsFiniteSet(rows \cup {row})
  BY FS_AddElement
<1>2. ASSUME NEW r \in rows PROVE r.id < -(w - 1)
  <2>1. r.id \in Int /\ r.id < -w
    OBVIOUS
  <2> QED
    BY <2>1
<1> QED
  BY <1>1, <1>2

RowsInOrder == \A r \in trades \cup anomalies : r.id < -budget.writing

RegisteredStates == \A s \in Symbols : states[s] # None => s \in registered

\* Written, of aggregators and a number of the next write that are named
WrittenBefore(stamps, aggregators, next) ==
  \A s \in Symbols : stamps[s] # None =>
    /\ stamps[s].written < next
    /\ aggregators[stamps[s].run][s] # None
    /\ stamps[s].time <= aggregators[stamps[s].run][s]

StatesWritten == WrittenBefore(states, aggregates, -budget.writing)

StoresInv == StoresTypeOK /\ RowsInOrder /\ RegisteredStates /\ StatesWritten

Aggregators == [Runs -> [Symbols -> Int \cup {None}]]

\* An aggregator that has applied an event is no older than before.
LEMMA AdvancedTime ==
  ASSUME now \in Nat, NEW time \in Int \cup {None}, NEW d \in Delays
  PROVE  Advanced(time, d) \in Int /\ (time # None => Advanced(time, d) >= time)
<1>1. now - d \in Int
  BY ApiAssumption
<1>2. CASE time = None
  BY <1>1, <1>2 DEF Advanced
<1>3. CASE time # None
  <2>1. time \in Int
    BY <1>3
  <2>2. Advanced(time, d) = IF time >= now - d THEN time ELSE now - d
    BY <1>1, <1>3, <2>1, MaxOfTwo DEF Advanced
  <2> QED
    BY <1>1, <2>1, <2>2
<1> QED
  BY <1>2, <1>3

\* A write advances the aggregator of its run and leaves the others alone.
LEMMA AggregatesAdvance ==
  ASSUME StoresTypeOK, WritingStep
  PROVE  /\ aggregates' \in Aggregators
         /\ \A r \in Runs, s \in Symbols : aggregates[r][s] # None =>
              aggregates'[r][s] # None /\ aggregates'[r][s] >= aggregates[r][s]
<1>0. /\ aggregates \in Aggregators /\ now \in Nat /\ None \notin Int
      /\ \A r \in Runs, s \in Symbols : aggregates[r][s] \in Int \cup {None}
  BY ApiAssumption DEF StoresTypeOK, Aggregators
<1>1. CASE aggregates' = aggregates
  BY <1>0, <1>1
<1>2. ASSUME NEW r \in Runs, NEW s \in Symbols, NEW d \in Delays, SetMarketState(r, s, d)
      PROVE  /\ aggregates' \in Aggregators
             /\ \A q \in Runs, x \in Symbols : aggregates[q][x] # None =>
                  aggregates'[q][x] # None /\ aggregates'[q][x] >= aggregates[q][x]
  <2>1. PICK time : time = Advanced(aggregates[r][s], d)
    OBVIOUS
  <2>2. time \in Int /\ (aggregates[r][s] # None => time >= aggregates[r][s])
    BY <1>0, <2>1, AdvancedTime
  <2>3. aggregates' = [aggregates EXCEPT ![r][s] = time]
    BY <1>2, <2>1 DEF SetMarketState
  <2>4. /\ aggregates' \in Aggregators
        /\ \A q \in Runs, x \in Symbols :
             aggregates'[q][x] = IF q = r /\ x = s THEN time ELSE aggregates[q][x]
    BY <1>0, <2>2, <2>3 DEF Aggregators
  <2> QED
    BY <1>0, <2>2, <2>4
<1> QED
  BY <1>1, <1>2 DEF WritingStep, InsertTrade, InsertAnomaly, ClearKeys, ClearRegistered, Truncate,
                    UpdateRuntime

\* What was written before stays so while the aggregators and the writes go on.
LEMMA WrittenStays ==
  ASSUME NEW stamps \in Stamps, NEW old \in Aggregators, NEW new \in Aggregators,
         \A r \in Runs, s \in Symbols : old[r][s] # None => new[r][s] # None /\ new[r][s] >= old[r][s],
         NEW v \in Int, NEW w \in Int, v <= w, WrittenBefore(stamps, old, v)
  PROVE  WrittenBefore(stamps, new, w)
<1> SUFFICES ASSUME NEW s \in Symbols, stamps[s] # None
             PROVE  /\ stamps[s].written < w
                    /\ new[stamps[s].run][s] # None
                    /\ stamps[s].time <= new[stamps[s].run][s]
  BY DEF WrittenBefore
<1>1. /\ stamps[s].run \in Runs /\ stamps[s].time \in Int /\ stamps[s].written \in Int
  BY DEF Stamps, States
<1>2. /\ stamps[s].written < v /\ old[stamps[s].run][s] # None
      /\ stamps[s].time <= old[stamps[s].run][s]
  BY DEF WrittenBefore
<1>3. /\ new[stamps[s].run][s] # None /\ new[stamps[s].run][s] >= old[stamps[s].run][s]
      /\ old[stamps[s].run][s] \in Int /\ new[stamps[s].run][s] \in Int
  BY <1>1, <1>2 DEF Aggregators
<1> QED
  BY <1>1, <1>2, <1>3

\* Reading leaves the stores as they are.
LEMMA ReadingStores ==
  ASSUME StoresInv, DOMAIN request' = DOMAIN NoRequest, Reading
  PROVE  StoresInv' /\ budget'.writing = budget.writing
<1> USE DEF StoresInv
<1>1. budget \in [counting : Nat, writing : Nat, faults : Nat]
  BY DEF StoresTypeOK
<1>2. budget' \in [counting : Nat, writing : Nat, faults : Nat] /\ budget'.writing = budget.writing
  <2>1. CASE budget' = budget
    BY <1>1, <2>1
  <2>2. ASSUME NEW what \in {"counting", "faults"}, Spend(what)
        PROVE  budget' \in [counting : Nat, writing : Nat, faults : Nat]
                 /\ budget'.writing = budget.writing
    BY <1>1, <2>2, Spent
  <2> QED
    BY <2>1, <2>2 DEF Reading
<1>3. now' \in Nat
  BY DEF Reading, Tick, StoresTypeOK
<1> QED
  BY <1>2, <1>3 DEF Reading, stores, StoresTypeOK, RowsInOrder, RegisteredStates,
                     StatesWritten

\* A write keeps the tables, the cache and the registration in order.
LEMMA WritingStores ==
  ASSUME StoresInv, DOMAIN request' = DOMAIN NoRequest, WritingStep
  PROVE  StoresInv' /\ budget'.writing = budget.writing - 1 /\ budget.writing \in Nat
<1> USE DEF StoresInv
<1>1. budget \in [counting : Nat, writing : Nat, faults : Nat] /\ budget.writing \in Nat
  BY DEF StoresTypeOK
<1>2. Spend("writing")
  BY DEF WritingStep, InsertTrade, InsertAnomaly, SetMarketState, ClearKeys, ClearRegistered,
         Truncate, UpdateRuntime, Writing
<1>3. /\ budget' \in [counting : Nat, writing : Nat, faults : Nat]
      /\ budget'.writing = budget.writing - 1 /\ budget.writing > 0
  BY <1>1, <1>2, Spent DEF Spend
<1>4. now' = now /\ now \in Int /\ now \in Nat
  <2>1. now' = now
    BY DEF WritingStep, InsertTrade, InsertAnomaly, SetMarketState, ClearKeys, ClearRegistered,
           Truncate, UpdateRuntime, Writing
  <2> QED
    BY <2>1 DEF StoresTypeOK
<1>5. /\ \A r \in trades : r.id \in Int /\ r.id < -budget.writing
      /\ \A r \in anomalies : r.id \in Int /\ r.id < -budget.writing
  BY DEF StoresTypeOK, RowsInOrder, TradeRows, AnomalyRows
<1>6. \A d \in Delays : now - d \in Int
  BY <1>4, ApiAssumption
<1>7. /\ \A r \in trades : r.id < -budget'.writing
      /\ \A r \in anomalies : r.id < -budget'.writing
  BY <1>1, <1>3, <1>5
<1>a. /\ aggregates' \in [Runs -> [Symbols -> Int \cup {None}]]
      /\ \A stamps \in Stamps : WrittenBefore(stamps, aggregates, -budget.writing) =>
           WrittenBefore(stamps, aggregates', -budget'.writing)
  <2>1. aggregates \in Aggregators /\ -budget.writing <= -budget'.writing
          /\ -budget.writing \in Int /\ -budget'.writing \in Int
    BY <1>1, <1>3 DEF StoresTypeOK, Aggregators
  <2> QED
    BY <2>1, AggregatesAdvance, WrittenStays DEF Aggregators
<1>b. ASSUME states' = states PROVE StatesWritten'
  BY <1>a, <1>b DEF StoresTypeOK, StatesWritten
<1>8. ASSUME NEW s \in Symbols, NEW d \in Delays, InsertTrade(s, d) PROVE StoresInv'
  <2> DEFINE row == [id |-> -budget.writing, symbol |-> s, time |-> now - d]
  <2>1. row \in TradeRows /\ row.id = -budget.writing
    BY <1>1, <1>6 DEF TradeRows
  <2>2. trades' = trades \cup {row}
    BY <1>8 DEF InsertTrade
  <2> HIDE DEF row
  <2>3. trades' \subseteq TradeRows /\ IsFiniteSet(trades')
          /\ \A r \in trades' : r.id < -budget'.writing
    BY <1>1, <1>3, <1>5, <2>1, <2>2, RowsGrow DEF StoresTypeOK
  <2> QED
    BY <1>3, <1>4, <1>7, <1>8, <1>a, <1>b, <2>3
       DEF InsertTrade, StoresTypeOK, RowsInOrder, RegisteredStates
<1>9. ASSUME NEW s \in Symbols, NEW d \in Delays, InsertAnomaly(s, d) PROVE StoresInv'
  <2> DEFINE row == [id |-> -budget.writing, symbol |-> s, time |-> now - d, created |-> now]
  <2>1. row \in AnomalyRows /\ row.id = -budget.writing
    BY <1>1, <1>4, <1>6 DEF AnomalyRows
  <2>2. anomalies' = anomalies \cup {row}
    BY <1>9 DEF InsertAnomaly
  <2> HIDE DEF row
  <2>3. anomalies' \subseteq AnomalyRows /\ IsFiniteSet(anomalies')
          /\ \A r \in anomalies' : r.id < -budget'.writing
    BY <1>1, <1>3, <1>5, <2>1, <2>2, RowsGrow DEF StoresTypeOK
  <2> QED
    BY <1>3, <1>4, <1>7, <1>9, <1>a, <1>b, <2>3
       DEF InsertAnomaly, StoresTypeOK, RowsInOrder, RegisteredStates
<1>10. ASSUME NEW r \in Runs, NEW s \in Symbols, NEW d \in Delays, SetMarketState(r, s, d)
       PROVE  StoresInv'
  <2>1. PICK time : time = Advanced(aggregates[r][s], d)
    OBVIOUS
  <2>2. time \in Int
    BY <1>4, <2>1, AdvancedTime DEF StoresTypeOK
  <2> DEFINE state == [run |-> r, time |-> time, written |-> -budget.writing]
  <2>3. /\ states' = [states EXCEPT ![s] = state]
        /\ aggregates' = [aggregates EXCEPT ![r][s] = time]
    BY <1>10, <2>1 DEF SetMarketState
  <2>4. /\ state \in States /\ state.run = r /\ state.time = time
        /\ state.written = -budget.writing
    BY <1>1, <2>2 DEF States
  <2> HIDE DEF state
  <2>5. states' \in Stamps /\ states'[s] = state
          /\ \A x \in Symbols : x # s => states'[x] = states[x]
    BY <2>3, <2>4 DEF StoresTypeOK, Stamps
  <2>6. aggregates'[r][s] = time /\ None \notin Int
    BY <2>3, ApiAssumption DEF StoresTypeOK
  <2>7. StatesWritten'
    <3>1. WrittenBefore(states, aggregates', -budget'.writing)
      BY <1>a DEF StoresTypeOK, StatesWritten
    <3>2. -budget.writing < -budget'.writing
      BY <1>1, <1>3
    <3> SUFFICES ASSUME NEW x \in Symbols, states'[x] # None
                 PROVE  /\ states'[x].written < -budget'.writing
                        /\ aggregates'[states'[x].run][x] # None
                        /\ states'[x].time <= aggregates'[states'[x].run][x]
      BY DEF StatesWritten, WrittenBefore
    <3>3. CASE x = s
      BY <2>2, <2>4, <2>5, <2>6, <3>2, <3>3
    <3>4. CASE x # s
      BY <2>5, <3>1, <3>4 DEF WrittenBefore
    <3> QED
      BY <3>3, <3>4
  <2> QED
    BY <1>3, <1>4, <1>7, <1>10, <1>a, <2>3, <2>5, <2>7
       DEF SetMarketState, StoresTypeOK, Stamps, RowsInOrder, RegisteredStates
<1>11. CASE ClearKeys
  <2>1. StatesWritten'
    BY <1>11 DEF ClearKeys, StatesWritten, WrittenBefore
  <2> QED
    BY <1>3, <1>4, <1>7, <1>11, <1>a, <2>1
       DEF ClearKeys, StoresTypeOK, Stamps, RowsInOrder, RegisteredStates
<1>12. CASE ClearRegistered
  BY <1>3, <1>4, <1>7, <1>12, <1>a, <1>b
     DEF ClearRegistered, StoresTypeOK, RowsInOrder, RegisteredStates
<1>13. CASE Truncate
  BY <1>3, <1>4, <1>13, <1>a, <1>b, FS_EmptySet
     DEF Truncate, StoresTypeOK, RowsInOrder, RegisteredStates
<1>14. ASSUME NEW r \in RuntimeSnapshots, UpdateRuntime(r) PROVE StoresInv'
  BY <1>3, <1>4, <1>7, <1>14, <1>a, <1>b
     DEF UpdateRuntime, StoresTypeOK, RowsInOrder, RegisteredStates
<1> QED
  BY <1>1, <1>3, <1>8, <1>9, <1>10, <1>11, <1>12, <1>13, <1>14 DEF WritingStep

\* The request goes on with the stores as they are.
LEMMA GoingOnReads ==
  ASSUME RequestGoesOn
  PROVE  UNCHANGED <<now, telemetry, faults, budget, stores>>
BY DEF RequestGoesOn, GoesOn, BeginSnapshot, DashboardTime, Immediate, Step, NoFault

\* Every step keeps the stores in order, and spends no write it does not make.
LEMMA NextStores ==
  ASSUME StoresInv, [Next]_vars
  PROVE  StoresInv' /\ budget'.writing \in Nat /\ budget.writing \in Nat
           /\ budget'.writing <= budget.writing
<1>1. DOMAIN request' = DOMAIN NoRequest
  BY NextFields DEF StoresInv, StoresTypeOK
<1>2. CASE RequestGoesOn
  BY <1>1, <1>2, GoingOnReads
     DEF StoresInv, StoresTypeOK, RowsInOrder, RegisteredStates, StatesWritten, stores
<1>3. StoresInv'
  BY <1>1, <1>2, StepKinds, ReadingStores, WritingStores
<1>4. budget.writing \in Nat /\ budget'.writing \in Nat
  BY <1>3 DEF StoresInv, StoresTypeOK
<1> QED
  BY <1>1, <1>2, <1>3, <1>4, StepKinds, ReadingStores, WritingStores, GoingOnReads
-----------------------------------------------------------------------------
(* A reading of the counters *)

\* A write changes nothing of the request but whether the cache was cleared.
LEMMA WritingRequest ==
  ASSUME DOMAIN request = DOMAIN NoRequest, WritingStep
  PROVE  /\ \A f \in DOMAIN NoRequest \ {"cleared"} : request'[f] = request[f]
         /\ ClearKeys /\ request.pc # "idle" => request'.cleared = TRUE
         /\ ~ClearKeys => request' = request
<1>1. CASE ClearKeys
  BY <1>1, Fields DEF ClearKeys
<1>2. CASE ~ClearKeys
  BY <1>2 DEF WritingStep, InsertTrade, InsertAnomaly, SetMarketState, ClearRegistered, Truncate,
              UpdateRuntime, Writing
<1> QED
  BY <1>1, <1>2

\* A total and the sum of its parts lie between the errors completed and the
\* errors begun.
LEMMA CountsBetween ==
  ASSUME TelemetryTypeOK, ErrorsAddUp, NEW t \in Totals
  PROVE  /\ completed[t] <= counters[t] /\ counters[t] <= begun[t]
         /\ completed[t] <= SumOfParts(counters, t) /\ SumOfParts(counters, t) <= begun[t]
<1>1. ErrorsByCounter
  BY ErrorsAreByCounter
<1>2. \A c \in ErrorCounters : counters[c] \in Nat /\ Pending[c] \in {0, 1}
  BY Names, PendingIs DEF TelemetryTypeOK
<1>3. /\ {"parse_errors", "replay_parse_errors", "binance_parse_errors", "reconnect_attempts",
          "binance_reconnect_attempts"} \subseteq ErrorCounters
      /\ completed[t] \in Nat /\ begun[t] \in Nat
  BY Names DEF TelemetryTypeOK
<1>4. Pending["replay_parse_errors"] = 0 \/ Pending["binance_parse_errors"] = 0
  <2>1. "replay_parse_errors" \notin adding["source"] \/ "binance_parse_errors" \notin adding["source"]
    BY <1>1 DEF ErrorsByCounter, AddingOneError
  <2> QED
    BY <1>3, <2>1, PendingIs
<1>5. CASE t = "parse_errors"
  BY <1>1, <1>2, <1>3, <1>4, <1>5 DEF ErrorsByCounter, FamilyAddsUp, SumOfParts
<1>6. CASE t = "reconnect_attempts"
  BY <1>1, <1>2, <1>3, <1>6 DEF ErrorsByCounter, FamilyAddsUp, SumOfParts
<1> QED
  BY <1>5, <1>6 DEF Totals

SnapshotFields == {"pc", "counts", "last", "at", "arrived"}

\* What a reading began with stays a lower bound of every counter.
LEMMA SnapshotStays ==
  ASSUME TelemetryTypeOK, SnapshotBegun, TelemetryTypeOK', CountersGrow,
         \A f \in SnapshotFields : request'[f] = request[f]
  PROVE  SnapshotBegun'
<1> SUFFICES ASSUME request.pc \in {"snapshot", "summary"} PROVE SnapshotBegun'
  BY DEF SnapshotBegun, SnapshotFields
<1>1. /\ request'.pc = request.pc /\ request'.counts = request.counts /\ request'.last = request.last
      /\ request'.at = request.at /\ request'.arrived = request.arrived
  BY DEF SnapshotFields
<1>2. /\ request.counts \in [CounterNames -> Nat]
      /\ \A c \in CounterNames : request.counts[c] <= counters[c]
      /\ request.last \in 0 .. last_message
  BY DEF SnapshotBegun
<1>3. \A c \in CounterNames : request.counts[c] <= counters'[c]
  <2> SUFFICES ASSUME NEW c \in CounterNames PROVE request.counts[c] <= counters'[c]
    OBVIOUS
  <2>1. request.counts[c] \in Nat /\ counters[c] \in Nat /\ counters'[c] \in Nat
    BY <1>2 DEF TelemetryTypeOK
  <2>2. request.counts[c] <= counters[c] /\ counters[c] <= counters'[c]
    BY <1>2 DEF CountersGrow
  <2> QED
    BY <2>1, <2>2
<1>4. request.last \in 0 .. last_message'
  BY <1>2 DEF TelemetryTypeOK, CountersGrow
<1> QED
  BY <1>1, <1>3, <1>4 DEF SnapshotBegun, SumOfParts

\* A reading that is begun here and now.
LEMMA SnapshotStarts ==
  ASSUME TelemetryTypeOK, ErrorsAddUp, FaultsCounted, now \in Nat, UNCHANGED telemetry,
         request'.counts = counters, request'.last = last_message, request'.at = now,
         request'.arrived.completed = completed, request'.arrived.faults = faults
  PROVE  SnapshotBegun'
<1>1. \A t \in Totals : completed[t] <= counters[t] /\ completed[t] <= SumOfParts(counters, t)
  BY CountsBetween
<1>2. \A c \in CounterNames : counters[c] \in Nat
  BY DEF TelemetryTypeOK
<1>4. last_message \in 0 .. last_message
  BY DEF TelemetryTypeOK
<1> QED
  BY <1>1, <1>2, <1>4 DEF SnapshotBegun, TelemetryTypeOK, FaultsCounted, telemetry

\* Every step keeps what a reading began with.
LEMMA NextSnapshot ==
  ASSUME TelemetryTypeOK, ErrorsAddUp, FaultsCounted, StoresTypeOK, SnapshotBegun, [Next]_vars
  PROVE  SnapshotBegun'
<1>0. /\ now \in Nat /\ DOMAIN request = DOMAIN NoRequest
      /\ TelemetryTypeOK' /\ CountersGrow
  BY StepKinds, CountingTypes DEF StoresTypeOK
<1>1. SnapshotFields \subseteq DOMAIN NoRequest \ {"cleared"}
  BY Fields DEF SnapshotFields
<1>2. CASE request' = request
  BY <1>0, <1>2, SnapshotStays
<1>3. CASE request' = NoRequest
  BY <1>3 DEF NoRequest, SnapshotBegun
<1>4. CASE WritingStep
  BY <1>0, <1>1, <1>4, WritingRequest, SnapshotStays
<1>5. CASE RequestGoesOn
  <2>0. UNCHANGED telemetry
    BY <1>5, GoingOnReads
  <2>1. ASSUME NEW endpoint \in {"pipeline_health", "metrics"}, BeginSnapshot(endpoint)
        PROVE  SnapshotBegun'
    <3>1. /\ request'.counts = counters /\ request'.last = last_message /\ request'.at = now
          /\ request'.arrived.completed = completed /\ request'.arrived.faults = faults
      BY <2>1, Fields DEF BeginSnapshot, Continue
    <3> QED
      BY <1>0, <2>0, <3>1, SnapshotStarts
  <2>2. CASE DashboardTime
    <3>1. /\ request'.counts = counters /\ request'.last = last_message /\ request'.at = now
          /\ request'.arrived.completed = completed /\ request'.arrived.faults = faults
      BY <1>0, <2>2, Fields DEF DashboardTime, Continue
    <3> QED
      BY <1>0, <2>0, <3>1, SnapshotStarts
  <2>3. ASSUME request'.pc \notin {"snapshot", "summary"} PROVE SnapshotBegun'
    BY <2>3 DEF SnapshotBegun
  <2>4. \/ \E endpoint \in {"pipeline_health", "metrics"} : BeginSnapshot(endpoint)
        \/ DashboardTime
        \/ request'.pc \in {"trades", "timeline", "symbols", "states", "recent", "build"}
    BY <1>0, <1>5, Fields DEF RequestGoesOn, GoesOn, Continue
  <2> QED
    BY <2>1, <2>2, <2>3, <2>4
<1> QED
  BY <1>2, <1>3, <1>4, <1>5, StepKinds

-----------------------------------------------------------------------------
(* The counters, and what is read of them *)

\* At the start nothing was counted, stored or asked for.
LEMMA InitCounters == Init => CountersInv
<1> SUFFICES ASSUME Init PROVE CountersInv
  OBVIOUS
<1>1. TelemetryTypeOK
  BY DEF Init, TelemetryInit, TelemetryTypeOK
<1>2. ErrorsByCounter
  <2>1. adding["source"] = {} /\ adding["pipeline"] = {}
    BY DEF Init, TelemetryInit, Tasks
  <2>2. \A c \in ErrorCounters : counters[c] = 0 /\ Pending[c] = 0
    BY <2>1, Names, PendingIs DEF Init, TelemetryInit
  <2>3. \A t \in Totals : begun[t] = 0 /\ completed[t] = 0
    BY DEF Init, TelemetryInit
  <2> QED
    BY <2>1, <2>2, <2>3, Names DEF ErrorsByCounter, AddingOneError, FamilyAddsUp, Totals
<1>3. StoresTypeOK
  BY FS_EmptySet, ApiAssumption DEF Init, StoresTypeOK, Stamps
<1>4. StoresInOrder
  BY Names DEF Init, TelemetryInit, StoresInOrder, Written
<1>5. SnapshotBegun
  BY DEF Init, NoRequest, SnapshotBegun
<1> QED
  BY <1>1, <1>2, <1>3, <1>4, <1>5, ErrorsAreByCounter DEF CountersInv

\* Every step keeps the counters, the stores and the readings of them in order.
LEMMA NextCounters == CountersInv /\ [Next]_vars => CountersInv'
<1> SUFFICES ASSUME CountersInv, [Next]_vars PROVE CountersInv'
  OBVIOUS
<1>1. /\ TelemetryTypeOK /\ ErrorsAddUp /\ StoresTypeOK /\ SnapshotBegun /\ FaultsCounted
      /\ StoresInv /\ now \in Nat
  BY DEF CountersInv, StoresInOrder, FaultsCounted, StoresInv, RowsInOrder, RegisteredStates,
         StatesWritten, Written, WrittenBefore, StoresTypeOK
<1>2. TelemetryTypeOK' /\ FaultsCounted' /\ ErrorsAddUp'
  BY <1>1, StepKinds, CountingTypes, CountingErrors
<1>3. StoresInv'
  BY <1>1, NextStores
<1>4. SnapshotBegun'
  BY <1>1, NextSnapshot
<1> QED
  BY <1>2, <1>3, <1>4 DEF CountersInv, StoresInOrder, FaultsCounted, StoresInv, RowsInOrder,
                          RegisteredStates, StatesWritten, Written, WrittenBefore

\* What has been counted, stored and begun to be read is consistent at all times:
\* a total and its parts differ by the error the source is adding at most, every
\* fault of a store is in its counter, and a reading in progress is bounded by
\* what it began with (counters.rs:61-160).
THEOREM CountersInvariant == Spec => []CountersInv
BY InitCounters, NextCounters, PTL DEF Spec
-----------------------------------------------------------------------------
(* The answers *)

\* No error is answered with 200.
LEMMA RefusedIsNot200 ==
  ASSUME NEW endpoint,
         NEW error \in {"invalid_symbol", "invalid_request", "not_found", "cache_unavailable",
                        "internal_error"},
         Refuse(endpoint, error)
  PROVE  answer'.status # 200
<1>1. Status(error) \in {400, 404, 503, 500}
  BY DEF Status
<1> QED
  BY <1>1 DEF Refuse, Reply

\* Who answers with 200: the counters, the dashboard and the timeline are
\* answered by one step each, but for the demo.
LEMMA WhoAnswers ==
  ASSUME Next, answer' # None, answer'.status = 200
  PROVE  \/ answer'.endpoint = "metrics" /\ Metrics
         \/ answer'.endpoint = "pipeline_health" /\ PipelineHealth
         \/ answer'.endpoint = "dashboard" /\ (answer'.source = "demo" \/ AnswerDashboard)
         \/ answer'.endpoint = "market_timeline" /\ (answer'.source = "demo" \/ AnswerTimeline)
         \/ answer'.endpoint \in {"health", "runtime_mode", "symbols", "market_state", "anomalies"}
<1> DEFINE Goal == \/ answer'.endpoint = "metrics" /\ Metrics
                   \/ answer'.endpoint = "pipeline_health" /\ PipelineHealth
                   \/ answer'.endpoint = "dashboard" /\ (answer'.source = "demo" \/ AnswerDashboard)
                   \/ answer'.endpoint = "market_timeline"
                        /\ (answer'.source = "demo" \/ AnswerTimeline)
                   \/ answer'.endpoint \in {"health", "runtime_mode", "symbols", "market_state",
                                            "anomalies"}
<1>1. ~Deliver /\ ~Tick /\ ~IngestionStep
  BY DEF Deliver, Tick, IngestionStep, IngestEvent, CountParseError, CountReconnect, FinishCounting,
         StoreFault, InsertTrade, InsertAnomaly, SetMarketState, ClearKeys, ClearRegistered, Truncate,
         UpdateRuntime, Counting, Writing
<1>2. RequestStep
  BY <1>1 DEF Next
<1>3. \A endpoint : ~FailCache(endpoint) /\ ~FailStorage(endpoint)
  BY RefusedIsNot200 DEF FailCache, FailStorage, CacheErrors
<1>4. CASE Health \/ GetRuntimeMode
  BY <1>4 DEF Health, GetRuntimeMode, Reply
<1>5. ASSUME NEW endpoint \in {"pipeline_health", "metrics"}, BeginSnapshot(endpoint) PROVE Goal
  BY <1>5 DEF BeginSnapshot, Continue
<1>6. CASE PipelineHealth
  BY <1>6 DEF PipelineHealth, Reply
<1>7. CASE Metrics
  BY <1>7 DEF Metrics, Reply
<1>8. CASE GetSymbols
  BY <1>3, <1>8 DEF GetSymbols, Reply
<1>9. ASSUME NEW s \in Symbols \cup {BadSymbol}, MarketState(s) PROVE Goal
  BY <1>3, <1>9 DEF MarketState, Refuse, Reply
<1>10. ASSUME NEW s \in Symbols \cup {BadSymbol, None}, NEW limit \in Limits, Anomalies(s, limit)
       PROVE  Goal
  BY <1>3, <1>10 DEF Anomalies, Refuse, Reply
<1>11. ASSUME NEW s \in Symbols \cup {BadSymbol}, NEW query \in Modes, MarketTimeline(s, query)
       PROVE  Goal
  BY <1>11, RefusedIsNot200 DEF MarketTimeline, Reply, Continue
<1>12. CASE LoadTimelineTrades
  BY <1>3, <1>12 DEF LoadTimelineTrades, Continue
<1>13. CASE AnswerTimeline
  BY <1>3, <1>13 DEF AnswerTimeline, Reply
<1>14. ASSUME NEW query \in Modes, Dashboard(query) PROVE Goal
  BY <1>14 DEF Dashboard, Reply, Continue
<1>15. CASE DashboardSymbols \/ DashboardStates
  BY <1>3, <1>15 DEF DashboardSymbols, DashboardStates, Continue
<1>16. CASE DashboardAnomalies \/ DashboardTime
  BY <1>3, <1>16 DEF DashboardAnomalies, DashboardTime, Continue
<1>17. CASE AnswerDashboard
  BY <1>17 DEF AnswerDashboard, Reply
<1> QED
  BY <1>2, <1>4, <1>5, <1>6, <1>7, <1>8, <1>9, <1>10, <1>11, <1>12, <1>13, <1>14, <1>15, <1>16, <1>17
     DEF RequestStep

\* A snapshot has of every counter what it held at some moment of the reading.
LEMMA SnapshotReads ==
  ASSUME TelemetryTypeOK, SnapshotBegun, request.pc \in {"snapshot", "summary"},
         NEW s \in SnapshotAt(request.counts, request.last, request.at)
  PROVE  /\ \A c \in CounterNames : /\ s.counts[c] \in Nat /\ request.counts[c] \in Nat
                                    /\ request.counts[c] <= s.counts[c]
                                    /\ s.counts[c] <= counters[c]
         /\ \E l \in request.last .. last_message :
              s.last_message_age = LastMessageAge(l, request.at)
<1> DEFINE since == request.counts
           moved == {c \in CounterNames : counters[c] # since[c]}
           unseen == {d \in [moved -> 0 .. MaxCount] :
                        \A c \in moved : d[c] <= counters[c] - since[c]}
<1>1. PICK d \in unseen, l \in request.last .. last_message :
        s = [counts |-> [c \in CounterNames |-> IF c \in moved THEN counters[c] - d[c]
                                                ELSE counters[c]],
             last_message_age |-> LastMessageAge(l, request.at)]
  BY DEF SnapshotAt
<1>2. ASSUME NEW c \in CounterNames
      PROVE  /\ s.counts[c] \in Nat /\ since[c] \in Nat
             /\ since[c] <= s.counts[c] /\ s.counts[c] <= counters[c]
  <2>1. since[c] \in Nat /\ counters[c] \in Nat /\ since[c] <= counters[c]
    BY DEF SnapshotBegun, TelemetryTypeOK
  <2>2. CASE c \in moved
    <3>1. d[c] \in 0 .. MaxCount /\ d[c] <= counters[c] - since[c] /\ MaxCount \in Nat
      BY <2>2, TelemetryAssumption
    <3>2. s.counts[c] = counters[c] - d[c]
      BY <1>1, <2>2
    <3> HIDE DEF since
    <3> QED
      BY <2>1, <3>1, <3>2
  <2>3. CASE c \notin moved
    <3>1. s.counts[c] = counters[c]
      BY <1>1, <2>3
    <3> QED
      BY <2>1, <3>1
  <2> QED
    BY <2>2, <2>3
<1> QED
  BY <1>1, <1>2

\* What a page of metrics shows of the errors, in terms of the snapshot.
LEMMA PageShows ==
  ASSUME NEW s, NEW t \in Totals
  PROVE  LET shown == RenderPrometheusMetrics(s)[t]
         IN  /\ shown.total = s.counts[t]
             /\ SumOfParts(s.counts, t) =
                  IF t = "parse_errors" THEN shown.parts["replay"] + shown.parts["binance"]
                  ELSE shown.parts["binance"]
<1>1. CASE t = "parse_errors"
  BY <1>1, Names DEF RenderPrometheusMetrics, RenderParseErrors, SumOfParts, ParseErrors
<1>2. CASE t = "reconnect_attempts"
  BY <1>2 DEF RenderPrometheusMetrics, RenderReconnects, SumOfParts
<1> QED
  BY <1>1, <1>2 DEF Totals

\* A page of metrics adds up to the errors in flight, for every number of errors
\* counted and every moment at which each counter is read.
THEOREM SnapshotsExact == Spec => SnapshotsAddUp
<1>1. CountersInv /\ Next => SnapshotAddsUp
  <2> SUFFICES ASSUME CountersInv, Next, Answers("metrics"), NEW t \in Totals,
                      NEW shown, shown = answer'.body[t],
                      NEW sum, sum = IF t = "parse_errors"
                                     THEN shown.parts["replay"] + shown.parts["binance"]
                                     ELSE shown.parts["binance"]
               PROVE  {shown.total, sum} \subseteq request.arrived.completed[t] .. begun[t]
    BY DEF SnapshotAddsUp
  <2>1. Metrics
    BY WhoAnswers DEF Answers
  <2>2. request.pc = "snapshot"
    BY <2>1 DEF Metrics, Step
  <2>3. PICK s \in SnapshotAt(request.counts, request.last, request.at) :
          answer'.body = RenderPrometheusMetrics(s)
    BY <2>1 DEF Metrics, Reply
  <2>4. shown.total = s.counts[t] /\ sum = SumOfParts(s.counts, t)
    BY <2>3, PageShows
  <2>5. TelemetryTypeOK /\ ErrorsAddUp /\ SnapshotBegun
    BY DEF CountersInv
  <2>6. \A c \in CounterNames : /\ s.counts[c] \in Nat /\ request.counts[c] \in Nat
                                /\ counters[c] \in Nat
                                /\ request.counts[c] <= s.counts[c] /\ s.counts[c] <= counters[c]
    BY <2>2, <2>5, SnapshotReads DEF TelemetryTypeOK
  <2>7. /\ request.arrived.completed[t] \in Nat
        /\ request.arrived.completed[t] <= request.counts[t]
        /\ request.arrived.completed[t] <= SumOfParts(request.counts, t)
    BY <2>2, <2>5 DEF SnapshotBegun
  <2>8. counters[t] <= begun[t] /\ SumOfParts(counters, t) <= begun[t] /\ begun[t] \in Nat
    BY <2>5, CountsBetween DEF TelemetryTypeOK
  <2>9. s.counts[t] \in request.arrived.completed[t] .. begun[t]
    <3>1. t \in CounterNames
      BY DEF CounterNames
    <3> QED
      BY <2>6, <2>7, <2>8, <3>1
  <2>10. SumOfParts(s.counts, t) \in request.arrived.completed[t] .. begun[t]
    <3>1. {"replay_parse_errors", "binance_parse_errors", "binance_reconnect_attempts"}
            \subseteq CounterNames
      BY Names
    <3> QED
      BY <2>6, <2>7, <2>8, <3>1 DEF SumOfParts
  <2> QED
    BY <2>4, <2>9, <2>10
<1> QED
  BY <1>1, CountersInvariant, PTL DEF Spec, SnapshotsAddUp

\* The verdict on a snapshot of the counters.
LEMMA VerdictOfSnapshot ==
  ASSUME CountersInv, request.pc \in {"snapshot", "summary"},
         NEW s \in SnapshotAt(request.counts, request.last, request.at),
         NEW verdict, verdict = ClassifyPipelineHealth(s)
  PROVE  /\ verdict = "healthy" =>
              /\ request.arrived.faults = 0
              /\ request.arrived.completed["parse_errors"] = 0
              /\ last_message # 0 /\ request.at - last_message <= DegradedAfter
         /\ verdict = "unhealthy" =>
              /\ faults + begun["parse_errors"] > 0
              /\ request.at - request.last > UnhealthyAfter
<1>1. TelemetryTypeOK /\ ErrorsAddUp /\ SnapshotBegun
  BY DEF CountersInv
<1>2. /\ {"parse_errors", "storage_errors", "cache_errors"} \subseteq CounterNames
      /\ "parse_errors" \in Totals
  BY Names DEF Totals
<1>3. \A c \in CounterNames : /\ s.counts[c] \in Nat /\ request.counts[c] \in Nat
                              /\ counters[c] \in Nat
                              /\ request.counts[c] <= s.counts[c] /\ s.counts[c] <= counters[c]
  BY <1>1, SnapshotReads DEF TelemetryTypeOK
<1>4. PICK l \in request.last .. last_message : s.last_message_age = LastMessageAge(l, request.at)
  BY <1>1, SnapshotReads
<1>5. /\ request.last \in Nat /\ last_message \in Nat /\ request.at \in Nat /\ l \in Nat
      /\ request.last <= l /\ l <= last_message
  BY <1>1, <1>4 DEF SnapshotBegun, TelemetryTypeOK
<1>6. DegradedAfter \in Nat /\ UnhealthyAfter \in Nat
  BY TelemetryAssumption
<1>7. s.last_message_age # None =>
        l # 0 /\ s.last_message_age = IF 0 >= request.at - l THEN 0 ELSE request.at - l
  BY <1>4, <1>5, MaxOfTwo DEF LastMessageAge
<1>8. ASSUME verdict = "healthy"
      PROVE  /\ request.arrived.faults = 0
             /\ request.arrived.completed["parse_errors"] = 0
             /\ last_message # 0 /\ request.at - last_message <= DegradedAfter
  <2>1. /\ s.last_message_age # None /\ s.last_message_age <= DegradedAfter
        /\ ~HasConcerningErrors(s)
    BY <1>8 DEF ClassifyPipelineHealth
  <2>2. \A c \in {"parse_errors", "storage_errors", "cache_errors"} : request.counts[c] = 0
    BY <1>2, <1>3, <2>1 DEF HasConcerningErrors
  <2>3. request.arrived.faults = 0
    BY <1>1, <2>2 DEF SnapshotBegun
  <2>4. request.arrived.completed["parse_errors"] = 0
    BY <1>1, <1>2, <2>2 DEF SnapshotBegun
  <2>5. last_message # 0 /\ request.at - last_message <= DegradedAfter
    BY <1>5, <1>6, <1>7, <2>1
  <2> QED
    BY <2>3, <2>4, <2>5
<1>9. ASSUME verdict = "unhealthy"
      PROVE  faults + begun["parse_errors"] > 0 /\ request.at - request.last > UnhealthyAfter
  <2>1. /\ s.last_message_age # None /\ s.last_message_age > UnhealthyAfter
        /\ HasConcerningErrors(s)
    BY <1>9 DEF ClassifyPipelineHealth
  <2>2. request.at - request.last > UnhealthyAfter
    BY <1>5, <1>6, <1>7, <2>1
  <2>3. PICK c \in {"parse_errors", "storage_errors", "cache_errors"} : s.counts[c] > 0
    BY <2>1 DEF HasConcerningErrors
  <2>4. counters[c] > 0
    BY <1>2, <1>3, <2>3
  <2>5. faults = counters["storage_errors"] + counters["cache_errors"]
    BY DEF CountersInv, StoresInOrder
  <2>6. counters["parse_errors"] <= begun["parse_errors"] /\ begun["parse_errors"] \in Nat
    BY <1>1, <1>2, CountsBetween DEF TelemetryTypeOK
  <2>7. faults + begun["parse_errors"] > 0
    BY <1>2, <1>3, <2>4, <2>5, <2>6
  <2> QED
    BY <2>2, <2>7
<1> QED
  BY <1>8, <1>9

\* The verdict on the pipeline is backed by what was counted, wherever the
\* thresholds are and however long the reading takes.
THEOREM VerdictSound == Spec => VerdictIsSound
<1>1. CountersInv /\ Next => SoundVerdict
  <2> SUFFICES ASSUME CountersInv, Next,
                      Answers("pipeline_health")
                        \/ (Answers("dashboard") /\ answer'.source = "live"),
                      NEW verdict,
                      verdict = IF answer'.endpoint = "dashboard" THEN answer'.body.pipeline.status
                                ELSE answer'.body.status
               PROVE  /\ verdict = "healthy" =>
                           /\ request.arrived.faults = 0
                           /\ request.arrived.completed["parse_errors"] = 0
                           /\ last_message # 0 /\ request.at - last_message <= DegradedAfter
                      /\ verdict = "unhealthy" =>
                           /\ faults + begun["parse_errors"] > 0
                           /\ request.at - request.last > UnhealthyAfter
    BY DEF SoundVerdict
  <2>1. CASE Answers("pipeline_health")
    <3>1. PipelineHealth
      BY <2>1, WhoAnswers DEF Answers
    <3>2. request.pc = "snapshot"
      BY <3>1 DEF PipelineHealth, Step
    <3>3. PICK s \in SnapshotAt(request.counts, request.last, request.at) :
            answer'.endpoint = "pipeline_health" /\ answer'.body = PipelineHealthResponse(s)
      BY <3>1 DEF PipelineHealth, Reply
    <3>4. verdict = ClassifyPipelineHealth(s)
      BY <3>3 DEF PipelineHealthResponse
    <3> QED
      BY <3>2, <3>4, VerdictOfSnapshot
  <2>2. CASE Answers("dashboard") /\ answer'.source = "live"
    <3>1. AnswerDashboard
      BY <2>2, WhoAnswers DEF Answers
    <3>2. request.pc = "summary"
      BY <3>1 DEF AnswerDashboard, Step
    <3>3. PICK s \in SnapshotAt(request.counts, request.last, request.at) :
            answer'.endpoint = "dashboard" /\ answer'.body.pipeline = PipelineHealthResponse(s)
      BY <3>1 DEF AnswerDashboard, Reply
    <3>4. verdict = ClassifyPipelineHealth(s)
      BY <3>3 DEF PipelineHealthResponse
    <3> QED
      BY <3>2, <3>4, VerdictOfSnapshot
  <2> QED
    BY <2>1, <2>2
<1> QED
  BY <1>1, CountersInvariant, PTL DEF Spec, VerdictIsSound
-----------------------------------------------------------------------------
(* The newest rows, and rows in order *)

\* Of a finite set, the newest n leave out only what is older.
LEMMA NewestTrades ==
  ASSUME NEW all, IsFiniteSet(all), NEW n \in Nat, NEW rows \in Newest(all, n, Time)
  PROVE  /\ rows \subseteq all /\ IsFiniteSet(rows)
         /\ \A r \in all \ rows : Cardinality(rows) = n /\ \A q \in rows : q.time >= r.time
<1>1. rows \subseteq all /\ Cardinality(rows) = Min({n, Cardinality(all)})
  BY DEF Newest
<1>2. IsFiniteSet(rows) /\ Cardinality(all) \in Nat /\ Cardinality(rows) \in Nat
  BY <1>1, FS_Subset, FS_CardinalityType
<1>3. ASSUME NEW r \in all \ rows PROVE Cardinality(rows) = n
  <2>1. Cardinality(rows) <= Cardinality(all) /\ Cardinality(rows) # Cardinality(all)
    BY <1>1, <1>2, FS_Subset
  <2> QED
    BY <1>1, <1>2, <2>1, MinOfTwo
<1>4. ASSUME NEW r \in all \ rows, NEW q \in rows PROVE q.time >= r.time
  BY DEF Newest, Time
<1> QED
  BY <1>1, <1>2, <1>3, <1>4

\* The same by the time of creation, for anomalies.
LEMMA NewestAnomalies ==
  ASSUME NEW all, IsFiniteSet(all), NEW n \in Nat, NEW rows \in Newest(all, n, Created)
  PROVE  /\ rows \subseteq all /\ IsFiniteSet(rows)
         /\ \A r \in all \ rows : Cardinality(rows) = n /\ \A q \in rows : q.created >= r.created
<1>1. rows \subseteq all /\ Cardinality(rows) = Min({n, Cardinality(all)})
  BY DEF Newest
<1>2. IsFiniteSet(rows) /\ Cardinality(all) \in Nat /\ Cardinality(rows) \in Nat
  BY <1>1, FS_Subset, FS_CardinalityType
<1>3. ASSUME NEW r \in all \ rows PROVE Cardinality(rows) = n
  <2>1. Cardinality(rows) <= Cardinality(all) /\ Cardinality(rows) # Cardinality(all)
    BY <1>1, <1>2, FS_Subset
  <2> QED
    BY <1>1, <1>2, <2>1, MinOfTwo
<1>4. ASSUME NEW r \in all \ rows, NEW q \in rows PROVE q.created >= r.created
  BY DEF Newest, Created
<1> QED
  BY <1>1, <1>2, <1>3, <1>4

\* The strict subsets of a finite set are a well-founded order.
LEMMA SubsetsWellFounded ==
  ASSUME NEW S, IsFiniteSet(S)
  PROVE  IsWellFoundedOn(StrictSubsetOrdering(S), SUBSET S)
<1>1. FiniteSubsetsOf(S) = SUBSET S
  BY FS_FiniteSubsetsOfFinite
<1> QED
  BY <1>1, FS_StrictSubsetOrderingWellFounded

\* before is a strict order on rows, which need not be total
StrictOrder(rows, before) ==
  /\ \A r \in rows : <<r, r>> \notin before
  /\ \A p, q, r \in rows : <<p, q>> \in before /\ <<q, r>> \in before => <<p, r>> \in before

\* A finite set that is not empty has an element that comes before no other:
\* induction over its subsets.
LEMMA LastExists ==
  ASSUME NEW S, IsFiniteSet(S), S # {}, NEW before, StrictOrder(S, before)
  PROVE  \E m \in S : \A r \in S : <<m, r>> \notin before
<1> DEFINE Bad == {T \in SUBSET S : T # {} /\ \A m \in T : \E r \in T : <<m, r>> \in before}
<1> SUFFICES ASSUME Bad # {} PROVE FALSE
  OBVIOUS
<1>1. IsWellFoundedOn(StrictSubsetOrdering(S), SUBSET S)
  BY SubsetsWellFounded
<1>2. Bad \subseteq SUBSET S
  OBVIOUS
<1> HIDE DEF Bad
<1>3. PICK T \in Bad : \A V \in Bad : ~(<<V, T>> \in StrictSubsetOrdering(S))
  BY <1>1, <1>2, WFMin
<1>4. T \in SUBSET S /\ T # {} /\ \A m \in T : \E r \in T : <<m, r>> \in before
  BY DEF Bad
<1>5. PICK x \in T : TRUE
  BY <1>4
<1>6. <<T \ {x}, T>> \in StrictSubsetOrdering(S)
  BY <1>4, <1>5 DEF StrictSubsetOrdering
<1>7. T \ {x} \in SUBSET S /\ T \ {x} \notin Bad
  BY <1>3, <1>4, <1>6
<1>8. PICK y \in T : <<x, y>> \in before
  BY <1>4, <1>5
<1>9. y \in T \ {x}
  BY <1>4, <1>5, <1>8 DEF StrictOrder
<1>10. PICK m \in T \ {x} : \A r \in T \ {x} : <<m, r>> \notin before
  BY <1>7, <1>9 DEF Bad
<1>11. PICK r \in T : <<m, r>> \in before
  BY <1>4, <1>10
<1>12. r = x
  BY <1>10, <1>11
<1>13. <<m, y>> \in before
  BY <1>4, <1>8, <1>10, <1>11, <1>12 DEF StrictOrder
<1> QED
  BY <1>9, <1>10, <1>13

\* seq is the rows in that order
InOrder(seq, rows, before) ==
  /\ seq \in [1 .. Cardinality(rows) -> rows]
  /\ \A r \in rows : \E i \in DOMAIN seq : seq[i] = r
  /\ \A i, j \in DOMAIN seq : i < j => <<seq[j], seq[i]>> \notin before

\* The last row is put behind the others.
LEMMA OrderExtends ==
  ASSUME NEW T, IsFiniteSet(T), NEW before, NEW m \in T, \A r \in T : <<m, r>> \notin before,
         NEW seq, InOrder(seq, T \ {m}, before)
  PROVE  \E longer : InOrder(longer, T, before)
<1>1. PICK n \in Nat : n = Cardinality(T \ {m}) /\ Cardinality(T) = n + 1
  <2>1. IsFiniteSet(T \ {m}) /\ Cardinality(T \ {m}) = Cardinality(T) - 1
    BY FS_RemoveElement
  <2>2. Cardinality(T \ {m}) \in Nat /\ Cardinality(T) \in Nat
    BY <2>1, FS_CardinalityType
  <2> QED
    BY <2>1, <2>2
<1>2. seq \in [1 .. n -> T \ {m}] /\ DOMAIN seq = 1 .. n
  BY <1>1 DEF InOrder
<1> DEFINE longer == [i \in 1 .. n + 1 |-> IF i = n + 1 THEN m ELSE seq[i]]
<1>3. \A i \in 1 .. n : i \in 1 .. n + 1 /\ i # n + 1 /\ longer[i] = seq[i] /\ seq[i] \in T \ {m}
  BY <1>2
<1>4. n + 1 \in 1 .. n + 1 /\ longer[n + 1] = m
  OBVIOUS
<1>5. \A i \in 1 .. n + 1 : i # n + 1 => i \in 1 .. n
  OBVIOUS
<1>6. DOMAIN longer = 1 .. n + 1
  OBVIOUS
<1> HIDE DEF longer
<1>7. \A i \in 1 .. n + 1 : longer[i] \in T
  BY <1>3, <1>4, <1>5
<1>8. longer \in [1 .. Cardinality(T) -> T]
  <2>1. longer \in [1 .. n + 1 -> T]
    BY <1>7 DEF longer
  <2> QED
    BY <1>1, <2>1
<1>9. \A r \in T : \E i \in DOMAIN longer : longer[i] = r
  <2> SUFFICES ASSUME NEW r \in T PROVE \E i \in DOMAIN longer : longer[i] = r
    OBVIOUS
  <2>1. CASE r = m
    BY <1>4, <1>6, <2>1
  <2>2. CASE r # m
    <3>1. PICK i \in 1 .. n : seq[i] = r
      BY <1>2, <2>2 DEF InOrder
    <3> QED
      BY <1>3, <1>6, <3>1
  <2> QED
    BY <2>1, <2>2
<1>10. ASSUME NEW i \in 1 .. n + 1, NEW j \in 1 .. n + 1, i < j
       PROVE  <<longer[j], longer[i]>> \notin before
  <2>1. i \in 1 .. n
    BY <1>10
  <2>2. CASE j = n + 1
    BY <1>4, <1>7, <2>2
  <2>3. CASE j # n + 1
    <3>1. j \in 1 .. n
      BY <1>5, <2>3
    <3> QED
      BY <1>2, <1>3, <1>10, <2>1, <3>1 DEF InOrder
  <2> QED
    BY <2>2, <2>3
<1>11. InOrder(longer, T, before)
  BY <1>6, <1>8, <1>9, <1>10 DEF InOrder
<1> QED
  BY <1>11

\* Every finite set of rows can be put in order: induction over its subsets.
LEMMA OrderExists ==
  ASSUME NEW S, IsFiniteSet(S), NEW before, StrictOrder(S, before)
  PROVE  \E seq : InOrder(seq, S, before)
<1> DEFINE Bad == {T \in SUBSET S : ~\E seq : InOrder(seq, T, before)}
<1> SUFFICES ASSUME Bad # {} PROVE FALSE
  OBVIOUS
<1>1. IsWellFoundedOn(StrictSubsetOrdering(S), SUBSET S)
  BY SubsetsWellFounded
<1>2. Bad \subseteq SUBSET S
  OBVIOUS
<1> HIDE DEF Bad
<1>3. PICK T \in Bad : \A V \in Bad : ~(<<V, T>> \in StrictSubsetOrdering(S))
  BY <1>1, <1>2, WFMin
<1>4. T \in SUBSET S /\ IsFiniteSet(T) /\ ~\E seq : InOrder(seq, T, before)
  BY FS_Subset DEF Bad
<1>5. CASE T = {}
  <2>1. Cardinality(T) = 0
    BY <1>5, FS_EmptySet
  <2>2. InOrder([i \in 1 .. 0 |-> 0], T, before)
    BY <1>5, <2>1 DEF InOrder
  <2> QED
    BY <1>4, <2>2
<1>6. CASE T # {}
  <2>1. StrictOrder(T, before)
    BY <1>4 DEF StrictOrder
  <2>2. PICK m \in T : \A r \in T : <<m, r>> \notin before
    BY <1>4, <1>6, <2>1, LastExists
  <2>3. <<T \ {m}, T>> \in StrictSubsetOrdering(S)
    BY <1>4 DEF StrictSubsetOrdering
  <2>4. T \ {m} \in SUBSET S /\ T \ {m} \notin Bad
    BY <1>3, <1>4, <2>3
  <2>5. PICK seq : InOrder(seq, T \ {m}, before)
    BY <2>4 DEF Bad
  <2> QED
    BY <1>4, <2>2, <2>5, OrderExtends
<1> QED
  BY <1>5, <1>6

\* SortedBy gives all the rows and no others, in the order asked for.
LEMMA SortedIsInOrder ==
  ASSUME NEW rows, IsFiniteSet(rows), NEW before, StrictOrder(rows, before)
  PROVE  InOrder(SortedBy(rows, before), rows, before)
<1>1. PICK seq : InOrder(seq, rows, before)
  BY OrderExists
<1>2. \E s \in [1 .. Cardinality(rows) -> rows] :
        /\ \A r \in rows : \E i \in DOMAIN s : s[i] = r
        /\ \A i, j \in DOMAIN s : i < j => <<s[j], s[i]>> \notin before
  BY <1>1 DEF InOrder
<1> QED
  BY <1>2, Zenon DEF SortedBy, InOrder
-----------------------------------------------------------------------------
(* A timeline in progress *)

\* The rows of one symbol.
LEMMA RowsOf ==
  ASSUME NEW rows, NEW s \in Symbols
  PROVE  Of(rows, s) \subseteq rows /\ \A r \in Of(rows, s) : s = None \/ r.symbol = s
BY DEF Of

\* A row that was stored when the request came is never written again: of the
\* old rows a write can only lose some.
LEMMA OldRowsFade ==
  ASSUME StoresInv, WritingStep, NEW old, \A r \in old : r.id \in Int /\ r.id < -budget.writing
  PROVE  /\ old \cap trades' \subseteq old \cap trades
         /\ \A r \in old : r.id < -budget'.writing
<1>1. /\ DOMAIN request' = DOMAIN NoRequest
      /\ budget.writing \in Nat /\ budget'.writing = budget.writing - 1
  <2>1. DOMAIN request' = DOMAIN NoRequest
    BY DEF StoresInv, StoresTypeOK, WritingStep, InsertTrade, InsertAnomaly, SetMarketState, ClearKeys,
           ClearRegistered, Truncate, UpdateRuntime, Writing
  <2> QED
    BY <2>1, WritingStores
<1>2. \A r \in old : r.id < -budget'.writing
  BY <1>1
<1>3. ASSUME NEW s \in Symbols, NEW d \in Delays, InsertTrade(s, d)
      PROVE  old \cap trades' \subseteq old \cap trades
  <2> DEFINE row == [id |-> -budget.writing, symbol |-> s, time |-> now - d]
  <2>1. trades' = trades \cup {row} /\ row.id = -budget.writing
    BY <1>3 DEF InsertTrade
  <2>2. row \notin old
    BY <1>1, <2>1
  <2> QED
    BY <2>1, <2>2
<1>4. ASSUME ~\E s \in Symbols, d \in Delays : InsertTrade(s, d)
      PROVE  old \cap trades' \subseteq old \cap trades
  BY <1>4 DEF WritingStep, InsertAnomaly, SetMarketState, ClearKeys, ClearRegistered, Truncate,
              UpdateRuntime
<1> QED
  BY <1>2, <1>3, <1>4

\* the request is a timeline's, as TimelineBegun has it
TimelineFields == {"pc", "symbol", "at", "rows", "arrived"}

\* A timeline in progress stays as it is while the old rows fade.
LEMMA TimelineStays ==
  ASSUME TimelineBegun, \A f \in TimelineFields : request'[f] = request[f],
         request.pc \in {"trades", "timeline"} =>
           /\ request.arrived.trades \cap trades' \subseteq request.arrived.trades \cap trades
           /\ \A r \in request.arrived.trades \cup request.arrived.anomalies :
                r.id < -budget'.writing
  PROVE  TimelineBegun'
<1>1. /\ request'.pc = request.pc /\ request'.symbol = request.symbol /\ request'.at = request.at
      /\ request'.rows = request.rows /\ request'.arrived = request.arrived
  BY DEF TimelineFields
<1>2. CASE request.pc \in {"trades", "timeline"}
  <2>1. request.pc = "timeline" =>
          ShowsNewest(request.rows, request.arrived.trades \cap trades', TimelinePointLimit, Time)
    BY <1>2 DEF TimelineBegun, ShowsNewest
  <2> QED
    BY <1>1, <1>2, <2>1 DEF TimelineBegun
<1>3. CASE request.pc \notin {"trades", "timeline"}
  BY <1>1, <1>3 DEF TimelineBegun
<1> QED
  BY <1>2, <1>3

\* Every step keeps what a timeline in progress has read.
LEMMA NextTimeline ==
  ASSUME StoresInv, TimelineBegun, [Next]_vars
  PROVE  TimelineBegun'
<1>0. DOMAIN request = DOMAIN NoRequest /\ TimelineFields \subseteq DOMAIN NoRequest \ {"cleared"}
  BY Fields DEF StoresInv, StoresTypeOK, TimelineFields
<1>1. CASE request' = NoRequest
  BY <1>1 DEF NoRequest, TimelineBegun
<1>2. CASE Reading /\ request' = request
  <2>1. budget'.writing = budget.writing /\ trades' = trades
    BY <1>0, <1>2, ReadingStores DEF Reading, stores
  <2> QED
    BY <1>2, <2>1, TimelineStays DEF TimelineBegun
<1>3. CASE WritingStep
  <2>1. \A f \in TimelineFields : request'[f] = request[f]
    BY <1>0, <1>3, WritingRequest
  <2>2. ASSUME request.pc \in {"trades", "timeline"}
        PROVE  /\ request.arrived.trades \cap trades' \subseteq request.arrived.trades \cap trades
               /\ \A r \in request.arrived.trades \cup request.arrived.anomalies :
                    r.id < -budget'.writing
    <3>1. /\ request.arrived.trades \subseteq TradeRows /\ request.arrived.anomalies \subseteq AnomalyRows
          /\ \A r \in request.arrived.trades \cup request.arrived.anomalies : r.id < -budget.writing
      BY <2>2, RowsOf DEF TimelineBegun
    <3>2. /\ \A r \in request.arrived.trades : r.id \in Int /\ r.id < -budget.writing
          /\ \A r \in request.arrived.anomalies : r.id \in Int /\ r.id < -budget.writing
      BY <3>1 DEF TradeRows, AnomalyRows
    <3> QED
      BY <1>3, <3>2, OldRowsFade
  <2> QED
    BY <2>1, <2>2, TimelineStays
<1>4. CASE RequestGoesOn
  <2>0. budget' = budget /\ trades' = trades
    BY <1>4, GoingOnReads DEF stores
  <2>1. ASSUME NEW s \in Symbols,
               GoesOn([NoRequest EXCEPT !.pc = "trades", !.symbol = s, !.at = now,
                         !.arrived = [trades |-> Of(trades, s), anomalies |-> Of(anomalies, s)]])
        PROVE  TimelineBegun'
    <3>1. /\ request'.pc = "trades" /\ request'.symbol = s /\ request'.at = now
          /\ request'.arrived.trades = Of(trades, s) /\ request'.arrived.anomalies = Of(anomalies, s)
      BY <2>1, Fields DEF GoesOn, Continue
    <3>2. /\ Of(trades, s) \subseteq Of(TradeRows, s) /\ Of(anomalies, s) \subseteq Of(AnomalyRows, s)
          /\ now \in Nat
      BY DEF Of, StoresInv, StoresTypeOK
    <3>3. \A r \in Of(trades, s) \cup Of(anomalies, s) : r.id < -budget.writing
      BY RowsOf DEF StoresInv, RowsInOrder
    <3> QED
      BY <2>0, <3>1, <3>2, <3>3 DEF TimelineBegun
  <2>2. ASSUME request.pc = "trades", NEW rows \in GetRecentTrades(request.symbol),
               GoesOn([request EXCEPT !.pc = "timeline", !.rows = rows])
        PROVE  TimelineBegun'
    <3>1. /\ request'.pc = "timeline" /\ request'.rows = rows /\ request'.symbol = request.symbol
          /\ request'.at = request.at /\ request'.arrived = request.arrived
      BY <1>0, <2>2, Fields DEF GoesOn, Continue
    <3>2. /\ request.symbol \in Symbols
          /\ request.arrived.trades \subseteq Of(TradeRows, request.symbol)
      BY <2>2 DEF TimelineBegun
    <3>3. /\ IsFiniteSet(Of(trades, request.symbol)) /\ Of(trades, request.symbol) \subseteq TradeRows
          /\ TimelinePointLimit \in Nat
      BY <3>2, RowsOf, FS_Subset, ApiAssumption DEF StoresInv, StoresTypeOK
    <3>4. /\ rows \subseteq Of(trades, request.symbol) /\ IsFiniteSet(rows)
          /\ \A r \in Of(trades, request.symbol) \ rows :
               Cardinality(rows) = TimelinePointLimit /\ \A q \in rows : q.time >= r.time
      BY <2>2, <3>3, NewestTrades DEF GetRecentTrades
    <3>5. request.arrived.trades \cap trades \subseteq Of(trades, request.symbol)
      BY <3>2 DEF Of
    <3>6. ShowsNewest(rows, request.arrived.trades \cap trades, TimelinePointLimit, Time)
      BY <3>4, <3>5 DEF ShowsNewest, Time
    <3>7. /\ request.symbol \in Symbols /\ request.at \in Nat
          /\ request.arrived.anomalies \subseteq Of(AnomalyRows, request.symbol)
          /\ \A r \in request.arrived.trades \cup request.arrived.anomalies : r.id < -budget.writing
      BY <2>2 DEF TimelineBegun
    <3> QED
      BY <2>0, <3>1, <3>2, <3>3, <3>4, <3>6, <3>7 DEF TimelineBegun
  <2>3. ASSUME request'.pc \notin {"trades", "timeline"} PROVE TimelineBegun'
    BY <2>3 DEF TimelineBegun
  <2>4. \/ \E s \in Symbols :
             GoesOn([NoRequest EXCEPT !.pc = "trades", !.symbol = s, !.at = now,
                       !.arrived = [trades |-> Of(trades, s), anomalies |-> Of(anomalies, s)]])
        \/ request.pc = "trades" /\ \E rows \in GetRecentTrades(request.symbol) :
             GoesOn([request EXCEPT !.pc = "timeline", !.rows = rows])
        \/ request'.pc \in {"snapshot", "symbols", "states", "recent", "build", "summary"}
    <3> HIDE DEF StoresInv, TimelineBegun
    <3> QED
      BY <1>0, <1>4, Fields DEF RequestGoesOn, GoesOn, Continue, BeginSnapshot, DashboardTime
  <2> QED
    BY <2>1, <2>2, <2>3, <2>4
<1> QED
  BY <1>1, <1>2, <1>3, <1>4, StepKinds
-----------------------------------------------------------------------------
(* A dashboard in progress *)

\* A state is no older than itself.
LEMMA AtLeastItself ==
  ASSUME NEW stamps \in Stamps
  PROVE  AtLeast(stamps, stamps)
<1>1. \A s \in Symbols : stamps[s] # None =>
        stamps[s].time \in Int /\ stamps[s].written \in Int
  BY DEF Stamps, States
<1> QED
  BY <1>1 DEF AtLeast, NoOlder

\* A write replaces a state by one that is no older than any written before,
\* unless the keys are deleted.
LEMMA StatesAdvance ==
  ASSUME StoresInv, WritingStep, ~ClearKeys, NEW stamps \in Stamps,
         WrittenBefore(stamps, aggregates, -budget.writing), AtLeast(states, stamps)
  PROVE  AtLeast(states', stamps)
<1>0. /\ states \in Stamps /\ now \in Nat /\ budget.writing \in Nat
      /\ \A r \in Runs, s \in Symbols : aggregates[r][s] \in Int \cup {None}
  BY DEF StoresInv, StoresTypeOK
<1>1. CASE states' = states
  BY <1>1
<1>2. ASSUME NEW r \in Runs, NEW s \in Symbols, NEW d \in Delays, SetMarketState(r, s, d)
      PROVE  AtLeast(states', stamps)
  <2>1. PICK time : time = Advanced(aggregates[r][s], d)
    OBVIOUS
  <2>2. time \in Int /\ (aggregates[r][s] # None => time >= aggregates[r][s])
    BY <1>0, <2>1, AdvancedTime
  <2> DEFINE state == [run |-> r, time |-> time, written |-> -budget.writing]
  <2>3. states' = [states EXCEPT ![s] = state]
    BY <1>2, <2>1 DEF SetMarketState
  <2>4. /\ state \in States /\ state.run = r /\ state.time = time
        /\ state.written = -budget.writing
    BY <1>0, <2>2 DEF States
  <2> HIDE DEF state
  <2>5. None \notin States
    BY ApiAssumption
  <2> SUFFICES ASSUME NEW x \in Symbols, stamps[x] # None
               PROVE  states'[x] # None /\ NoOlder(states'[x], stamps[x])
    BY DEF AtLeast
  <2>6. stamps[x].time \in Int /\ stamps[x].written \in Int /\ stamps[x].run \in Runs
    BY DEF Stamps, States
  <2>7. CASE x = s
    <3>1. states'[x] = state /\ state # None
      BY <1>0, <2>3, <2>4, <2>5, <2>7 DEF Stamps
    <3>2. stamps[x].written < -budget.writing /\ aggregates[stamps[x].run][x] # None
            /\ stamps[x].time <= aggregates[stamps[x].run][x]
      BY DEF WrittenBefore
    <3>3. state.written >= stamps[x].written
      BY <1>0, <2>4, <2>6, <3>2
    <3>4. ASSUME r = stamps[x].run PROVE time >= stamps[x].time
      <4>1. aggregates[r][s] \in Int /\ time >= aggregates[r][s] /\ stamps[x].time <= aggregates[r][s]
        BY <1>0, <2>2, <2>7, <3>2, <3>4
      <4> QED
        BY <2>2, <2>6, <4>1
    <3> QED
      BY <2>4, <3>1, <3>3, <3>4 DEF NoOlder
  <2>8. CASE x # s
    <3>1. states'[x] = states[x]
      BY <1>0, <2>3, <2>8 DEF Stamps
    <3> QED
      BY <3>1 DEF AtLeast
  <2> QED
    BY <2>7, <2>8
<1> QED
  BY <1>1, <1>2 DEF WritingStep, InsertTrade, InsertAnomaly, ClearRegistered, Truncate, UpdateRuntime

DashboardFields == {"pc", "runtime", "listed", "states", "arrived"}

\* A dashboard in progress stays as it is while later states are written.
LEMMA DashboardStays ==
  ASSUME DashboardBegun, \A f \in DashboardFields : request'[f] = request[f],
         request.pc \in {"symbols", "states", "recent", "build", "summary"} /\ ~request'.cleared =>
           ~request.cleared,
         request.pc \in {"symbols", "states"} /\ ~request'.cleared =>
           /\ WrittenBefore(request.arrived.states, aggregates', -budget'.writing)
           /\ AtLeast(states', request.arrived.states)
  PROVE  DashboardBegun'
<1>1. /\ request'.pc = request.pc /\ request'.runtime = request.runtime
      /\ request'.listed = request.listed /\ request'.states = request.states
      /\ request'.arrived = request.arrived
  BY DEF DashboardFields
<1>2. ASSUME request.pc \in {"symbols", "states"}, ~request'.cleared
      PROVE  Written(request.arrived.states)' /\ AtLeast(states', request.arrived.states)
  BY <1>1, <1>2 DEF Written, WrittenBefore
<1>3. request.pc \in {"symbols", "states", "recent", "build", "summary"} =>
        request.runtime \in RuntimeSnapshots /\ request.arrived.states \in Stamps
  BY DEF DashboardBegun
<1>4. request.pc \in {"states", "recent", "build", "summary"} =>
        /\ request.runtime.symbols \subseteq request.listed
        /\ request.listed \subseteq Symbols
        /\ ~request'.cleared =>
             \A s \in Symbols : request.arrived.states[s] # None => s \in request.listed
  BY DEF DashboardBegun
<1>5. request.pc \in {"recent", "build", "summary"} =>
        /\ request.states \in Stamps
        /\ ~request'.cleared => AtLeast(request.states, request.arrived.states)
  BY DEF DashboardBegun
<1> QED
  BY <1>1, <1>2, <1>3, <1>4, <1>5 DEF DashboardBegun

\* Every step keeps what a dashboard in progress has read.
LEMMA NextDashboard ==
  ASSUME StoresInv, DashboardBegun, [Next]_vars
  PROVE  DashboardBegun'
<1>0. /\ DOMAIN request = DOMAIN NoRequest /\ DashboardFields \subseteq DOMAIN NoRequest \ {"cleared"}
      /\ states \in Stamps /\ runtime \in RuntimeSnapshots /\ registered \subseteq Symbols
      /\ RegisteredStates /\ Written(states) /\ aggregates \in Aggregators
  BY Fields DEF StoresInv, StoresTypeOK, DashboardFields, StatesWritten, Written, WrittenBefore,
                Aggregators
<1>1. request.pc \in {"symbols", "states"} /\ ~request.cleared =>
        /\ request.arrived.states \in Stamps
        /\ WrittenBefore(request.arrived.states, aggregates, -budget.writing)
        /\ AtLeast(states, request.arrived.states)
  BY DEF DashboardBegun, Written, WrittenBefore
<1>2. CASE request' = NoRequest
  BY <1>2 DEF NoRequest, DashboardBegun
<1>3. CASE Reading /\ request' = request
  <2>1. states' = states /\ aggregates' = aggregates /\ budget'.writing = budget.writing
    BY <1>0, <1>3, ReadingStores DEF Reading, stores
  <2> QED
    BY <1>0, <1>1, <1>3, <2>1, DashboardStays
<1>4. CASE WritingStep
  <2>1. \A f \in DashboardFields : request'[f] = request[f]
    BY <1>0, <1>4, WritingRequest
  <2>2. ASSUME request.pc \in {"symbols", "states", "recent", "build", "summary"}, ~request'.cleared
        PROVE  ~request.cleared /\ ~ClearKeys
    BY <1>0, <1>4, <2>2, WritingRequest
  <2>3. ASSUME request.pc \in {"symbols", "states"}, ~request'.cleared
        PROVE  /\ WrittenBefore(request.arrived.states, aggregates', -budget'.writing)
               /\ AtLeast(states', request.arrived.states)
    <3>1. /\ request.arrived.states \in Stamps
          /\ WrittenBefore(request.arrived.states, aggregates, -budget.writing)
          /\ AtLeast(states, request.arrived.states)
      BY <1>1, <2>2, <2>3
    <3>2. -budget.writing \in Int /\ -budget'.writing \in Int /\ -budget.writing <= -budget'.writing
      BY NextStores
    <3>3. /\ aggregates' \in Aggregators
          /\ \A r \in Runs, s \in Symbols : aggregates[r][s] # None =>
               aggregates'[r][s] # None /\ aggregates'[r][s] >= aggregates[r][s]
      BY <1>4, AggregatesAdvance DEF StoresInv
    <3>4. WrittenBefore(request.arrived.states, aggregates', -budget'.writing)
      BY <1>0, <3>1, <3>2, <3>3, WrittenStays
    <3> QED
      BY <1>4, <2>2, <2>3, <3>1, <3>4, StatesAdvance
  <2> QED
    BY <2>1, <2>2, <2>3, DashboardStays
<1>5. CASE RequestGoesOn
  <2>0. states' = states /\ aggregates' = aggregates /\ budget' = budget
    BY <1>5, GoingOnReads DEF stores
  <2>1. CASE GoesOn([NoRequest EXCEPT !.pc = "symbols", !.runtime = runtime,
                       !.arrived = [states |-> states]])
    <3>1. /\ request'.pc = "symbols" /\ request'.runtime = runtime /\ request'.arrived.states = states
      BY <2>1, Fields DEF GoesOn, Continue
    <3>2. AtLeast(states, states)
      BY <1>0, AtLeastItself
    <3> QED
      BY <1>0, <2>0, <3>1, <3>2 DEF DashboardBegun, Written
  <2>2. CASE /\ request.pc = "symbols"
             /\ GoesOn([request EXCEPT !.pc = "states",
                          !.listed = request.runtime.symbols \cup registered])
    <3>1. /\ request'.pc = "states" /\ request'.listed = request.runtime.symbols \cup registered
          /\ request'.runtime = request.runtime /\ request'.arrived = request.arrived
          /\ request'.cleared = request.cleared
      BY <1>0, <2>2, Fields DEF GoesOn, Continue
    <3>2. /\ request.runtime \in RuntimeSnapshots /\ request.arrived.states \in Stamps
          /\ ~request.cleared =>
               Written(request.arrived.states) /\ AtLeast(states, request.arrived.states)
      BY <2>2 DEF DashboardBegun
    <3>3. request.runtime.symbols \subseteq Symbols
      BY <3>2, ApiAssumption
    <3>4. ~request.cleared =>
            \A s \in Symbols : request.arrived.states[s] # None => s \in registered
      BY <1>0, <3>2 DEF AtLeast, RegisteredStates
    <3> QED
      BY <1>0, <2>0, <3>1, <3>2, <3>3, <3>4 DEF DashboardBegun, Written
  <2>3. CASE request.pc = "states" /\ GoesOn([request EXCEPT !.pc = "recent", !.states = states])
    <3>1. /\ request'.pc = "recent" /\ request'.states = states
          /\ request'.runtime = request.runtime /\ request'.listed = request.listed
          /\ request'.arrived = request.arrived /\ request'.cleared = request.cleared
      BY <1>0, <2>3, Fields DEF GoesOn, Continue
    <3> QED
      BY <1>0, <2>0, <2>3, <3>1 DEF DashboardBegun
  <2>4. ASSUME request.pc = "recent", NEW rows,
               GoesOn([request EXCEPT !.pc = "build", !.recent = rows])
        PROVE  DashboardBegun'
    <3>1. /\ request'.pc = "build" /\ request'.states = request.states
          /\ request'.runtime = request.runtime /\ request'.listed = request.listed
          /\ request'.arrived = request.arrived /\ request'.cleared = request.cleared
      BY <1>0, <2>4, Fields DEF GoesOn, Continue
    <3> QED
      BY <2>4, <3>1 DEF DashboardBegun
  <2>5. CASE DashboardTime
    <3>1. /\ request.pc = "build" /\ request'.pc = "summary" /\ request'.states = request.states
          /\ request'.runtime = request.runtime /\ request'.listed = request.listed
          /\ request'.arrived.states = request.arrived.states /\ request'.cleared = request.cleared
      BY <1>0, <2>5, Fields DEF DashboardTime, Step, Continue
    <3> QED
      BY <3>1 DEF DashboardBegun
  <2>6. ASSUME request'.pc \in {"snapshot", "trades", "timeline"} PROVE DashboardBegun'
    BY <2>6 DEF DashboardBegun
  <2>7. \/ \E endpoint \in {"pipeline_health", "metrics"} : BeginSnapshot(endpoint)
        \/ \E s \in Symbols :
             GoesOn([NoRequest EXCEPT !.pc = "trades", !.symbol = s, !.at = now,
                       !.arrived = [trades |-> Of(trades, s), anomalies |-> Of(anomalies, s)]])
        \/ request.pc = "trades" /\ \E rows \in GetRecentTrades(request.symbol) :
             GoesOn([request EXCEPT !.pc = "timeline", !.rows = rows])
        => request'.pc \in {"snapshot", "trades", "timeline"}
    BY <1>0, Fields DEF GoesOn, Continue, BeginSnapshot
  <2> QED
    BY <1>5, <2>1, <2>2, <2>3, <2>4, <2>5, <2>6, <2>7 DEF RequestGoesOn
<1> QED
  BY <1>2, <1>3, <1>4, <1>5, StepKinds

\* What a request in progress has read is bounded by what was there when it
\* came, at each of its awaits.
THEOREM ApiInvariant == Spec => []ApiInv
<1>1. Init => ReadingsInv
  BY DEF Init, NoRequest, ReadingsInv, TimelineBegun, DashboardBegun
<1>2. CountersInv => StoresInv
  BY DEF CountersInv, StoresInOrder, StoresInv, RowsInOrder, RegisteredStates, StatesWritten,
         Written, WrittenBefore
<1>3. CountersInv /\ ReadingsInv /\ [Next]_vars => ReadingsInv'
  BY <1>2, NextTimeline, NextDashboard DEF ReadingsInv
<1> QED
  BY <1>1, <1>3, InitCounters, NextCounters, PTL DEF Spec, ApiInv
-----------------------------------------------------------------------------
(* Answers put together from several reads *)

\* The points of a timeline: every trade that was read, in the order of time.
LEMMA PointsInOrder ==
  ASSUME NEW rows, rows \subseteq TradeRows, IsFiniteSet(rows), NEW t,
         NEW points, points = TimelinePoints(rows, t)
  PROVE  /\ \A i \in DOMAIN points : points[i].row \in rows
         /\ \A r \in rows : \E i \in DOMAIN points : points[i].row = r
         /\ \A i, j \in DOMAIN points : i < j => points[i].row.time <= points[j].row.time
<1> DEFINE seq == SortedBy(rows, OldestFirst(rows))
<1>1. \A r \in rows : r.time \in Int
  BY DEF TradeRows
<1>2. \A a, b \in rows : (<<a, b>> \in OldestFirst(rows)) <=> a.time < b.time
  BY DEF OldestFirst
<1>3. StrictOrder(rows, OldestFirst(rows))
  BY <1>1, <1>2 DEF StrictOrder
<1>4. InOrder(seq, rows, OldestFirst(rows))
  BY <1>3, SortedIsInOrder
<1>5. points = [i \in DOMAIN seq |-> TimelinePoint(seq[i], t)]
  BY DEF TimelinePoints
<1> HIDE DEF seq
<1>6. DOMAIN points = DOMAIN seq /\ \A i \in DOMAIN seq : points[i].row = seq[i] /\ seq[i] \in rows
  BY <1>4, <1>5 DEF TimelinePoint, InOrder
<1>7. \A r \in rows : \E i \in DOMAIN points : points[i].row = r
  BY <1>4, <1>6 DEF InOrder
<1>8. DOMAIN seq \subseteq Int
  BY <1>4 DEF InOrder
<1>9. ASSUME NEW i \in DOMAIN points, NEW j \in DOMAIN points, i < j
      PROVE  points[i].row.time <= points[j].row.time
  <2>1. /\ points[i].row = seq[i] /\ points[j].row = seq[j]
        /\ seq[i] \in rows /\ seq[j] \in rows /\ i \in DOMAIN seq /\ j \in DOMAIN seq
    BY <1>6
  <2>2. <<seq[j], seq[i]>> \notin OldestFirst(rows)
    BY <1>4, <1>9, <2>1 DEF InOrder
  <2>3. ~(seq[j].time < seq[i].time) /\ seq[i].time \in Int /\ seq[j].time \in Int
    BY <1>1, <1>2, <2>1, <2>2
  <2> QED
    BY <2>1, <2>3
<1> QED
  BY <1>6, <1>7, <1>9

\* The anomalies of a timeline: all that were read, in the order of time.
LEMMA AnomaliesInOrder ==
  ASSUME NEW rows, rows \subseteq AnomalyRows, IsFiniteSet(rows)
  PROVE  /\ ToSet(TimelineAnomalies(rows)) = rows
         /\ Ordered(TimelineAnomalies(rows), Time)
<1> DEFINE before == OldestThenCreatedFirst(rows)
           seq == SortedBy(rows, before)
<1>1. \A r \in rows : r.time \in Int /\ r.created \in Int
  BY DEF AnomalyRows
<1>2. \A a, b \in rows : (<<a, b>> \in before) <=>
        (a.time < b.time \/ (a.time = b.time /\ a.created < b.created))
  BY DEF OldestThenCreatedFirst
<1> HIDE DEF before
<1>3. StrictOrder(rows, before)
  <2>1. ASSUME NEW r \in rows PROVE <<r, r>> \notin before
    BY <1>1, <1>2
  <2>2. ASSUME NEW p \in rows, NEW q \in rows, NEW r \in rows,
               <<p, q>> \in before, <<q, r>> \in before
        PROVE  <<p, r>> \in before
    <3>1. /\ p.time \in Int /\ q.time \in Int /\ r.time \in Int
          /\ p.created \in Int /\ q.created \in Int /\ r.created \in Int
      BY <1>1
    <3>2. /\ p.time < q.time \/ (p.time = q.time /\ p.created < q.created)
          /\ q.time < r.time \/ (q.time = r.time /\ q.created < r.created)
      BY <1>2, <2>2
    <3>3. p.time < r.time \/ (p.time = r.time /\ p.created < r.created)
      BY <3>1, <3>2
    <3> QED
      BY <1>2, <3>3
  <2> QED
    BY <2>1, <2>2 DEF StrictOrder
<1>4. InOrder(seq, rows, before)
  BY <1>3, SortedIsInOrder
<1>5. TimelineAnomalies(rows) = seq
  BY DEF TimelineAnomalies, before
<1> HIDE DEF seq
<1>6. \A i \in DOMAIN seq : seq[i] \in rows
  BY <1>4 DEF InOrder
<1>7. ToSet(seq) = rows
  BY <1>4, <1>6 DEF InOrder, ToSet
<1>8. ASSUME NEW i \in DOMAIN seq, NEW j \in DOMAIN seq, i < j
      PROVE  seq[i].time <= seq[j].time
  <2>1. <<seq[j], seq[i]>> \notin before
    BY <1>4, <1>8 DEF InOrder
  <2>2. ~(seq[j].time < seq[i].time) /\ seq[i].time \in Int /\ seq[j].time \in Int
    BY <1>1, <1>2, <1>6, <2>1
  <2> QED
    BY <2>2
<1>9. Ordered(seq, Time)
  BY <1>8 DEF Ordered, Time
<1> QED
  BY <1>5, <1>7, <1>9

\* A live timeline is at least as new as the request.
LEMMA TimelineAnswered ==
  ASSUME StoresInv, TimelineBegun, AnswerTimeline, answer'.status = 200
  PROVE  TimelineIsCurrent(answer'.body)
<1>1. request.pc = "timeline"
  BY DEF AnswerTimeline, Step
<1>2. ~FailStorage("market_timeline")
  BY RefusedIsNot200 DEF FailStorage
<1>3. PICK rows \in GetRecentAnomalies(request.symbol, TimelineAnomalyLimit) :
        answer'.body = [points |-> TimelinePoints(request.rows, request.at),
                        anomalies |-> TimelineAnomalies(rows)]
  BY <1>2 DEF AnswerTimeline, Reply
<1>4. /\ request.symbol \in Symbols /\ request.rows \subseteq TradeRows /\ IsFiniteSet(request.rows)
      /\ request.arrived.anomalies \subseteq Of(AnomalyRows, request.symbol)
      /\ ShowsNewest(request.rows, request.arrived.trades \cap trades, TimelinePointLimit, Time)
  BY <1>1 DEF TimelineBegun
<1>5. /\ IsFiniteSet(Of(anomalies, request.symbol))
      /\ Of(anomalies, request.symbol) \subseteq AnomalyRows /\ TimelineAnomalyLimit \in Nat
  BY <1>4, RowsOf, FS_Subset, ApiAssumption DEF StoresInv, StoresTypeOK
<1>6. /\ rows \subseteq Of(anomalies, request.symbol) /\ IsFiniteSet(rows)
      /\ \A r \in Of(anomalies, request.symbol) \ rows :
           Cardinality(rows) = TimelineAnomalyLimit /\ \A q \in rows : q.created >= r.created
  BY <1>3, <1>5, NewestAnomalies DEF GetRecentAnomalies
<1>7. request.arrived.anomalies \cap anomalies \subseteq Of(anomalies, request.symbol)
  BY <1>4 DEF Of
<1>8. ShowsNewest(rows, request.arrived.anomalies \cap anomalies, TimelineAnomalyLimit, Created)
  BY <1>6, <1>7 DEF ShowsNewest, Created
<1>9. ToSet(TimelineAnomalies(rows)) = rows /\ Ordered(TimelineAnomalies(rows), Time)
  BY <1>5, <1>6, AnomaliesInOrder
<1>10. PICK body : body = answer'.body
  OBVIOUS
<1>11. body.points = TimelinePoints(request.rows, request.at)
         /\ body.anomalies = TimelineAnomalies(rows)
  BY <1>3, <1>10
<1>12. {body.points[i].row : i \in DOMAIN body.points} = request.rows /\ Ordered(body.points, PointTime)
  <2>1. /\ \A i \in DOMAIN body.points : body.points[i].row \in request.rows
        /\ \A r \in request.rows : \E i \in DOMAIN body.points : body.points[i].row = r
        /\ \A i, j \in DOMAIN body.points :
             i < j => body.points[i].row.time <= body.points[j].row.time
    BY <1>4, <1>11, PointsInOrder
  <2> QED
    BY <2>1 DEF Ordered, PointTime
<1>13. Ordered(body.anomalies, Time)
  BY <1>9, <1>11 DEF Ordered
<1>14. ShowsNewest({body.points[i].row : i \in DOMAIN body.points}, request.arrived.trades \cap trades,
                   TimelinePointLimit, Time)
  BY <1>4, <1>12, Zenon DEF ShowsNewest
<1>15. ShowsNewest(ToSet(body.anomalies), request.arrived.anomalies \cap anomalies,
                   TimelineAnomalyLimit, Created)
  BY <1>8, <1>9, <1>11 DEF ShowsNewest
<1>16. TimelineIsCurrent(body)
  BY <1>12, <1>13, <1>14, <1>15 DEF TimelineIsCurrent, Ordered, ShowsNewest
<1> QED
  BY <1>10, <1>16

\* A market is shown as observed when its state is shown.
LEMMA SummaryOf ==
  ASSUME request.states \in Stamps, request.at \in Nat, NEW s \in Symbols
  PROVE  /\ (SymbolSummary(s).availability = "observed") <=> (SymbolSummary(s).state # None)
         /\ request.states[s] # None =>
              SymbolSummary(s).state # None /\ SymbolSummary(s).state.shown = request.states[s]
<1>1. CASE request.states[s] = None
  <2>1. SymbolSummary(s).state = None
    BY <1>1 DEF SymbolSummary
  <2>2. SymbolSummary(s).availability = Availability(request.runtime, s, FALSE)
    BY <1>1 DEF SymbolSummary
  <2>3. Availability(request.runtime, s, FALSE) # "observed"
    BY DEF Availability
  <2> QED
    BY <1>1, <2>1, <2>2, <2>3
<1>2. CASE request.states[s] # None
  <2>1. request.states[s] \in States /\ request.states[s].time \in Int
    BY <1>2 DEF Stamps, States
  <2>2. LastEventAge(request.states[s].time, request.at) \in Int
    BY <2>1, MaxOfTwo DEF LastEventAge
  <2>3. SymbolSummary(s).state = DashboardStateSummary(request.states[s], request.at)
    BY <1>2 DEF SymbolSummary
  <2>4. /\ DashboardStateSummary(request.states[s], request.at) \in [shown : States, age : Int]
        /\ DashboardStateSummary(request.states[s], request.at).shown = request.states[s]
    BY <2>1, <2>2 DEF DashboardStateSummary
  <2>5. SymbolSummary(s).availability = Availability(request.runtime, s, TRUE)
    BY <1>2 DEF SymbolSummary
  <2>6. Availability(request.runtime, s, TRUE) = "observed"
    BY DEF Availability
  <2>7. SymbolSummary(s).state # None
    BY <2>3, <2>4, ApiAssumption
  <2> QED
    BY <2>3, <2>4, <2>5, <2>6, <2>7
<1> QED
  BY <1>1, <1>2

\* A live dashboard is at least as new as the request.
LEMMA DashboardAnswered ==
  ASSUME SnapshotBegun, DashboardBegun, AnswerDashboard
  PROVE  DashboardIsCurrent(answer'.body)
<1>1. request.pc = "summary"
  BY DEF AnswerDashboard, Step
<1>2. PICK body : body = answer'.body
  OBVIOUS
<1>3. body.symbols = [s \in request.listed |-> SymbolSummary(s)]
  BY <1>2 DEF AnswerDashboard, Reply
<1>4. DOMAIN body.symbols = request.listed /\ \A s \in request.listed : body.symbols[s] = SymbolSummary(s)
  BY <1>3
<1>5. /\ request.runtime.symbols \subseteq request.listed /\ request.listed \subseteq Symbols
      /\ request.states \in Stamps /\ request.at \in Nat
      /\ ~request.cleared =>
           /\ \A s \in Symbols : request.arrived.states[s] # None => s \in request.listed
           /\ AtLeast(request.states, request.arrived.states)
  BY <1>1 DEF DashboardBegun, SnapshotBegun
<1>6. \A s \in DOMAIN body.symbols :
        (body.symbols[s].availability = "observed") <=> (body.symbols[s].state # None)
  BY <1>4, <1>5, SummaryOf
<1>7. ASSUME ~request.cleared, NEW s \in Symbols, request.arrived.states[s] # None
      PROVE  /\ s \in DOMAIN body.symbols
             /\ body.symbols[s].state # None
             /\ NoOlder(body.symbols[s].state.shown, request.arrived.states[s])
  <2>1. s \in request.listed /\ request.states[s] # None
          /\ NoOlder(request.states[s], request.arrived.states[s])
    BY <1>5, <1>7 DEF AtLeast
  <2> QED
    BY <1>4, <1>5, <2>1, SummaryOf
<1>8. DashboardIsCurrent(body)
  BY <1>4, <1>5, <1>6, <1>7 DEF DashboardIsCurrent
<1> QED
  BY <1>2, <1>8

\* Timelines and dashboards are at least as new as the request, with any number
\* of markets, runs, rows, clearings and truncations between their reads: a state
\* shown was written no earlier than the one there when the request came.
THEOREM AnswersCurrent == Spec => AnswersAreCurrent
<1>1. ApiInv /\ Next => CurrentAnswer
  <2> SUFFICES ASSUME ApiInv, Next PROVE CurrentAnswer
    OBVIOUS
  <2>1. StoresInv /\ SnapshotBegun /\ TimelineBegun /\ DashboardBegun
    BY DEF ApiInv, ReadingsInv, CountersInv, StoresInOrder, StoresInv, RowsInOrder, RegisteredStates,
           StatesWritten, Written, WrittenBefore
  <2>2. ASSUME Answers("market_timeline"), answer'.source = "live"
        PROVE  TimelineIsCurrent(answer'.body)
    <3>1. AnswerTimeline /\ answer'.status = 200
      BY <2>2, WhoAnswers DEF Answers
    <3> QED
      BY <2>1, <3>1, TimelineAnswered
  <2>3. ASSUME Answers("dashboard"), answer'.source = "live"
        PROVE  DashboardIsCurrent(answer'.body)
    <3>1. AnswerDashboard
      BY <2>3, WhoAnswers DEF Answers
    <3> QED
      BY <2>1, <3>1, DashboardAnswered
  <2> QED
    BY <2>2, <2>3 DEF CurrentAnswer
<1> QED
  BY <1>1, ApiInvariant, PTL DEF Spec, AnswersAreCurrent
=============================================================================
