------------------------------ MODULE Telemetry ------------------------------
(***************************************************************************)
(* The counters all tasks share (src/src/telemetry/counters.rs), what is   *)
(* read from them at once, the Prometheus page (telemetry/metrics.rs) and  *)
(* the verdict on the pipeline (src/src/api/dto.rs).                       *)
(*                                                                         *)
(* Every counter is an atomic of its own, used with Ordering::Relaxed.  An *)
(* error with a source adds to two of them, and nothing orders the two for *)
(* a reader; a snapshot loads all of them one by one.                      *)
(***************************************************************************)
EXTENDS Integers, FiniteSets, FiniteSetsExt

CONSTANTS
  None,
  DegradedAfter,     \* PIPELINE_DEGRADED_AFTER_MS
  UnhealthyAfter,    \* PIPELINE_UNHEALTHY_AFTER_MS
  MaxCount           \* bound of a counter

ASSUME TelemetryAssumption ==
  /\ {DegradedAfter, UnhealthyAfter, MaxCount} \subseteq Nat
  /\ DegradedAfter <= UnhealthyAfter

VARIABLES
  counters,       \* the counts by name
  last_message,   \* last_message_unix_ms, 0 before any message
  adding,         \* per task: the counters its increment has yet to reach
  begun,          \* history: per total, the increments begun ...
  completed       \* ... and the increments that reached both counters

telemetry == <<counters, last_message, adding, begun, completed>>

Tasks == {"source", "pipeline"}

ParseErrors == [replay |-> "replay_parse_errors", binance |-> "binance_parse_errors"]

EventCounters ==
  [replay |-> [trade |-> "replay_trade_events", quote |-> "replay_quote_events",
               depth |-> "replay_depth_events"],
   binance |-> [trade |-> "binance_trade_events", quote |-> "binance_quote_events",
                depth |-> "binance_depth_events"]]

Sources == DOMAIN EventCounters
Totals == {"parse_errors", "reconnect_attempts"}

CounterNames ==
  Totals \cup {ParseErrors[s] : s \in Sources}
         \cup (UNION {{EventCounters[s][k] : k \in DOMAIN EventCounters[s]} : s \in Sources})
         \cup {"binance_reconnect_attempts", "storage_errors", "cache_errors"}

TelemetryInit ==
  /\ counters = [c \in CounterNames |-> 0]
  /\ last_message = 0
  /\ adding = [t \in Tasks |-> {}]
  /\ begun = [t \in Totals |-> 0]
  /\ completed = [t \in Totals |-> 0]

-----------------------------------------------------------------------------
(* Counting *)

\* a counter that is incremented on its own
Increment(c) ==
  /\ counters[c] < MaxCount
  /\ counters' = [counters EXCEPT ![c] = @ + 1]

\* mutant: an error of the Binance source is added to its own counter only
IncrementTotalAndPart_PartOnly(total, part) ==
  /\ adding["source"] = {}
  /\ begun[total] < MaxCount
  /\ begun' = [begun EXCEPT ![total] = @ + 1]
  /\ adding' = [adding EXCEPT !["source"] = IF total = part THEN {} ELSE {part}]
  /\ UNCHANGED <<counters, last_message, completed>>

\* an error with a source begins to be counted: in total, and for the source
IncrementTotalAndPart(total, part) ==
  /\ adding["source"] = {}
  /\ begun[total] < MaxCount
  /\ begun' = [begun EXCEPT ![total] = @ + 1]
  /\ adding' = [adding EXCEPT !["source"] = {total, part}]
  /\ UNCHANGED <<counters, last_message, completed>>

IncrementParseErrors(source) ==
  IncrementTotalAndPart("parse_errors", ParseErrors[source])

IncrementReconnectAttempts ==
  IncrementTotalAndPart("reconnect_attempts", "binance_reconnect_attempts")

\* record_ingested_event_metrics: the time of the newest message, and the count
\* of its source and kind
RecordEvent(source, kind, t) ==
  /\ adding["pipeline"] = {}
  /\ last_message' = Max({last_message, t})
  /\ adding' = [adding EXCEPT !["pipeline"] = {EventCounters[source][kind]}]
  /\ UNCHANGED <<counters, begun, completed>>

\* a fetch_add that was begun is seen by the others; of two, either comes first
Add(task, c) ==
  LET total == IF c \in {"reconnect_attempts", "binance_reconnect_attempts"}
               THEN "reconnect_attempts" ELSE "parse_errors"
  IN  /\ c \in adding[task]
      /\ Increment(c)
      /\ adding' = [adding EXCEPT ![task] = @ \ {c}]
      /\ completed' = IF task = "source" /\ adding[task] = {c}
                      THEN [completed EXCEPT ![total] = @ + 1] ELSE completed
      /\ UNCHANGED <<last_message, begun>>

-----------------------------------------------------------------------------
(* Reading *)

\* 0 stands for no message; a clock behind the last message gives age 0
LastMessageAge(last, t) == IF last = 0 THEN None ELSE Max({0, t - last})

\* snapshot_at: every load gives what the counter held at some moment since the
\* snapshot was begun, when the counts were `since` and the last message `last`
\* (of the times between, some may be no message's: more than the code can give)
SnapshotAt(since, last, t) ==
  LET moved == {c \in CounterNames : counters[c] # since[c]}
      unseen == {d \in [moved -> 0 .. MaxCount] : \A c \in moved : d[c] <= counters[c] - since[c]}
  IN  {[counts |-> [c \in CounterNames |-> IF c \in moved THEN counters[c] - d[c] ELSE counters[c]],
        last_message_age |-> LastMessageAge(l, t)] : d \in unseen, l \in last .. last_message}

\* classify_pipeline_health
HasConcerningErrors(s) ==
  \E c \in {"parse_errors", "storage_errors", "cache_errors"} : s.counts[c] > 0

\* mutant: only parse errors are a concern
ClassifyPipelineHealth_ParseOnly(s) ==
  CASE s.last_message_age # None /\ s.last_message_age > UnhealthyAfter
         /\ s.counts["parse_errors"] > 0 -> "unhealthy"
    [] s.last_message_age # None /\ s.last_message_age <= DegradedAfter
         /\ s.counts["parse_errors"] = 0 -> "healthy"
    [] OTHER -> "degraded"

ClassifyPipelineHealth(s) ==
  CASE s.last_message_age # None /\ s.last_message_age > UnhealthyAfter
         /\ HasConcerningErrors(s) -> "unhealthy"
    [] s.last_message_age # None /\ s.last_message_age <= DegradedAfter
         /\ ~HasConcerningErrors(s) -> "healthy"
    [] OTHER -> "degraded"

\* PipelineHealthResponse::from_snapshot
PipelineHealthResponse(s) ==
  [status |-> ClassifyPipelineHealth(s),
   last_message_age |-> s.last_message_age,
   parse_errors |-> s.counts["parse_errors"],
   reconnect_attempts |-> s.counts["reconnect_attempts"],
   storage_errors |-> s.counts["storage_errors"],
   cache_errors |-> s.counts["cache_errors"]]

\* render_prometheus_metrics, family by family; an age that is not known yet
\* is rendered as 0
RenderEventCounters(s) ==
  [source \in Sources |-> [kind \in DOMAIN EventCounters[source] |->
                             s.counts[EventCounters[source][kind]]]]

RenderParseErrors(s) ==
  [total |-> s.counts["parse_errors"],
   parts |-> [source \in Sources |-> s.counts[ParseErrors[source]]]]

RenderReconnects(s) ==
  [total |-> s.counts["reconnect_attempts"],
   parts |-> [source \in {"binance"} |-> s.counts["binance_reconnect_attempts"]]]

RenderPrometheusMetrics(s) ==
  [events_processed |-> RenderEventCounters(s),
   parse_errors |-> RenderParseErrors(s),
   reconnect_attempts |-> RenderReconnects(s),
   storage_errors |-> s.counts["storage_errors"],
   cache_errors |-> s.counts["cache_errors"],
   last_message_age |-> IF s.last_message_age = None THEN 0 ELSE s.last_message_age]

-----------------------------------------------------------------------------
(* Invariants *)

\* the counters of one error
Increments ==
  {{"parse_errors", ParseErrors[s]} : s \in Sources}
    \cup {{"reconnect_attempts", "binance_reconnect_attempts"}}

ErrorCounters == (UNION Increments) \cup {"storage_errors", "cache_errors"}

\* what the counters of the sources give for a total
SumOfParts(counts, total) ==
  IF total = "parse_errors" THEN counts["replay_parse_errors"] + counts["binance_parse_errors"]
  ELSE counts["binance_reconnect_attempts"]

\* the increments begun that have not been seen yet
Pending == [c \in CounterNames |-> IF c \in adding["source"] THEN 1 ELSE 0]

TelemetryTypeOK ==
  /\ counters \in [CounterNames -> Nat]
  /\ last_message \in Nat
  /\ adding \in [Tasks -> SUBSET CounterNames]
  /\ begun \in [Totals -> Nat]
  /\ completed \in [Totals -> Nat]

\* the two counters of a family differ by what the source is adding, no more
ErrorsAddUp ==
  /\ \E pair \in Increments : adding["source"] \subseteq pair
  /\ adding["pipeline"] \cap ErrorCounters = {}
  /\ \A total \in Totals :
       /\ begun[total] = counters[total] + Pending[total]
       /\ begun[total] = SumOfParts(counters, total) + SumOfParts(Pending, total)
       /\ completed[total] = IF Pending[total] + SumOfParts(Pending, total) > 0
                             THEN begun[total] - 1 ELSE begun[total]
=============================================================================
