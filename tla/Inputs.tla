------------------------------- MODULE Inputs -------------------------------
(***************************************************************************)
(* What comes into the process from outside and is read once: the          *)
(* environment it starts with, and an event written as a line of a fixture *)
(* and as a message of Binance, which a run then persists.  An input       *)
(* differs in at most two places from one that is accepted.                *)
(***************************************************************************)
EXTENDS Tables, Settings

CONSTANTS
  Raws,             \* for each variable of the environment, the values it may have
  Contents,         \* for each kind of event, for each field, the values it may have
  Base,             \* for each kind of event, the fields of one that is accepted
  LastWritable,     \* the last millisecond RFC 3339 can write (of the year 9999)
  IngestTime        \* the clock when a message comes in

ASSUME InputsAssumption ==
  /\ LastWritable \in Nat /\ LastWritable < MaxTimestamp
  /\ DOMAIN Raws = Keys /\ DOMAIN Contents = DOMAIN Base

VARIABLES
  input,      \* an environment, or an event to be written in both formats
  settings,   \* what Settings::load returned
  line,       \* what the replay source made of the event's line
  message,    \* what the live source made of the event's message
  stored      \* the event the pipeline persisted, and what the insert returned

vars == <<input, settings, line, message, stored>>

Pending == [pending |-> TRUE]

\* the two URLs are set and nothing else
BaseEnv == [key \in Keys |-> IF key \in {"DATABASE_URL", "REDIS_URL"} THEN Text("url") ELSE Unset]

\* the event's own time, as a value of neither format yet
At(n) == [json |-> "at", value |-> n]

\* an event as a fixture has it: its time in RFC 3339, as far as that goes
AsLine(fields) ==
  LET t == fields["event_time"]
  IN  IF t.json # "at" THEN fields
      ELSE [fields EXCEPT !["event_time"] =
              IF t.value \in -LastWritable .. LastWritable THEN Str("time", t.value)
              ELSE Str("unreadable", 0)]

\* an event as Binance has it: its time in milliseconds
AsMessage(fields) ==
  LET t == fields["event_time"]
  IN  IF t.json # "at" THEN fields ELSE [fields EXCEPT !["event_time"] = Num(t.value)]

InitEnvironment ==
  \E a, b \in Keys : \E x \in Raws[a], y \in Raws[b] :
    input = [what |-> "environment", env |-> [BaseEnv EXCEPT ![a] = x, ![b] = y]]

\* the stream, the type and the exchange are right, and up to two fields are not as usual
InitContent ==
  \E kind \in DOMAIN Base : \E f, g \in DOMAIN Contents[kind] :
    \E x \in Contents[kind][f], y \in Contents[kind][g] :
      input = [what |-> "event", kind |-> kind, enveloped |-> TRUE, line |-> "json",
               stream |-> IF kind = "quote" THEN "bookTicker" ELSE kind,
               fields |-> [Base[kind] EXCEPT ![f] = x, ![g] = y]]

\* the usual fields come on some stream, in some line, under some type and exchange
InitEnvelope ==
  \E kind \in DOMAIN Base, l \in {"json", "blank", "malformed"},
     s \in DOMAIN StreamKind \cup {"malformed"},
     type \in {Str("trade", 0), Str("candle", 0), Absent},
     exchange \in {Str("binance", 0), Str("kraken", 0), Num(1)},
     e \in {Str("depthUpdate", 0), Str("trade", 0), Null, Absent} :
      input = [what |-> "event", kind |-> kind, enveloped |-> FALSE, line |-> l, stream |-> s,
               fields |-> [Base[kind] EXCEPT !["type"] = type, !["exchange"] = exchange,
                                             !["e"] = e]]

Accepted(result) == result # Pending /\ result.ok
Refused(result) == result # Pending /\ ~result.ok

Init ==
  /\ InitEnvironment \/ InitContent \/ InitEnvelope
  /\ settings = Pending /\ line = Pending /\ message = Pending /\ stored = Pending

\* Settings::load when the process starts
LoadSettings ==
  /\ input.what = "environment" /\ settings = Pending
  /\ settings' = LoadFromMap(input.env)
  /\ UNCHANGED <<input, line, message, stored>>

\* the replay source reads the event's line
ReadLine ==
  /\ input.what = "event" /\ line = Pending
  /\ line' = ParseLine(input.line, AsLine(input.fields))
  /\ UNCHANGED <<input, settings, message, stored>>

\* the live source receives the event's message
ReadMessage ==
  /\ input.what = "event" /\ message = Pending
  /\ message' = ParseMessage(input.stream, AsMessage(input.fields), IngestTime)
  /\ UNCHANGED <<input, settings, line, stored>>

\* persist_normalized_event, in a replay or in a live run; depth updates have no table
Persist ==
  /\ stored = Pending
  /\ \E result \in {line, message} :
       /\ Accepted(result) /\ result.value # None
       /\ \/ /\ result.value.kind = "trade"
             /\ stored' = [event |-> result.value, row |-> InsertTrade(result.value)]
          \/ /\ result.value.kind = "quote"
             /\ stored' = [event |-> result.value, row |-> InsertQuote(result.value)]
  /\ UNCHANGED <<input, settings, line, message>>

Next == LoadSettings \/ ReadLine \/ ReadMessage \/ Persist

Spec == Init /\ [][Next]_vars

-----------------------------------------------------------------------------
\* what the aggregator, the book and the detectors rely on; an id is any u64
Usable(event) ==
  /\ event.symbol \in Alphanumeric
  /\ CASE event.kind = "trade" -> event.price > 0 /\ event.quantity > 0
       [] event.kind = "quote" ->
            /\ event.bid > 0 /\ event.bid <= event.ask
            /\ event.bid_quantity > 0 /\ event.ask_quantity > 0
       [] event.kind = "depth" ->
            LET levels == event.bids \o event.asks
            IN  /\ levels # <<>>
                /\ \A i \in DOMAIN levels : levels[i].price > 0 /\ levels[i].quantity >= 0
                /\ (event.first # None /\ event.final # None => event.first.id <= event.final.id)

\* what a table has room for
FitsTable(event) ==
  /\ event.time >= EarliestRow
  /\ event.kind = "trade" => event.id = None \/ event.id.id <= I64Max

(* Whatever a line or a message holds, an event made from it can be used in memory without
   another check: the price change divides by a trade's price and the spread by a quote's
   middle, the book drops a level only for a quantity of exactly zero, the gap check subtracts
   ids, and the symbol is a key (replay.rs:107, binance.rs:108, events.rs, depth.rs).  The
   tables have room for less: what does not fit is refused by its insert, and a trade that was
   inserted is read back as it was, so that no accepted event leaves a row that fails every
   timeline of its symbol (trades.rs:12, 102, oversized_trade_id_is_rejected_before_query). *)
EventsAreUsable ==
  /\ \A result \in {line, message} :
       Accepted(result) => result.value = None \/ Usable(result.value)
  /\ stored # Pending =>
       /\ stored.row.ok <=> FitsTable(stored.event)
       /\ (stored.row.ok /\ stored.event.kind = "trade") =>
            MapTradeRow(stored.row.value) = Ok(stored.event)

\* what only a fixture can say
OnlyFixture(kind, fields) ==
  \/ kind = "depth" /\ \E id \in {"first_update_id", "final_update_id"} :
                          fields[id] \in {Absent, Null}
  \/ kind = "trade" /\ fields["trade_id"].json = "string"
  \/ fields["event_time"].json = "at" /\ fields["event_time"].value < 0

\* what only Binance can say
OnlyBinance(kind, fields) ==
  \/ kind = "quote" /\ fields["event_time"] \in {Absent, Null} /\ message.value.time = IngestTime
  \/ kind = "depth" /\ fields["event_time"].json = "string"
  \/ /\ fields["event_time"].json = "at"
     /\ LET millis == fields["event_time"].value
        IN  \/ millis \in LastWritable + 1 .. MaxTimestamp /\ message.value.time = millis
            \/ millis > I64Max /\ message.value.time = millis - (U64Max + 1)

(* A session replayed is the session as it came in: the two parsers, written apart, make the
   same event of the same content or both refuse it, but for what one format cannot say: ids
   left out or in quotes, times before 1970 or past the year 9999 (a time of 2^63 and more is
   refused, or it is the one 2^64 milliseconds before, binance.rs:251), a quote without a time. *)
SourcesAgree ==
  (input.what = "event" /\ input.enveloped /\ line # Pending /\ message # Pending) =>
    \/ Refused(line) /\ Refused(message)
    \/ Accepted(line) /\ line = message
    \/ Accepted(line) /\ Refused(message) /\ OnlyFixture(input.kind, input.fields)
    \/ Refused(line) /\ Accepted(message) /\ OnlyBinance(input.kind, input.fields)

\* what the modules of the other components assume of their constants
UsableSettings(s) ==
  /\ s["INGESTION_SYMBOLS"] # <<>>
  /\ \A i \in DOMAIN s["INGESTION_SYMBOLS"] : s["INGESTION_SYMBOLS"][i] \in Alphanumeric
  /\ s["EVENT_CHANNEL_CAPACITY"] \in 1 .. MaxEventChannelCapacity
  /\ s["BINANCE_WEBSOCKET_BASE_URL"] # "blank"
  /\ s["BINANCE_RECONNECT_MIN_BACKOFF_MS"] \in 1 .. s["BINANCE_RECONNECT_MAX_BACKOFF_MS"]
  /\ \A i \in DOMAIN DetectorDefaults : s[DetectorDefaults[i][1]] > 0
  /\ s["HEALTH_INFO_PENALTY"] \in 0 .. s["HEALTH_WARNING_PENALTY"]
  /\ s["HEALTH_WARNING_PENALTY"] <= s["HEALTH_CRITICAL_PENALTY"]
  /\ {s["HEALTH_CRITICAL_PENALTY"], s["HEALTH_STALE_DATA_PENALTY"]} \subseteq 0 .. 100
  /\ s["HEALTH_HEALTHY_MIN_SCORE"] \in s["HEALTH_DEGRADED_MIN_SCORE"] + 1 .. s["HEALTH_BASE_SCORE"]
  /\ s["HEALTH_BASE_SCORE"] <= 100
  /\ s["HEALTH_RECENT_ANOMALY_WINDOW_SECS"] > 0

\* the variables an error is about
About(name) ==
  CASE name = "BINANCE_RECONNECT_BACKOFF" ->
         {"BINANCE_RECONNECT_MIN_BACKOFF_MS", "BINANCE_RECONNECT_MAX_BACKOFF_MS"}
    [] name = "HEALTH_PENALTIES" ->
         {"HEALTH_INFO_PENALTY", "HEALTH_WARNING_PENALTY", "HEALTH_CRITICAL_PENALTY"}
    [] name = "HEALTH_THRESHOLDS" -> {"HEALTH_HEALTHY_MIN_SCORE", "HEALTH_DEGRADED_MIN_SCORE"}
    [] name = "HEALTH_BASE" -> {"HEALTH_BASE_SCORE", "HEALTH_HEALTHY_MIN_SCORE"}
    [] OTHER -> {name}

(* The process starts if and only if the settings, defaults included, are such as the other
   parts assume, and an error is about a variable that was set, or that had to be: no
   combination of set and default values slips through the checks of config.rs, and none is
   refused for a variable nobody touched (config.rs:154-173, 448-576).  Of the window of recent
   anomalies only that it is not zero is assumed here: config.rs also lets those through that
   are too long for chrono (scoring.rs:116). *)
SettingsAreUsable ==
  settings # Pending =>
    LET env == input.env
        wellFormed == \A key \in Keys : Read(env, key).ok
    IN  /\ settings.ok <=> wellFormed /\ UsableSettings([key \in Keys |-> Read(env, key).value])
        /\ ~settings.ok =>
             \E key \in About(settings.field) : env[key] # Unset \/ settings.error = "required"
=============================================================================
