------------------------------ MODULE Settings ------------------------------
(***************************************************************************)
(* How the environment becomes the settings of the process                 *)
(* (src/src/config.rs).  The variables are named without their prefix      *)
(* SIGNALGUARD_.  The value of a variable is a text as in DomainEvents;    *)
(* decimals are in tenths; the list of symbols is the texts between its    *)
(* commas.                                                                 *)
(***************************************************************************)
EXTENDS DomainEvents

CONSTANTS
  U32Max,                     \* the largest u32, scaled
  MaxEventChannelCapacity     \* MAX_EVENT_CHANNEL_CAPACITY

ASSUME SettingsAssumption ==
  U32Max \in Nat /\ MaxEventChannelCapacity \in Nat /\ 1024 <= MaxEventChannelCapacity

Text(t) == [text |-> t]
Integer(n) == [text |-> "integer", value |-> n]
Tenths(n) == [text |-> "decimal", value |-> n]
List(items) == [text |-> "list", items |-> items]
Unset == [text |-> "unset"]

\* what each variable is read as and what it is when it is not set, in the order
\* in which they are read
IngestionDefaults ==
  <<<<"PROFILE", "profile", Text("local")>>,
    <<"HOST", "text", Text("127.0.0.1")>>,
    <<"PORT", "u16", Integer(8080)>>,
    <<"ENABLE_RUNTIME_SWITCH", "bool", Text("false")>>,
    <<"DATABASE_URL", "url", Unset>>,
    <<"REDIS_URL", "url", Unset>>,
    <<"INGESTION_MODE", "mode", Text("replay")>>,
    <<"INGESTION_SYMBOLS", "symbols", List(<<"BTCUSDT">>)>>,
    <<"INGESTION_REPLAY_PATH", "text", Text("examples/replay/sample.jsonl")>>,
    <<"INGESTION_REPLAY_DELAY_MS", "u64", Integer(0)>>,
    <<"REPLAY_RESET_STATE", "bool", Text("true")>>,
    <<"REPLAY_RESET_STORAGE", "bool", Text("true")>>,
    <<"EVENT_CHANNEL_CAPACITY", "u64", Integer(1024)>>>>

BinanceDefaults ==
  <<<<"BINANCE_WEBSOCKET_BASE_URL", "text", Text("wss://stream.binance.com:9443")>>,
    <<"BINANCE_RECONNECT_MIN_BACKOFF_MS", "u64", Integer(500)>>,
    <<"BINANCE_RECONNECT_MAX_BACKOFF_MS", "u64", Integer(5000)>>>>

DetectorDefaults ==
  <<<<"DETECTORS_PRICE_MOVE_1M_PCT_THRESHOLD", "decimal", Tenths(25)>>,
    <<"DETECTORS_SPREAD_SPIKE_PCT_THRESHOLD", "decimal", Tenths(5)>>,
    <<"DETECTORS_STALE_DATA_MS_THRESHOLD", "u64", Integer(5000)>>,
    <<"DETECTORS_TRADE_BURST_MULTIPLIER", "decimal", Tenths(30)>>,
    <<"DETECTORS_TRADE_BURST_MIN_WARMUP_WINDOWS", "u32", Integer(5)>>,
    <<"DETECTORS_QUOTE_STUCK_MS_THRESHOLD", "u64", Integer(10000)>>,
    <<"DETECTORS_EVENT_LAG_SPIKE_MS_THRESHOLD", "u64", Integer(3000)>>,
    <<"DETECTORS_DEPTH_SEQUENCE_GAP_MIN_INCREMENT", "u64", Integer(1)>>>>

HealthDefaults ==
  <<<<"HEALTH_BASE_SCORE", "u8", Integer(100)>>,
    <<"HEALTH_INFO_PENALTY", "u8", Integer(5)>>,
    <<"HEALTH_WARNING_PENALTY", "u8", Integer(15)>>,
    <<"HEALTH_CRITICAL_PENALTY", "u8", Integer(35)>>,
    <<"HEALTH_STALE_DATA_PENALTY", "u8", Integer(25)>>,
    <<"HEALTH_RECENT_ANOMALY_WINDOW_SECS", "u64", Integer(300)>>,
    <<"HEALTH_HEALTHY_MIN_SCORE", "u8", Integer(80)>>,
    <<"HEALTH_DEGRADED_MIN_SCORE", "u8", Integer(50)>>>>

Variables == IngestionDefaults \o BinanceDefaults \o DetectorDefaults \o HealthDefaults
Keys == {Variables[i][1] : i \in DOMAIN Variables}
Entry(key) == Variables[CHOOSE i \in DOMAIN Variables : Variables[i][1] = key]

-----------------------------------------------------------------------------
Largest == [u8 |-> 255, u16 |-> 65535, u32 |-> U32Max, u64 |-> U64Max]
Named == [bool |-> {"true", "false"}, profile |-> {"local", "production"},
          mode |-> {"replay", "live"}]

\* parse_symbols: what is blank between two commas is skipped
ParseSymbols(items, key) ==
  LET raw == SelectSeq(items, LAMBDA t : Normalized[t] # "")
      symbols == [i \in DOMAIN raw |-> NewSymbol(raw[i], key)]
  IN  IF raw = <<>> THEN Err("empty", key)
      ELSE Chain(symbols, Ok([i \in DOMAIN raw |-> symbols[i].value]))

\* env_parse and the parsers by type
ParseAs(kind, raw, key) ==
  LET number == raw.text = "integer" /\ kind \in DOMAIN Largest
      decimal == raw.text \in {"integer", "decimal"} /\ kind = "decimal"
  IN  CASE kind = "url" /\ raw = Unset -> Err("required", key)
        [] kind \in {"text", "url"} /\ raw # Unset -> Ok(raw.text)
        [] kind = "symbols" -> ParseSymbols(raw.items, key)
        [] kind \in DOMAIN Named /\ raw.text \in Named[kind] -> Ok(raw.text)
        [] number /\ raw.value \in 0 .. Largest[kind] -> Ok(raw.value)
        [] decimal -> Ok(IF raw.text = "integer" THEN 10 * raw.value ELSE raw.value)
        [] OTHER -> Err("malformed", key)

Read(env, key) ==
  LET e == Entry(key) IN ParseAs(e[2], IF env[key] = Unset THEN e[3] ELSE env[key], key)

Reads(env, defaults) == [i \in DOMAIN defaults |-> Read(env, defaults[i][1])]

\* a check of the values and the name the error has when it fails
Check(holds, key) == IF holds THEN Ok(None) ELSE Err("invalid", key)
Positive(s, key) == Check(s[key] > 0, key)
AtMost100(s, key) == Check(s[key] <= 100, key)

\* mutant: the capacity has no upper bound
IngestionChecks_NoCeiling(s) == <<Positive(s, "EVENT_CHANNEL_CAPACITY")>>

\* IngestionSettings::validate
IngestionChecks(s) ==
  LET key == "EVENT_CHANNEL_CAPACITY"
  IN  <<Positive(s, key), Check(s[key] <= MaxEventChannelCapacity, key)>>

\* BinanceSettings::validate
BinanceChecks(s) ==
  <<Check(s["BINANCE_WEBSOCKET_BASE_URL"] # "blank", "BINANCE_WEBSOCKET_BASE_URL"),
    Positive(s, "BINANCE_RECONNECT_MIN_BACKOFF_MS"),
    Check(s["BINANCE_RECONNECT_MAX_BACKOFF_MS"] >= s["BINANCE_RECONNECT_MIN_BACKOFF_MS"],
          "BINANCE_RECONNECT_BACKOFF")>>

\* DetectorSettings::validate, in the order of the variables
DetectorChecks(s) == [i \in DOMAIN DetectorDefaults |-> Positive(s, DetectorDefaults[i][1])]

\* HealthScoreSettings::validate: the penalties, the thresholds, then the rest
HealthChecks(s) ==
  <<AtMost100(s, "HEALTH_INFO_PENALTY"), AtMost100(s, "HEALTH_WARNING_PENALTY"),
    AtMost100(s, "HEALTH_CRITICAL_PENALTY"),
    Check(s["HEALTH_INFO_PENALTY"] <= s["HEALTH_WARNING_PENALTY"] /\
          s["HEALTH_WARNING_PENALTY"] <= s["HEALTH_CRITICAL_PENALTY"], "HEALTH_PENALTIES"),
    AtMost100(s, "HEALTH_HEALTHY_MIN_SCORE"), AtMost100(s, "HEALTH_DEGRADED_MIN_SCORE"),
    Check(s["HEALTH_DEGRADED_MIN_SCORE"] < s["HEALTH_HEALTHY_MIN_SCORE"], "HEALTH_THRESHOLDS"),
    AtMost100(s, "HEALTH_BASE_SCORE"), AtMost100(s, "HEALTH_STALE_DATA_PENALTY"),
    Positive(s, "HEALTH_RECENT_ANOMALY_WINDOW_SECS"),
    Check(s["HEALTH_BASE_SCORE"] >= s["HEALTH_HEALTHY_MIN_SCORE"], "HEALTH_BASE")>>

\* Settings::load_from_map: each group is read, then checked, before the next is read
LoadFromMap(env) ==
  LET s == [key \in Keys |-> Read(env, key).value]
  IN  Chain(Reads(env, IngestionDefaults), Chain(IngestionChecks(s),
      Chain(Reads(env, BinanceDefaults), Chain(BinanceChecks(s),
      Chain(Reads(env, DetectorDefaults), Chain(DetectorChecks(s),
      Chain(Reads(env, HealthDefaults), Chain(HealthChecks(s), Ok(s)))))))))
=============================================================================
