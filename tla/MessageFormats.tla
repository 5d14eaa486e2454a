--------------------------- MODULE MessageFormats ---------------------------
(***************************************************************************)
(* The two formats events come in: messages of Binance's combined stream   *)
(* (src/src/exchange/binance.rs) and lines of a replay fixture             *)
(* (src/src/ingestion/replay.rs), with the levels both share               *)
(* (src/src/depth_json.rs).                                                *)
(*                                                                         *)
(* An input is the kind of its line or the stream it comes on, and its     *)
(* fields, a function to JSON values.  The fields have the names of the    *)
(* fixture in both formats; Binance abbreviates them (s, t, p, q, T, E, U, *)
(* u, b, B, a, A), which changes nothing.                                  *)
(***************************************************************************)
EXTENDS DomainEvents

CONSTANTS
  MaxTimestamp     \* the last millisecond chrono can represent, scaled

ASSUME FormatAssumption == MaxTimestamp \in Nat /\ MaxTimestamp < I64Max

\* JSON values
Str(text, value) == [json |-> "string", text |-> text, value |-> value]
Num(n) == [json |-> "number", text |-> "integer", value |-> n]
Arr(items) == [json |-> "array", items |-> items]
Null == [json |-> "null"]
Absent == [json |-> "absent"]
Bool == [json |-> "bool"]

IsU64(n) == n \in 0 .. U64Max

\* str::parse::<Decimal> and str::parse::<u64>
ReadsAsDecimal(v) == v.text \in {"integer", "decimal"}
ReadsAsU64(v) == v.text = "integer" /\ IsU64(v.value)

Decimal(v, field) ==
  IF ReadsAsDecimal(v) THEN Ok(v.value) ELSE Err("InvalidDecimal", field)

\* a u64 that is there: a number or a numeric string
U64(v, field) ==
  IF v.json \in {"number", "string"} /\ ReadsAsU64(v)
  THEN Ok(v.value) ELSE Err("InvalidUnsignedInteger", field)

SomeU64(v, field) == LET r == U64(v, field) IN IF r.ok THEN Ok([id |-> r.value]) ELSE r

\* parse_depth_level_pair_strings and DepthLevel::new, the same in both formats
ParseDepthLevel(level, field) ==
  IF \/ level.json # "array"
     \/ level.json = "array" /\ (Len(level.items) # 2 \/
                                 \E i \in 1 .. 2 : level.items[i].json # "string")
  THEN Err("InvalidDepthLevelShape", field)
  ELSE LET price == Decimal(level.items[1], field)
           quantity == Decimal(level.items[2], field)
       IN  Chain(<<price, quantity>>, NewDepthLevel(price.value, quantity.value))

ParseItems(items, field) ==
  LET levels == [i \in DOMAIN items |-> ParseDepthLevel(items[i], field)]
  IN  Chain(levels, Ok([i \in DOMAIN items |-> levels[i].value]))

-----------------------------------------------------------------------------
(* Lines of a fixture: a field that is null counts as missing *)

RequiredString(m, field) ==
  CASE m[field] \in {Absent, Null} -> Err("MissingField", field)
    [] m[field].json = "string" -> Ok(m[field])
    [] OTHER -> Err("InvalidStringField", field)

FixtureSymbol(m) ==
  LET raw == RequiredString(m, "symbol") IN Chain(<<raw>>, NewSymbol(raw.value.text, "symbol"))

FixtureExchange(m) ==
  LET raw == RequiredString(m, "exchange") IN Chain(<<raw>>, ParseExchange(raw.value.text))

FixtureDecimal(m, field) ==
  LET raw == RequiredString(m, field) IN Chain(<<raw>>, Decimal(raw.value, field))

\* DateTime::parse_from_rfc3339
FixtureTimestamp(m) ==
  LET raw == RequiredString(m, "event_time")
  IN  Chain(<<raw>>, IF raw.value.text = "time" THEN Ok(raw.value.value)
                     ELSE Err("InvalidTimestamp", "event_time"))

OptionalU64(m, field) ==
  IF m[field] \in {Absent, Null} THEN Ok(None) ELSE SomeU64(m[field], field)

FixtureLevels(m, field) ==
  CASE m[field] \in {Absent, Null} -> Err("MissingField", field)
    [] m[field].json = "array" -> ParseItems(m[field].items, field)
    [] OTHER -> Err("InvalidArrayField", field)

FixtureTrade(m) ==
  LET symbol == FixtureSymbol(m)
      price == FixtureDecimal(m, "price")
      quantity == FixtureDecimal(m, "quantity")
      time == FixtureTimestamp(m)
      id == OptionalU64(m, "trade_id")
  IN  Chain(<<symbol, FixtureExchange(m), price, quantity, time, id>>,
            NewTrade(symbol.value, id.value, price.value, quantity.value, time.value))

FixtureQuote(m) ==
  LET symbol == FixtureSymbol(m)
      time == FixtureTimestamp(m)
      bid == FixtureDecimal(m, "best_bid_price")
      bid_quantity == FixtureDecimal(m, "best_bid_quantity")
      ask == FixtureDecimal(m, "best_ask_price")
      ask_quantity == FixtureDecimal(m, "best_ask_quantity")
  IN  Chain(<<symbol, FixtureExchange(m), time, bid, bid_quantity, ask, ask_quantity>>,
            NewQuote(symbol.value, bid.value, bid_quantity.value, ask.value,
                     ask_quantity.value, time.value))

FixtureDepth(m) ==
  LET symbol == FixtureSymbol(m)
      time == FixtureTimestamp(m)
      first == OptionalU64(m, "first_update_id")
      final == OptionalU64(m, "final_update_id")
      bids == FixtureLevels(m, "bids")
      asks == FixtureLevels(m, "asks")
  IN  Chain(<<symbol, FixtureExchange(m), time, first, final, bids, asks>>,
            NewDepthUpdate(symbol.value, first.value, final.value, bids.value, asks.value,
                           time.value))

\* parse_jsonl_line_with_ingest_time; a blank line is no event and no error
ParseLine(line, m) ==
  LET type == RequiredString(m, "type")
  IN  CASE line = "blank" -> Ok(None)
        [] line = "malformed" -> Err("MalformedJson", "line")
        [] OTHER -> Chain(<<type>>,
                      CASE type.value.text = "trade" -> FixtureTrade(m)
                        [] type.value.text = "quote" -> FixtureQuote(m)
                        [] type.value.text = "depth" -> FixtureDepth(m)
                        [] OTHER -> Err("UnknownEventType", "type"))

-----------------------------------------------------------------------------
(* Messages of Binance *)

\* what serde makes of a field of the type String, u64 or Option<u64>
SerdeString(m, field) ==
  IF m[field].json = "string" THEN Ok(m[field]) ELSE Err("MalformedJson", field)
SerdeU64(m, field) ==
  IF m[field].json = "number" /\ ReadsAsU64(m[field]) THEN Ok(m[field].value)
  ELSE Err("MalformedJson", field)
SerdeOptionU64(m, field) ==
  IF m[field] \in {Absent, Null} THEN Ok(None)
  ELSE LET r == SerdeU64(m, field) IN IF r.ok THEN Ok([id |-> r.value]) ELSE r

\* `value as i64` wraps
AsI64(n) == IF n <= I64Max THEN n ELSE n - (U64Max + 1)

\* mutant: the milliseconds are taken for seconds
BinanceTimestamp_Seconds(n) ==
  IF 1000 * AsI64(n) \in -MaxTimestamp .. MaxTimestamp THEN Ok(1000 * AsI64(n))
  ELSE Err("InvalidTimestamp", "event_time")

\* parse_timestamp
BinanceTimestamp(n) ==
  IF AsI64(n) \in -MaxTimestamp .. MaxTimestamp THEN Ok(AsI64(n))
  ELSE Err("InvalidTimestamp", "event_time")

\* the whole payload is deserialized before its fields are looked at
BinanceTrade(m) ==
  LET id == SerdeOptionU64(m, "trade_id")
      millis == SerdeU64(m, "event_time")
      symbol == NewSymbol(m["symbol"].text, "symbol")
      time == BinanceTimestamp(millis.value)
      price == Decimal(m["price"], "price")
      quantity == Decimal(m["quantity"], "quantity")
  IN  Chain(<<SerdeString(m, "symbol"), id, SerdeString(m, "price"),
              SerdeString(m, "quantity"), millis>>,
            Chain(<<symbol, time, price, quantity>>,
                  NewTrade(symbol.value, id.value, price.value, quantity.value, time.value)))

\* without a time of its own a quote has the time it came in
BinanceQuote(m, ingest_time) ==
  LET millis == SerdeOptionU64(m, "event_time")
      symbol == NewSymbol(m["symbol"].text, "symbol")
      time == IF millis.value = None THEN Ok(ingest_time)
              ELSE BinanceTimestamp(millis.value.id)
      bid == Decimal(m["best_bid_price"], "best_bid_price")
      bid_quantity == Decimal(m["best_bid_quantity"], "best_bid_quantity")
      ask == Decimal(m["best_ask_price"], "best_ask_price")
      ask_quantity == Decimal(m["best_ask_quantity"], "best_ask_quantity")
  IN  Chain(<<SerdeString(m, "symbol"), SerdeString(m, "best_bid_price"),
              SerdeString(m, "best_bid_quantity"),
              SerdeString(m, "best_ask_price"), SerdeString(m, "best_ask_quantity"), millis>>,
            Chain(<<symbol, time, bid, bid_quantity, ask, ask_quantity>>,
                  NewQuote(symbol.value, bid.value, bid_quantity.value, ask.value,
                           ask_quantity.value, time.value)))

\* required_string_field and required_u64_field: null is there, of the wrong type
BinanceString(m, field) ==
  CASE m[field] = Absent -> Err("MissingField", field)
    [] m[field].json = "string" -> Ok(m[field])
    [] OTHER -> Err("InvalidEvent", field)

BinanceU64(m, field) ==
  IF m[field] = Absent THEN Err("MissingField", field) ELSE U64(m[field], field)

BinanceLevels(m, field) ==
  CASE m[field] = Absent -> Err("MissingField", field)
    [] m[field].json = "array" -> ParseItems(m[field].items, field)
    [] OTHER -> Err("InvalidEvent", field)

BinanceDepth(m) ==
  LET type == BinanceString(m, "e")
      raw == BinanceString(m, "symbol")
      symbol == Chain(<<raw>>, NewSymbol(raw.value.text, "symbol"))
      millis == BinanceU64(m, "event_time")
      time == Chain(<<millis>>, BinanceTimestamp(millis.value))
      first == BinanceU64(m, "first_update_id")
      final == BinanceU64(m, "final_update_id")
      bids == BinanceLevels(m, "bids")
      asks == BinanceLevels(m, "asks")
  IN  Chain(<<type>>,
        IF type.value.text # "depthUpdate" THEN Err("UnknownEventType", "e")
        ELSE Chain(<<symbol, time, first, final, bids, asks>>,
               NewDepthUpdate(symbol.value, [id |-> first.value], [id |-> final.value],
                              bids.value, asks.value, time.value)))

\* classify_stream: @trade as it is written, @bookTicker and @depth in any case,
\* @depth also before another @
StreamKind ==
  [trade |-> "trade", TRADE |-> "unknown", bookTicker |-> "quote", bookticker |-> "quote",
   depth |-> "depth", depth_100ms |-> "depth", DEPTH |-> "depth", aggTrade |-> "unknown"]

\* parse_combined_stream_message
ParseMessage(stream, m, ingest_time) ==
  IF stream \notin DOMAIN StreamKind THEN Err("MalformedJson", "message")
  ELSE CASE StreamKind[stream] = "trade" -> BinanceTrade(m)
         [] StreamKind[stream] = "quote" -> BinanceQuote(m, ingest_time)
         [] StreamKind[stream] = "depth" -> BinanceDepth(m)
         [] OTHER -> Err("UnknownStream", "stream")
=============================================================================
