------------------------------ MODULE MCInputs ------------------------------
(* The inputs the run reads: at, just inside and just outside every bound. *)
EXTENDS Inputs, TLC

MCNormalized ==
  [BTCUSDT |-> "BTCUSDT", btcusdt |-> "BTCUSDT", padded |-> "BTCUSDT", ETHUSDT |-> "ETHUSDT",
   hyphenated |-> "BTC-USDT", blank |-> ""]

Edges == {-1, 0, 1, 49, 50, 80, 100, 101}

MCRawsOf ==
  [profile |-> {Text("production"), Text("staging")},
   text |-> {Text("blank"), Text("other")},
   url |-> {Unset, Text("blank")},
   mode |-> {Text("live"), Text("Live")},
   bool |-> {Text("true"), Text("false"), Text("TRUE")},
   symbols |-> {List(<<"blank">>), List(<<"btcusdt", "blank", "ETHUSDT">>),
                List(<<"padded", "BTCUSDT">>), List(<<"ETHUSDT", "hyphenated">>)},
   u8 |-> {Integer(n) : n \in Edges \cup {5, 16, 255, 256}} \cup {Text("five")},
   u16 |-> {Integer(n) : n \in {-1, 0, 65535, 65536}} \cup {Text("five")},
   u32 |-> {Integer(n) : n \in {-1, 0, 1, U32Max, U32Max + 1}} \cup {Tenths(25)},
   u64 |-> {Integer(n) : n \in {-1, 0, 1, 499, 5000, 5001, MaxEventChannelCapacity,
                                MaxEventChannelCapacity + 1, U64Max, U64Max + 1}},
   decimal |-> {Integer(0), Integer(3), Tenths(-1), Tenths(1), Text("five")}]

MCRaws == [key \in Keys |-> {BaseEnv[key]} \cup MCRawsOf[Entry(key)[2]]]

-----------------------------------------------------------------------------
Amount(n) == Str("integer", n)
Level(price, quantity) == Arr(<<Str("decimal", price), Amount(quantity)>>)

Common(type) ==
  [type |-> Str(type, 0), exchange |-> Str("binance", 0), e |-> Str("depthUpdate", 0),
   symbol |-> Str("BTCUSDT", 0), event_time |-> At(7)]

AllFields == {"trade_id", "price", "quantity", "best_bid_price", "best_bid_quantity",
              "best_ask_price", "best_ask_quantity", "first_update_id", "final_update_id",
              "bids", "asks"}

Rest == [field \in AllFields |-> Absent]

MCBase ==
  [trade |-> Common("trade") @@
             [trade_id |-> Num(5), price |-> Amount(100), quantity |-> Amount(2)] @@ Rest,
   quote |-> Common("quote") @@
             [best_bid_price |-> Amount(99), best_bid_quantity |-> Amount(1),
              best_ask_price |-> Amount(101), best_ask_quantity |-> Amount(1)] @@ Rest,
   depth |-> Common("depth") @@
             [first_update_id |-> Num(5), final_update_id |-> Num(6),
              bids |-> Arr(<<Level(99, 1)>>), asks |-> Arr(<<>>)] @@ Rest]

Missing == {Absent, Null}

Symbols == Missing \cup {Str(t, 0) : t \in DOMAIN MCNormalized} \cup {Num(1)}
Times == Missing \cup {Amount(7), Str("word", 0), Bool} \cup
  {At(n) : n \in {-1, 0, 7, LastWritable, LastWritable + 1, MaxTimestamp, MaxTimestamp + 1,
                  I64Max, I64Max + 1, U64Max - MaxTimestamp, U64Max + 1 - MaxTimestamp,
                  U64Max + EarliestRow, U64Max + 1 + EarliestRow, U64Max, U64Max + 1}}
Ids == Missing \cup {Num(n) : n \in {-1, 0, 4, 5, 6, I64Max, I64Max + 1, U64Max, U64Max + 1}} \cup
  {Amount(6), Amount(-1), Str("word", 0), Bool}
Decimals == Missing \cup {Amount(n) : n \in {-1, 0, 1, 99, 101, 102}} \cup
  {Str("decimal", 100), Str("word", 0), Num(100)}
Levels == Missing \cup
  {Arr(<<>>), Arr(<<Level(99, 0)>>), Arr(<<Level(99, 1), Level(98, 2)>>), Arr(<<Level(0, 1)>>),
   Arr(<<Level(99, 1), Level(98, -1)>>), Arr(<<Arr(<<Amount(99)>>)>>), Arr(<<Amount(99)>>),
   Arr(<<Arr(<<Amount(99), Num(1)>>)>>), Arr(<<Arr(<<Amount(99), Str("word", 0)>>)>>),
   Str("word", 0)}

MCContents ==
  [trade |-> [symbol |-> Symbols, event_time |-> Times, trade_id |-> Ids, price |-> Decimals,
              quantity |-> Decimals],
   quote |-> [symbol |-> Symbols, event_time |-> Times, best_bid_price |-> Decimals,
              best_bid_quantity |-> Decimals, best_ask_price |-> Decimals,
              best_ask_quantity |-> Decimals],
   depth |-> [symbol |-> Symbols, event_time |-> Times, first_update_id |-> Ids,
              final_update_id |-> Ids, bids |-> Levels, asks |-> Levels]]
=============================================================================
