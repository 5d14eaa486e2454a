------------------------------- MODULE Tables -------------------------------
(***************************************************************************)
(* Events as rows of PostgreSQL (src/src/storage/trades.rs, quotes.rs):    *)
(* what an insert refuses and what a row is read back as.  A column is     *)
(* narrower than the field it holds: a BIGINT than the u64 of a trade's id *)
(* and a TIMESTAMPTZ, which begins in 4713 BC, than the times of chrono.   *)
(***************************************************************************)
EXTENDS MessageFormats

CONSTANTS
  TimestamptzReach \* how far before 1970 a TIMESTAMPTZ begins, in milliseconds, scaled

ASSUME TablesAssumption == TimestamptzReach \in 1 .. MaxTimestamp

EarliestRow == -TimestamptzReach

\* PostgreSQL inserts the row, or answers that its time is out of range
Execute(row, operation) ==
  IF row.time < EarliestRow THEN Err("Database", operation) ELSE Ok(row)

\* i64::try_from of an id that may be left out
TryI64(id) ==
  IF id # None /\ id.id > I64Max THEN Err("InvalidArgument", "trade.trade_id") ELSE Ok(id)

\* mutant: `as i64` instead of i64::try_from
InsertTrade_Wrapping(trade) ==
  Execute(IF trade.id = None THEN trade
          ELSE [trade EXCEPT !.id = [id |-> AsI64(trade.id.id)]], "insert_trade")

\* insert_trade
InsertTrade(trade) ==
  LET trade_id == TryI64(trade.id)
  IN  Chain(<<trade_id>>, Execute([trade EXCEPT !.id = trade_id.value], "insert_trade"))

\* insert_quote
InsertQuote(quote) == Execute(quote, "insert_quote")

\* map_trade_row: one row it refuses fails the read of all of them
MapTradeRow(row) ==
  IF row.id # None /\ row.id.id < 0 THEN Err("Mapping", "trade_id") ELSE Ok(row)
=============================================================================
