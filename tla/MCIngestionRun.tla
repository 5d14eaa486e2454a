--------------------------- MODULE MCIngestionRun ---------------------------
(* IngestionRun with two symbols and an event of every kind. *)
EXTENDS IngestionRun

MCContents ==
  {[kind |-> "trade", symbol |-> "BTCUSDT"],
   [kind |-> "depth", symbol |-> "BTCUSDT"],
   [kind |-> "quote", symbol |-> "ETHUSDT"]}
=============================================================================
