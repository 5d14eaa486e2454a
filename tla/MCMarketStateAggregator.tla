----------------------- MODULE MCMarketStateAggregator -----------------------
(* Trades at the edges of a window of two time units, quotes out of order, and *)
(* depth updates whose ids and event times disagree.                           *)
EXTENDS MarketStateAggregator, TLC

Depth1(i, j, level, t) ==
  [kind |-> "depth", first_update_id |-> i, final_update_id |-> j,
   bids |-> level, asks |-> <<>>, event_time |-> t, ingest_time |-> t]

MCEvents ==
  [kind : {"trade"}, price : {1, 2}, event_time : {0, 1, 2, 3}, ingest_time : {3}]
    \cup [kind : {"quote"}, bid : {1}, ask : {2, 3}, event_time : {1, 3}, ingest_time : {3}]
    \cup {Depth1(1, 1, <<1>>, 2), Depth1(2, 2, <<0, 1>>, 4), Depth1(3, 3, <<2>>, 1)}

SymbolSymmetry == Permutations(Symbols)
=============================================================================
