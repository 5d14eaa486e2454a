------------------------- MODULE MCMarketStateCache -------------------------
(* What Redis may hold when the service is started for the first time. *)
EXTENDS MarketStateCache

CONSTANTS btc, eth

MCInitialContents ==
  {[value |-> [s \in Symbols |-> "absent"], registered |-> {}]} \cup
  {[value |-> [s \in Symbols |-> IF s = btc THEN v ELSE "state"],
    registered |-> Symbols] : v \in Values \ {"absent"}} \cup
  {[value |-> [s \in Symbols |-> "absent"], registered |-> BadNames]}
=============================================================================
