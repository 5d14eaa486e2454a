--------------------------- MODULE MCMarketHealth ---------------------------
(* The symbols are interchangeable. *)
EXTENDS MarketHealth, TLC

Symmetry == Permutations(Symbols)
=============================================================================
