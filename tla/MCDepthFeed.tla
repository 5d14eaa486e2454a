----------------------------- MODULE MCDepthFeed -----------------------------
(* Three prices on each side, each set to a quantity or removed. *)
EXTENDS DepthFeed

MCChanges ==
  [side : {"bid"}, price : {1, 2, 3}, quantity : {0, 1}]
    \cup [side : {"ask"}, price : {4, 5, 6}, quantity : {0, 2}]

\* Binance numbers every update; the lines of a fixture carry ids or not
MCFeeds ==
  {[styles |-> {"both"}, max_changes |-> 4],
   [styles |-> {"both", "first", "final", "none"}, max_changes |-> 3]}
=============================================================================
