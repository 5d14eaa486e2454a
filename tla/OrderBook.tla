------------------------------ MODULE OrderBook ------------------------------
(***************************************************************************)
(* The local order book of one symbol (src/src/state/order_book.rs) as     *)
(* operators on a record.  A side of the book is a function from the       *)
(* prices it holds to their quantities.  The levels of an update are the   *)
(* function that its list of levels leaves behind, a later entry of the    *)
(* list overriding an earlier one for the same price.                      *)
(***************************************************************************)
EXTENDS Integers, FiniteSets, FiniteSetsExt, Functions

CONSTANTS
  RetainedDepthLevels, \* levels kept on each side, as configured
  MaxUpdateId          \* u64::MAX

ASSUME OrderBookAssumption ==
  /\ RetainedDepthLevels \in Nat
  /\ MaxUpdateId \in Nat

\* an absent update id, time, price or quantity
None == -1

NewBook ==
  [bids |-> <<>>, asks |-> <<>>,
   last_depth_event_time |-> None, last_depth_ingest_time |-> None,
   last_first_update_id |-> None, last_final_update_id |-> None,
   depth_sequence_gap_count |-> 0]

\* OrderBook::new keeps at least one level
Depth == IF RetainedDepthLevels = 0 THEN 1 ELSE RetainedDepthLevels

-----------------------------------------------------------------------------
\* mutant: only a repetition of the last update is recognised
IsStaleOrDuplicate_LastOnly(book, update) ==
  /\ book.last_final_update_id # None
  /\ update.first_update_id # None
  /\ update.final_update_id = book.last_final_update_id

IsStaleOrDuplicate(book, update) ==
  /\ book.last_final_update_id # None
  /\ update.first_update_id # None
  /\ update.final_update_id # None
  /\ update.final_update_id <= book.last_final_update_id

\* mutant: a gap of one id passes
HasSequenceGap_OffByOne(book, update) ==
  /\ book.last_final_update_id # None
  /\ update.first_update_id # None
  /\ update.final_update_id # None
  /\ update.first_update_id > book.last_final_update_id + 2

\* checked_add: there is no gap after the largest id
HasSequenceGap(book, update) ==
  /\ book.last_final_update_id # None
  /\ update.first_update_id # None
  /\ update.final_update_id # None
  /\ book.last_final_update_id < MaxUpdateId
  /\ update.first_update_id > book.last_final_update_id + 1

\* two ids are recorded together; one that comes alone never moves back
RecordUpdateIds(book, update) ==
  LET both == update.first_update_id # None /\ update.final_update_id # None
      New(id, last) == IF id # None /\ (both \/ id >= last) THEN id ELSE last
  IN  [book EXCEPT
         !.last_first_update_id = New(update.first_update_id, @),
         !.last_final_update_id = New(update.final_update_id, @)]

\* a level of quantity zero is removed, any other inserted
ApplyLevels(side, levels) ==
  LET all == [p \in DOMAIN side \cup DOMAIN levels |->
                IF p \in DOMAIN levels THEN levels[p] ELSE side[p]]
  IN  Restrict(all, {p \in DOMAIN all : all[p] # 0})

\* mutant: the highest prices are dropped on both sides
TrimBids_Highest(bids) ==
  Restrict(bids, {p \in DOMAIN bids : Cardinality({q \in DOMAIN bids : q < p}) < Depth})

\* the Depth highest bids and the Depth lowest asks remain
TrimBids(bids) ==
  Restrict(bids, {p \in DOMAIN bids : Cardinality({q \in DOMAIN bids : q > p}) < Depth})
TrimAsks(asks) ==
  Restrict(asks, {p \in DOMAIN asks : Cardinality({q \in DOMAIN asks : q < p}) < Depth})

\* apply for an update that is neither stale nor a duplicate
Applied(book, update) ==
  LET counted == [book EXCEPT !.depth_sequence_gap_count =
                    IF HasSequenceGap(book, update) THEN @ + 1 ELSE @]
      levelled == [counted EXCEPT !.bids = TrimBids(ApplyLevels(@, update.bids)),
                                  !.asks = TrimAsks(ApplyLevels(@, update.asks))]
      timed == [levelled EXCEPT !.last_depth_event_time = update.event_time,
                                !.last_depth_ingest_time = update.ingest_time]
  IN  RecordUpdateIds(timed, update)

Apply(book, update) ==
  IF IsStaleOrDuplicate(book, update) THEN book ELSE Applied(book, update)

-----------------------------------------------------------------------------
(* The snapshot of the book *)

BestBid(book) == IF DOMAIN book.bids = {} THEN None ELSE Max(DOMAIN book.bids)
BestAsk(book) == IF DOMAIN book.asks = {} THEN None ELSE Min(DOMAIN book.asks)

TotalLiquidity(side) == MapThenSumSet(LAMBDA p : p * side[p], DOMAIN side)

\* the numerator and the denominator of book_imbalance, absent for an empty book
BookImbalance(book) ==
  LET bid == TotalLiquidity(book.bids)
      ask == TotalLiquidity(book.asks)
  IN  IF bid + ask > 0 THEN <<bid - ask, bid + ask>> ELSE <<>>
=============================================================================
