------------------------------ MODULE DepthFeed ------------------------------
(***************************************************************************)
(* An exchange, the stream of its depth updates and the local book fed     *)
(* from it.  The exchange numbers the changes of its book 1, 2, 3, ...  An *)
(* update carries a range of them: the ids of the first and the last, and  *)
(* for every price changed in between the quantity it was left with.       *)
(* Updates are delivered in any order, repeatedly, overlapping or not at   *)
(* all, which is what reconnects and replay fixtures can produce.          *)
(*                                                                         *)
(* log, missed, view and removed are history: what the book itself does    *)
(* not know.                                                               *)
(***************************************************************************)
EXTENDS OrderBook, Sequences

CONSTANTS
  Changes,    \* the changes the exchange may make, [side, price, quantity]
  Feeds       \* the feeds: the ids their updates carry, "both", "first", "final" or
              \* "none", and the bound of the changes the exchange makes

ASSUME DepthFeedAssumption ==
  /\ Changes \subseteq [side : {"bid", "ask"}, price : Nat \ {0}, quantity : Nat]
  /\ \A f \in Feeds : f.styles \subseteq {"both", "first", "final", "none"}
  /\ \A f \in Feeds : f.max_changes \in Nat /\ f.max_changes <= MaxUpdateId

VARIABLES
  book,
  feed,     \* the feed in use
  log,      \* the changes the exchange has made; a change's id is its index
  missed,   \* the ids an update accepted by the book has skipped
  view,     \* the book as it would be if it kept every level
  removed   \* whether an accepted update removed a level

vars == <<book, feed, log, missed, view, removed>>

-----------------------------------------------------------------------------
Touches(i, side, p) == log[i].side = side /\ log[i].price = p

\* the quantity at price p after the changes i .. j, or `before` if untouched
QuantityAfter(side, p, i, j, before) ==
  LET touching == {k \in i .. j : Touches(k, side, p)}
  IN  IF touching = {} THEN before ELSE log[Max(touching)].quantity

LevelsOf(side, i, j) ==
  [p \in {log[k].price : k \in {k \in i .. j : log[k].side = side}} |->
     QuantityAfter(side, p, i, j, 0)]

DepthUpdate(i, j, style) ==
  [first_update_id |-> IF style \in {"both", "first"} THEN i ELSE None,
   final_update_id |-> IF style \in {"both", "final"} THEN j ELSE None,
   bids |-> LevelsOf("bid", i, j), asks |-> LevelsOf("ask", i, j),
   event_time |-> j, ingest_time |-> j]

\* the ids between the last one the book knows and the first one of the update
Skipped(update) ==
  IF book.last_final_update_id = None \/ update.first_update_id = None
  THEN {} ELSE (book.last_final_update_id + 1) .. (update.first_update_id - 1)

Init ==
  /\ book = NewBook
  /\ feed \in Feeds
  /\ log = <<>>
  /\ missed = {}
  /\ view = [bids |-> <<>>, asks |-> <<>>]
  /\ removed = FALSE

\* the exchange changes a level of its book
ExchangeChange(change) ==
  /\ Len(log) < feed.max_changes
  /\ log' = Append(log, change)
  /\ UNCHANGED <<book, feed, missed, view, removed>>

\* an update covering the changes i .. j reaches the book
Deliver(i, j, style) ==
  LET update == DepthUpdate(i, j, style)
  IN  /\ i <= j
      /\ book' = Apply(book, update)
      /\ IF IsStaleOrDuplicate(book, update)
         THEN UNCHANGED <<missed, view, removed>>
         ELSE /\ missed' = missed \cup Skipped(update)
              /\ view' = [bids |-> ApplyLevels(view.bids, update.bids),
                          asks |-> ApplyLevels(view.asks, update.asks)]
              /\ removed' = (removed \/ \E k \in i .. j : log[k].quantity = 0)
      /\ UNCHANGED <<feed, log>>

Next ==
  \/ \E change \in Changes : ExchangeChange(change)
  \/ \E i, j \in 1 .. Len(log), style \in feed.styles : Deliver(i, j, style)

Spec == Init /\ [][Next]_vars

-----------------------------------------------------------------------------
(* What makes the book correct *)

\* A gap count of zero can be relied upon: as long as no gap was counted in a
\* feed that numbers its updates, as Binance does, every level in the book has
\* the quantity the exchange had at the last id applied, whatever updates were
\* repeated, late, overlapping or stale.
NoPhantomLevels ==
  feed.styles = {"both"} /\ book.depth_sequence_gap_count = 0 =>
    /\ \A p \in DOMAIN book.bids :
         book.bids[p] = QuantityAfter("bid", p, 1, book.last_final_update_id, 0)
    /\ \A p \in DOMAIN book.asks :
         book.asks[p] = QuantityAfter("ask", p, 1, book.last_final_update_id, 0)

\* The gap counter counts exactly the updates that skipped ids: it never counts
\* more gaps than ids were missed, whatever ids the updates carry, and in a feed
\* that numbers them all, none was missed unless it is positive.  (An update of
\* a fixture with its first id only is accepted whatever it skips, and is not
\* counted.)
GapsAreWitnessed ==
  /\ book.depth_sequence_gap_count <= Cardinality(missed)
  /\ feed.styles = {"both"} => (book.depth_sequence_gap_count = 0 <=> missed = {})

\* The n best prices of a side, by the order in which trimming prefers them
Best(S, n, Better(_, _)) == {p \in S : Cardinality({q \in S : Better(q, p)}) < n}

\* Trimming after every update keeps what trimming once at the end would, as
\* long as no level was removed.  (After a removal the book may miss levels
\* that were trimmed before, but never more than the configured depth.)
TrimmingIsLossless ==
  /\ Cardinality(DOMAIN book.bids) <= Depth /\ Cardinality(DOMAIN book.asks) <= Depth
  /\ ~removed =>
       /\ book.bids = Restrict(view.bids, Best(DOMAIN view.bids, Depth, >))
       /\ book.asks = Restrict(view.asks, Best(DOMAIN view.asks, Depth, <))

-----------------------------------------------------------------------------
(* The inductive invariant behind the safety theorems *)

Prices == {c.price : c \in Changes}

\* a side of a book: no level has the quantity zero
IsSide(side) ==
  /\ DOMAIN side \subseteq Prices /\ IsFiniteSet(DOMAIN side)
  /\ side \in [DOMAIN side -> Nat \ {0}]

\* The variables stay in their domains, and the book knows no id that the
\* exchange has not reached.
TypeOK ==
  /\ feed \in Feeds
  /\ log \in Seq(Changes) /\ Len(log) <= feed.max_changes
  /\ book \in [bids : {book.bids}, asks : {book.asks},
               last_depth_event_time : Int, last_depth_ingest_time : Int,
               last_first_update_id : Int,
               last_final_update_id : {None} \cup 1 .. Len(log),
               depth_sequence_gap_count : Nat]
  /\ missed \subseteq Nat /\ IsFiniteSet(missed)
  /\ IsSide(book.bids) /\ IsSide(book.asks) /\ IsSide(view.bids) /\ IsSide(view.asks)
  /\ removed \in BOOLEAN

\* Every gap counted left an id of its own behind the last id applied; no id is
\* missed before the first.
GapsLeaveIds ==
  /\ book.depth_sequence_gap_count
       <= Cardinality({x \in missed : x <= book.last_final_update_id})
  /\ book.last_final_update_id = None => missed = {}

DepthFeedInv ==
  /\ TypeOK
  /\ GapsLeaveIds
  /\ GapsAreWitnessed
  /\ NoPhantomLevels
  /\ TrimmingIsLossless
=============================================================================
