---------------------------- MODULE DepthFeed_proofs ----------------------------
(***************************************************************************)
(* Proofs about DepthFeed: what the local book can be relied upon for, for *)
(* every exchange, every feed, every depth of the book and every order in  *)
(* which updates are delivered.  First, lemmas about the operators of      *)
(* OrderBook: the best prices of a side, for either order of prices, and   *)
(* what trimming keeps of them.                                            *)
(***************************************************************************)
EXTENDS DepthFeed, FiniteSetTheorems, SequenceTheorems, TLAPS

-----------------------------------------------------------------------------
(* The first elements of an order *)

\* R orders the elements of U strictly and totally
IsOrder(R, U) ==
  /\ \A x \in U : <<x, x>> \notin R
  /\ \A x, y \in U : x # y => <<x, y>> \in R \/ <<y, x>> \in R
  /\ \A x, y, z \in U : <<x, y>> \in R /\ <<y, z>> \in R => <<x, z>> \in R

Before(R, S, p) == {q \in S : <<q, p>> \in R}

\* the elements of S that fewer than n others come before
First(R, S, n) == {p \in S : Cardinality(Before(R, S, p)) < n}

\* Some element of a finite set comes before all others.
LEMMA FirstExists ==
  ASSUME NEW R, NEW U, IsOrder(R, U), NEW S, S \subseteq U, IsFiniteSet(S), S # {}
  PROVE  \E x \in S : \A y \in S : y = x \/ <<x, y>> \in R
<1> DEFINE HasFirst(T) == \E x \in T : \A y \in T : y = x \/ <<x, y>> \in R
           Bad == {T \in SUBSET S : T # {} /\ ~HasFirst(T)}
<1> SUFFICES ASSUME Bad # {} PROVE FALSE
  OBVIOUS
<1>1. FiniteSubsetsOf(S) = SUBSET S
  BY FS_FiniteSubsetsOfFinite
<1>2. IsWellFoundedOn(StrictSubsetOrdering(S), SUBSET S)
  BY <1>1, FS_StrictSubsetOrderingWellFounded
<1>3. Bad \subseteq SUBSET S
  OBVIOUS
<1> HIDE DEF Bad
<1>4. PICK T \in Bad : \A V \in Bad : ~(<<V, T>> \in StrictSubsetOrdering(S))
  BY <1>2, <1>3, WFMin
<1>5. T \in SUBSET S /\ T # {} /\ ~HasFirst(T)
  BY DEF Bad
<1>6. PICK x \in T : TRUE
  BY <1>5
<1>7. T \ {x} \notin Bad
  <2>1. <<T \ {x}, T>> \in StrictSubsetOrdering(S)
    BY <1>5 DEF StrictSubsetOrdering
  <2> QED
    BY <1>4, <2>1
<1>8. CASE T \ {x} = {}
  BY <1>5, <1>8
<1>9. CASE T \ {x} # {}
  <2>1. PICK y \in T \ {x} : \A z \in T \ {x} : z = y \/ <<y, z>> \in R
    BY <1>5, <1>7, <1>9 DEF Bad
  <2>2. x \in U /\ y \in U /\ T \subseteq U
    BY <1>5
  <2>3. CASE <<x, y>> \in R
    <3>1. \A z \in T : z = x \/ <<x, z>> \in R
      BY <2>1, <2>2, <2>3 DEF IsOrder
    <3> QED
      BY <1>5, <3>1
  <2>4. CASE <<y, x>> \in R
    <3>1. \A z \in T : z = y \/ <<y, z>> \in R
      BY <2>1, <2>4
    <3> QED
      BY <1>5, <2>1, <3>1
  <2> QED
    BY <2>1, <2>2, <2>3, <2>4 DEF IsOrder
<1> QED
  BY <1>8, <1>9

\* Some element of a finite set comes after all others.
LEMMA LastExists ==
  ASSUME NEW R, NEW U, IsOrder(R, U), NEW S, S \subseteq U, IsFiniteSet(S), S # {}
  PROVE  \E x \in S : \A y \in S : y = x \/ <<y, x>> \in R
<1> DEFINE Q == {r \in U \X U : <<r[2], r[1]>> \in R}
<1>1. \A x, y \in U : <<x, y>> \in Q <=> <<y, x>> \in R
  OBVIOUS
<1> HIDE DEF Q
<1>2. IsOrder(Q, U)
  BY <1>1 DEF IsOrder
<1>3. \E x \in S : \A y \in S : y = x \/ <<x, y>> \in Q
  BY <1>2, FirstExists
<1> QED
  BY <1>1, <1>3

\* No more than n elements are among the first n.
LEMMA FirstAreFew ==
  ASSUME NEW R, NEW U, IsOrder(R, U), NEW S, S \subseteq U, IsFiniteSet(S), NEW n \in Nat
  PROVE  Cardinality(First(R, S, n)) <= n
<1> DEFINE F == First(R, S, n)
<1>1. F \subseteq S /\ IsFiniteSet(F)
  BY FS_Subset DEF First
<1>2. CASE F = {}
  BY <1>2, FS_EmptySet
<1>3. CASE F # {}
  <2>1. PICK w \in F : \A y \in F : y = w \/ <<y, w>> \in R
    BY <1>1, <1>3, LastExists
  <2>2. F \ {w} \subseteq Before(R, S, w)
    BY <1>1, <2>1 DEF Before
  <2>3. IsFiniteSet(Before(R, S, w))
    BY FS_Subset DEF Before
  <2>4. Cardinality(F \ {w}) <= Cardinality(Before(R, S, w))
    BY <2>2, <2>3, FS_Subset
  <2>5. Cardinality(Before(R, S, w)) < n
    BY <2>1 DEF First
  <2>6. Cardinality(F \ {w}) = Cardinality(F) - 1
    BY <1>1, <2>1, FS_RemoveElement
  <2>7. /\ Cardinality(F) \in Nat /\ Cardinality(Before(R, S, w)) \in Nat
        /\ Cardinality(F \ {w}) \in Nat
    BY <1>1, <2>3, FS_CardinalityType, FS_RemoveElement
  <2> HIDE DEF F
  <2> QED
    BY <2>4, <2>5, <2>6, <2>7 DEF F
<1> QED
  BY <1>2, <1>3

\* Before an element that is not among the first n come n that are.
LEMMA FirstComeBefore ==
  ASSUME NEW R, NEW U, IsOrder(R, U), NEW S, S \subseteq U, IsFiniteSet(S), NEW n \in Nat,
         NEW p \in S, p \notin First(R, S, n)
  PROVE  \E W \in SUBSET First(R, S, n) :
           /\ Cardinality(W) >= n
           /\ \A x \in W : <<x, p>> \in R
<1> DEFINE N == S \ First(R, S, n)
<1>1. N \subseteq S /\ IsFiniteSet(N) /\ p \in N
  BY FS_Subset
<1>2. PICK q \in N : \A y \in N : y = q \/ <<q, y>> \in R
  BY <1>1, FirstExists
<1> DEFINE W == Before(R, S, q)
<1>3. W \subseteq First(R, S, n)
  <2> SUFFICES ASSUME NEW x \in W, x \in N PROVE FALSE
    BY DEF Before
  <2>1. x \in U /\ q \in U /\ <<x, q>> \in R
    BY <1>1 DEF Before
  <2> QED
    BY <1>2, <2>1 DEF IsOrder
<1>4. IsFiniteSet(W)
  BY FS_Subset DEF Before
<1>5. Cardinality(W) >= n
  <2>1. ~(Cardinality(W) < n)
    BY DEF First
  <2>2. Cardinality(W) \in Nat
    BY <1>4, FS_CardinalityType
  <2> QED
    BY <2>1, <2>2
<1>6. \A x \in W : <<x, p>> \in R
  BY <1>1, <1>2 DEF Before, IsOrder
<1> QED
  BY <1>3, <1>5, <1>6

\* Keeping only the first n before others are added loses none of the first n.
LEMMA FirstOfFirst ==
  ASSUME NEW R, NEW U, IsOrder(R, U), NEW S, S \subseteq U, IsFiniteSet(S),
         NEW T, T \subseteq U, IsFiniteSet(T), NEW n \in Nat
  PROVE  First(R, First(R, S, n) \cup T, n) = First(R, S \cup T, n)
<1> DEFINE F == First(R, S, n)
<1>1. F \subseteq S
  BY DEF First
<1>2. IsFiniteSet(S \cup T) /\ S \cup T \subseteq U
  BY FS_Union
<1>3. \A V \in SUBSET (S \cup T) : IsFiniteSet(V) /\ Cardinality(V) \in Nat
  BY <1>2, FS_Subset, FS_CardinalityType
<1>4. \A V \in SUBSET (S \cup T) : \A X \in SUBSET V : Cardinality(X) <= Cardinality(V)
  BY <1>3, FS_Subset
<1>5. ASSUME NEW p \in First(R, S \cup T, n)
      PROVE  p \in First(R, F \cup T, n)
  <2>1. p \in S \cup T /\ Cardinality(Before(R, S \cup T, p)) < n
    BY DEF First
  <2>2. \A V \in SUBSET (S \cup T) : Cardinality(Before(R, V, p)) < n
    <3> SUFFICES ASSUME NEW V \in SUBSET (S \cup T)
                 PROVE  Cardinality(Before(R, V, p)) < n
      OBVIOUS
    <3>1. Before(R, V, p) \in SUBSET Before(R, S \cup T, p)
      BY DEF Before
    <3>2. Before(R, S \cup T, p) \in SUBSET (S \cup T)
      BY DEF Before
    <3>3. /\ Cardinality(Before(R, V, p)) <= Cardinality(Before(R, S \cup T, p))
          /\ Cardinality(Before(R, V, p)) \in Nat
          /\ Cardinality(Before(R, S \cup T, p)) \in Nat
      BY <1>3, <1>4, <3>1, <3>2
    <3> QED
      BY <2>1, <3>3
  <2>3. p \in F \cup T
    BY <2>1, <2>2 DEF First
  <2> QED
    BY <1>1, <2>2, <2>3 DEF First
<1>6. ASSUME NEW p \in First(R, F \cup T, n)
      PROVE  p \in First(R, S \cup T, n)
  <2>1. p \in F \cup T /\ Cardinality(Before(R, F \cup T, p)) < n
    BY DEF First
  <2>2. ASSUME NEW q \in S, q \notin F, <<q, p>> \in R
        PROVE  FALSE
    <3>1. PICK W \in SUBSET F : Cardinality(W) >= n /\ \A x \in W : <<x, q>> \in R
      BY <2>2, FirstComeBefore
    <3>2. W \in SUBSET Before(R, F \cup T, p)
      BY <1>1, <2>1, <2>2, <3>1 DEF Before, IsOrder
    <3>3. Before(R, F \cup T, p) \in SUBSET (S \cup T)
      BY <1>1 DEF Before
    <3>4. /\ Cardinality(W) <= Cardinality(Before(R, F \cup T, p))
          /\ Cardinality(W) \in Nat /\ Cardinality(Before(R, F \cup T, p)) \in Nat
      BY <1>3, <1>4, <3>2, <3>3
    <3> QED
      BY <2>1, <3>1, <3>4
  <2>3. Before(R, S \cup T, p) = Before(R, F \cup T, p)
    BY <1>1, <2>2 DEF Before
  <2> QED
    BY <1>1, <2>1, <2>3 DEF First
<1> QED
  BY <1>5, <1>6

-----------------------------------------------------------------------------
(* Prices *)

\* the orders in which bids and asks are preferred
Higher == {r \in Int \X Int : r[1] > r[2]}
Lower == {r \in Int \X Int : r[1] < r[2]}

\* Both orders of prices are strict and total.
LEMMA PriceOrders == IsOrder(Higher, Int) /\ IsOrder(Lower, Int)
<1>1. \A x, y \in Int : <<x, y>> \in Higher <=> x > y
  BY DEF Higher
<1>2. \A x, y \in Int : <<x, y>> \in Lower <=> x < y
  BY DEF Lower
<1>3. \A x, y, z \in Int : (x > y /\ y > z => x > z) /\ (x < y /\ y < z => x < z)
  OBVIOUS
<1>4. \A x, y \in Int : ~(x > x) /\ ~(x < x) /\ (x # y => x > y \/ y > x)
                        /\ (x # y => x < y \/ y < x)
  OBVIOUS
<1> QED
  BY <1>1, <1>2, <1>3, <1>4, Zenon DEF IsOrder

\* A finite set of integers has a maximum, and Max is it.
LEMMA MaxIs ==
  ASSUME NEW S \in SUBSET Int, IsFiniteSet(S), S # {}
  PROVE  Max(S) \in S /\ \A y \in S : Max(S) >= y
<1>1. PICK U, T : U = Int /\ T = S
  OBVIOUS
<1>2. IsOrder(Higher, U) /\ T \subseteq U /\ IsFiniteSet(T) /\ T # {}
  BY <1>1, PriceOrders
<1>3. PICK x \in S : \A y \in S : y = x \/ <<x, y>> \in Higher
  <2>1. \E x \in T : \A y \in T : y = x \/ <<x, y>> \in Higher
    BY <1>2, FirstExists
  <2> QED
    BY <1>1, <2>1
<1> DEFINE Above(y) == <<x, y>> \in Higher
<1>4. \A y \in S : Above(y) => x > y
  BY DEF Higher
<1>5. \A y \in S : y = x \/ Above(y)
  BY <1>3
<1> HIDE DEF Above
<1>6. \A y \in S : x >= y
  BY <1>4, <1>5
<1> QED
  BY <1>6 DEF Max

\* At least one level is kept.
LEMMA DepthType == Depth \in Nat \ {0}
BY OrderBookAssumption DEF Depth

\* Trimming keeps the first prices in the order of the side.
LEMMA TrimIs ==
  ASSUME NEW side, DOMAIN side \subseteq Int
  PROVE  /\ TrimBids(side) = Restrict(side, First(Higher, DOMAIN side, Depth))
         /\ TrimAsks(side) = Restrict(side, First(Lower, DOMAIN side, Depth))
<1>1. \A p \in DOMAIN side :
        /\ {q \in DOMAIN side : q > p} = Before(Higher, DOMAIN side, p)
        /\ {q \in DOMAIN side : q < p} = Before(Lower, DOMAIN side, p)
  BY DEF Before, Higher, Lower
<1>2. /\ {p \in DOMAIN side : Cardinality({q \in DOMAIN side : q > p}) < Depth}
           = First(Higher, DOMAIN side, Depth)
      /\ {p \in DOMAIN side : Cardinality({q \in DOMAIN side : q < p}) < Depth}
           = First(Lower, DOMAIN side, Depth)
  BY <1>1, Zenon DEF First
<1> QED
  BY <1>2 DEF TrimBids, TrimAsks

\* A level of an update replaces that of the side, and no level of quantity zero
\* remains.
LEMMA LevelsApplied ==
  ASSUME NEW side, NEW levels
  PROVE  LET new == ApplyLevels(side, levels) IN
         /\ new = [p \in DOMAIN new |-> new[p]]
         /\ \A p : p \in DOMAIN new <=>
              \/ p \in DOMAIN levels /\ levels[p] # 0
              \/ p \in DOMAIN side /\ p \notin DOMAIN levels /\ side[p] # 0
         /\ \A p \in DOMAIN new :
              new[p] = IF p \in DOMAIN levels THEN levels[p] ELSE side[p]
BY DEF ApplyLevels, Restrict

-----------------------------------------------------------------------------
(* The log of the exchange *)

\* The entries of the log have prices and quantities.
LEMMA LogEntries ==
  ASSUME TypeOK
  PROVE  /\ Len(log) \in Nat
         /\ \A k \in 1 .. Len(log) :
              /\ log[k].price \in Prices /\ log[k].quantity \in Nat
         /\ Prices \subseteq Nat \ {0}
<1>1. log \in Seq(Changes) /\ Len(log) \in Nat
  BY LenProperties DEF TypeOK
<1>2. \A k \in 1 .. Len(log) : log[k] \in Changes
  BY <1>1, ElementOfSeq
<1> QED
  BY <1>1, <1>2, DepthFeedAssumption DEF Prices

\* A change of the exchange is appended behind the others.
LEMMA LogGrows ==
  ASSUME TypeOK, NEW change \in Changes, ExchangeChange(change)
  PROVE  /\ log' \in Seq(Changes)
         /\ Len(log') = Len(log) + 1
         /\ \A k \in 1 .. Len(log) : log'[k] = log[k]
<1>1. log \in Seq(Changes) /\ log' = Append(log, change)
  BY DEF TypeOK, ExchangeChange
<1> QED
  BY <1>1, AppendProperties

\* The last of the changes that touch a price decides its quantity.
LEMMA QuantityIs ==
  ASSUME TypeOK, NEW side, NEW p, NEW i \in 1 .. Len(log), NEW j \in 1 .. Len(log),
         NEW before, NEW k \in i .. j, Touches(k, side, p)
  PROVE  \E l \in i .. j :
           /\ Touches(l, side, p)
           /\ \A x \in i .. j : Touches(x, side, p) => x <= l
           /\ QuantityAfter(side, p, i, j, before) = log[l].quantity
<1> DEFINE touching == {x \in i .. j : Touches(x, side, p)}
<1>1. touching \subseteq i .. j /\ touching \subseteq Int /\ touching # {}
  OBVIOUS
<1>2. IsFiniteSet(i .. j)
  BY FS_Interval
<1>3. IsFiniteSet(touching)
  BY <1>1, <1>2, FS_Subset
<1>4. Max(touching) \in touching /\ \A y \in touching : Max(touching) >= y
  BY <1>1, <1>3, MaxIs
<1>5. QuantityAfter(side, p, i, j, before) = log[Max(touching)].quantity
  BY <1>1 DEF QuantityAfter
<1> HIDE DEF touching
<1>6. PICK l : l = Max(touching)
  OBVIOUS
<1>7. l \in i .. j /\ Touches(l, side, p)
      /\ QuantityAfter(side, p, i, j, before) = log[l].quantity
  BY <1>4, <1>5, <1>6 DEF touching
<1>8. \A x \in i .. j : Touches(x, side, p) => x <= l
  BY <1>4, <1>6 DEF touching
<1> QED
  BY <1>7, <1>8

\* What an update says of a price it touches is what the exchange has after it.
LEMMA UpdateTellsQuantity ==
  ASSUME TypeOK, NEW side, NEW p, NEW i \in 1 .. Len(log), NEW j \in 1 .. Len(log),
         NEW k \in i .. j, Touches(k, side, p)
  PROVE  QuantityAfter(side, p, i, j, 0) = QuantityAfter(side, p, 1, j, 0)
<1>0. Len(log) \in Nat
  BY LogEntries
<1>1. PICK l \in i .. j :
        /\ Touches(l, side, p)
        /\ \A x \in i .. j : Touches(x, side, p) => x <= l
        /\ QuantityAfter(side, p, i, j, 0) = log[l].quantity
  BY QuantityIs
<1>2. 1 \in 1 .. Len(log) /\ k \in 1 .. j
  BY <1>0
<1>3. PICK m \in 1 .. j :
        /\ Touches(m, side, p)
        /\ \A x \in 1 .. j : Touches(x, side, p) => x <= m
        /\ QuantityAfter(side, p, 1, j, 0) = log[m].quantity
  BY <1>2, QuantityIs
<1>4. l = m
  <2>1. l <= m /\ l \in 1 .. j
    BY <1>1, <1>3
  <2>2. m \in i .. j
    BY <1>1, <1>3, <2>1
  <2> QED
    BY <1>1, <1>3, <2>1, <2>2
<1> QED
  BY <1>1, <1>3, <1>4

\* A price no change touches after id `last` has the quantity it had then.
LEMMA UntouchedKeeps ==
  ASSUME TypeOK, NEW side, NEW p, NEW last \in 1 .. Len(log), NEW i \in 1 .. Len(log),
         NEW j \in 1 .. Len(log), i <= last + 1, last <= j,
         \A k \in i .. j : ~Touches(k, side, p)
  PROVE  QuantityAfter(side, p, 1, j, 0) = QuantityAfter(side, p, 1, last, 0)
<1>1. Len(log) \in Nat
  BY LogEntries
<1>2. {k \in 1 .. j : Touches(k, side, p)} = {k \in 1 .. last : Touches(k, side, p)}
  <2>1. \A k \in 1 .. j : k \in 1 .. last \/ k \in i .. j
    BY <1>1
  <2>2. \A k \in 1 .. last : k \in 1 .. j
    BY <1>1
  <2> QED
    BY <2>1, <2>2
<1> QED
  BY <1>2 DEF QuantityAfter

\* The levels of an update: the prices touched, each with the quantity the last
\* change that touches it leaves.
LEMMA LevelsAre ==
  ASSUME TypeOK, NEW side, NEW i \in 1 .. Len(log), NEW j \in 1 .. Len(log)
  PROVE  LET levels == LevelsOf(side, i, j) IN
         /\ \A p : p \in DOMAIN levels <=> \E k \in i .. j : Touches(k, side, p)
         /\ DOMAIN levels \subseteq Prices /\ IsFiniteSet(DOMAIN levels)
         /\ \A p \in DOMAIN levels :
              /\ levels[p] = QuantityAfter(side, p, i, j, 0)
              /\ levels[p] \in Nat
<1> DEFINE K == {k \in i .. j : log[k].side = side}
           P == {log[k].price : k \in K}
           levels == LevelsOf(side, i, j)
           f == [k \in K |-> log[k].price]
<1>1. Len(log) \in Nat /\ \A k \in i .. j : k \in 1 .. Len(log)
  BY LogEntries
<1>2. DOMAIN levels = P /\ \A p \in P : levels[p] = QuantityAfter(side, p, i, j, 0)
  BY DEF LevelsOf
<1>3. \A p : p \in P <=> \E k \in i .. j : Touches(k, side, p)
  BY DEF Touches
<1>4. P \subseteq Prices
  BY <1>1, LogEntries
<1>5. IsFiniteSet(P)
  <2>1. IsFiniteSet(K)
    BY FS_Interval, FS_Subset
  <2>2. f \in Surjection(K, P)
    BY DEF Surjection
  <2> HIDE DEF K, P, f
  <2> QED
    BY <2>1, <2>2, FS_Surjection
<1>6. \A p \in P : \E k \in i .. j : QuantityAfter(side, p, i, j, 0) = log[k].quantity
  BY <1>3, QuantityIs
<1> HIDE DEF P, levels, K, f
<1>7. \A p \in P : levels[p] \in Nat
  BY <1>1, <1>2, <1>6, LogEntries
<1> QED
  BY <1>2, <1>3, <1>4, <1>5, <1>6, <1>7 DEF levels

-----------------------------------------------------------------------------
(* One delivery *)

\* What an update that is neither stale nor a duplicate does to the book.
LEMMA Delivered ==
  ASSUME TypeOK, NEW i \in 1 .. Len(log), NEW j \in 1 .. Len(log), NEW style \in feed.styles,
         Deliver(i, j, style), ~IsStaleOrDuplicate(book, DepthUpdate(i, j, style))
  PROVE  LET update == DepthUpdate(i, j, style)
             last == book.last_final_update_id IN
         /\ book'.bids = TrimBids(ApplyLevels(book.bids, LevelsOf("bid", i, j)))
         /\ book'.asks = TrimAsks(ApplyLevels(book.asks, LevelsOf("ask", i, j)))
         /\ view'.bids = ApplyLevels(view.bids, LevelsOf("bid", i, j))
         /\ view'.asks = ApplyLevels(view.asks, LevelsOf("ask", i, j))
         /\ book'.depth_sequence_gap_count =
              IF HasSequenceGap(book, update) THEN book.depth_sequence_gap_count + 1
              ELSE book.depth_sequence_gap_count
         /\ book'.last_final_update_id =
              IF style = "both" \/ (style = "final" /\ j >= last) THEN j ELSE last
         /\ book' \in [bids : {book'.bids}, asks : {book'.asks},
              last_depth_event_time : Int, last_depth_ingest_time : Int,
              last_first_update_id : Int,
              last_final_update_id : {None} \cup 1 .. Len(log),
              depth_sequence_gap_count : Nat]
<1> DEFINE update == DepthUpdate(i, j, style)
           last == book.last_final_update_id
<1>1. book' = Applied(book, update) /\ j \in Int /\ i \in Int
  BY DEF Deliver, Apply
<1>2. /\ update.bids = LevelsOf("bid", i, j) /\ update.asks = LevelsOf("ask", i, j)
      /\ update.event_time = j /\ update.ingest_time = j
      /\ update.first_update_id = IF style \in {"both", "first"} THEN i ELSE None
      /\ update.final_update_id = IF style \in {"both", "final"} THEN j ELSE None
  BY DEF DepthUpdate
<1>3. view' = [bids |-> ApplyLevels(view.bids, update.bids),
               asks |-> ApplyLevels(view.asks, update.asks)]
  BY DEF Deliver
<1>4. i # None /\ j # None
  BY <1>1 DEF None
<1> HIDE DEF update
<1>5. /\ book'.bids = TrimBids(ApplyLevels(book.bids, update.bids))
      /\ book'.asks = TrimAsks(ApplyLevels(book.asks, update.asks))
      /\ book'.depth_sequence_gap_count =
           IF HasSequenceGap(book, update) THEN book.depth_sequence_gap_count + 1
           ELSE book.depth_sequence_gap_count
      /\ book'.last_depth_event_time = j /\ book'.last_depth_ingest_time = j
  BY <1>1, <1>2 DEF Applied, RecordUpdateIds, TypeOK
<1>6. book'.last_final_update_id =
        IF style = "both" \/ (style = "final" /\ j >= last) THEN j ELSE last
  <2>1. book'.last_final_update_id =
          IF /\ update.final_update_id # None
             /\ \/ update.first_update_id # None /\ update.final_update_id # None
                \/ update.final_update_id >= last
          THEN update.final_update_id ELSE last
    BY <1>1 DEF Applied, RecordUpdateIds, TypeOK
  <2> QED
    BY <1>2, <1>4, <2>1
<1>7. book'.last_first_update_id \in Int
  <2>1. book'.last_first_update_id \in {update.first_update_id, book.last_first_update_id}
    BY <1>1 DEF Applied, RecordUpdateIds, TypeOK
  <2> QED
    BY <1>1, <1>2, <2>1 DEF TypeOK, None
<1>8. book' \in [bids : {book'.bids}, asks : {book'.asks},
        last_depth_event_time : {book'.last_depth_event_time},
        last_depth_ingest_time : {book'.last_depth_ingest_time},
        last_first_update_id : {book'.last_first_update_id},
        last_final_update_id : {book'.last_final_update_id},
        depth_sequence_gap_count : {book'.depth_sequence_gap_count}]
  BY <1>1 DEF Applied, RecordUpdateIds, TypeOK
<1>9. /\ book'.depth_sequence_gap_count \in Nat
      /\ book'.last_final_update_id \in {None} \cup 1 .. Len(log)
  BY <1>5, <1>6 DEF TypeOK
<1>10. book' \in [bids : {book'.bids}, asks : {book'.asks},
         last_depth_event_time : Int, last_depth_ingest_time : Int,
         last_first_update_id : Int,
         last_final_update_id : {None} \cup 1 .. Len(log),
         depth_sequence_gap_count : Nat]
  BY <1>1, <1>5, <1>7, <1>8, <1>9
<1> QED
  BY <1>2, <1>3, <1>5, <1>6, <1>10 DEF update

\* Applying the levels of an update leaves a side of a book.
LEMMA ApplyKeepsSide ==
  ASSUME TypeOK, NEW side, IsSide(side), NEW name,
         NEW i \in 1 .. Len(log), NEW j \in 1 .. Len(log)
  PROVE  IsSide(ApplyLevels(side, LevelsOf(name, i, j)))
<1> DEFINE levels == LevelsOf(name, i, j)
           new == ApplyLevels(side, levels)
<1>1. /\ DOMAIN levels \subseteq Prices /\ IsFiniteSet(DOMAIN levels)
      /\ \A p \in DOMAIN levels : levels[p] \in Nat
  BY LevelsAre
<1>2. /\ DOMAIN side \subseteq Prices /\ IsFiniteSet(DOMAIN side)
      /\ \A p \in DOMAIN side : side[p] \in Nat \ {0}
  BY DEF IsSide
<1> HIDE DEF levels
<1>3. /\ new = [p \in DOMAIN new |-> new[p]]
      /\ \A p : p \in DOMAIN new <=>
           \/ p \in DOMAIN levels /\ levels[p] # 0
           \/ p \in DOMAIN side /\ p \notin DOMAIN levels /\ side[p] # 0
      /\ \A p \in DOMAIN new : new[p] = IF p \in DOMAIN levels THEN levels[p] ELSE side[p]
  BY LevelsApplied
<1>4. IsFiniteSet(DOMAIN side \cup DOMAIN levels)
  BY <1>1, <1>2, FS_Union
<1> HIDE DEF new
<1>5. DOMAIN new \subseteq DOMAIN side \cup DOMAIN levels
  BY <1>3
<1>6. IsFiniteSet(DOMAIN new)
  BY <1>4, <1>5, FS_Subset
<1>7. \A p \in DOMAIN new : new[p] \in Nat \ {0}
  BY <1>1, <1>2, <1>3
<1>8. DOMAIN new \subseteq Prices
  BY <1>1, <1>2, <1>5
<1>9. new \in [DOMAIN new -> Nat \ {0}]
  BY <1>3, <1>7
<1> QED
  BY <1>6, <1>8, <1>9 DEF IsSide, levels, new

\* Trimming leaves a side of a book, with the same quantities and no more levels
\* than configured.
LEMMA TrimKeepsSide ==
  ASSUME TypeOK, NEW side, IsSide(side)
  PROVE  /\ DOMAIN TrimBids(side) \subseteq DOMAIN side
         /\ DOMAIN TrimAsks(side) \subseteq DOMAIN side
         /\ IsSide(TrimBids(side)) /\ IsSide(TrimAsks(side))
         /\ \A p \in DOMAIN TrimBids(side) : TrimBids(side)[p] = side[p]
         /\ \A p \in DOMAIN TrimAsks(side) : TrimAsks(side)[p] = side[p]
         /\ Cardinality(DOMAIN TrimBids(side)) <= Depth
         /\ Cardinality(DOMAIN TrimAsks(side)) <= Depth
<1>1. DOMAIN side \subseteq Int /\ IsFiniteSet(DOMAIN side)
  BY LogEntries DEF IsSide
<1>2. ASSUME NEW S \in SUBSET DOMAIN side
      PROVE  /\ IsSide(Restrict(side, S)) /\ DOMAIN Restrict(side, S) = S
             /\ \A p \in S : Restrict(side, S)[p] = side[p]
  <2>1. IsFiniteSet(S)
    BY <1>1, FS_Subset
  <2> QED
    BY <2>1 DEF IsSide, Restrict
<1>3. /\ First(Higher, DOMAIN side, Depth) \subseteq DOMAIN side
      /\ First(Lower, DOMAIN side, Depth) \subseteq DOMAIN side
  BY DEF First
<1>4. /\ Cardinality(First(Higher, DOMAIN side, Depth)) <= Depth
      /\ Cardinality(First(Lower, DOMAIN side, Depth)) <= Depth
  BY <1>1, FirstAreFew, PriceOrders, DepthType
<1> QED
  BY <1>1, <1>2, <1>3, <1>4, TrimIs

\* The ids an accepted update carries, and those it skips.
LEMMA IdsOf ==
  ASSUME TypeOK, NEW i \in 1 .. Len(log), NEW j \in 1 .. Len(log), NEW style \in feed.styles,
         Deliver(i, j, style), ~IsStaleOrDuplicate(book, DepthUpdate(i, j, style))
  PROVE  LET update == DepthUpdate(i, j, style)
             last == book.last_final_update_id IN
         /\ style = "both" => last = None \/ j > last
         /\ HasSequenceGap(book, update) <=>
              style = "both" /\ last # None /\ i > last + 1
         /\ Skipped(update) =
              IF last = None \/ style \notin {"both", "first"} THEN {}
              ELSE (last + 1) .. (i - 1)
<1> DEFINE update == DepthUpdate(i, j, style)
           last == book.last_final_update_id
<1>1. /\ update.first_update_id = IF style \in {"both", "first"} THEN i ELSE None
      /\ update.final_update_id = IF style \in {"both", "final"} THEN j ELSE None
  BY DEF DepthUpdate
<1>2. /\ Len(log) \in Nat /\ Len(log) <= MaxUpdateId /\ MaxUpdateId \in Nat
      /\ last \in {None} \cup 1 .. Len(log)
  <2>1. Len(log) \in Nat /\ MaxUpdateId \in Nat
    BY LogEntries, OrderBookAssumption
  <2>2. Len(log) <= feed.max_changes /\ feed.max_changes \in Nat
        /\ feed.max_changes <= MaxUpdateId
    BY DepthFeedAssumption DEF TypeOK
  <2>3. last \in {None} \cup 1 .. Len(log)
    BY DEF TypeOK
  <2> QED
    BY <2>1, <2>2, <2>3
<1>3. i # None /\ j # None
  BY DEF None
<1> HIDE DEF update, last
<1>4. style = "both" => last = None \/ j > last
  BY <1>1, <1>2, <1>3 DEF IsStaleOrDuplicate, last, update
<1>5. HasSequenceGap(book, update) <=>
        /\ last # None /\ style = "both"
        /\ last < MaxUpdateId /\ i > last + 1
  BY <1>1, <1>3 DEF HasSequenceGap, last
<1>6. last # None /\ i > last + 1 => last < MaxUpdateId
  BY <1>2
<1>7. Skipped(update) = IF last = None \/ style \notin {"both", "first"} THEN {}
                        ELSE (last + 1) .. (i - 1)
  BY <1>1, <1>3 DEF Skipped, last
<1> QED
  BY <1>4, <1>5, <1>6, <1>7 DEF update, last

\* No step takes a variable out of its domain.
LEMMA NextTypeOK == TypeOK /\ [Next]_vars => TypeOK'
<1> SUFFICES ASSUME TypeOK, [Next]_vars PROVE TypeOK'
  OBVIOUS
<1>1. CASE UNCHANGED vars
  BY <1>1 DEF TypeOK, vars, IsSide
<1>2. ASSUME NEW change \in Changes, ExchangeChange(change)
      PROVE  TypeOK'
  <2>1. Len(log) \in Nat /\ Len(log') \in Nat /\ Len(log) <= Len(log')
        /\ Len(log') <= feed.max_changes
    BY <1>2, LogEntries, LogGrows, DepthFeedAssumption DEF TypeOK, ExchangeChange
  <2>2. 1 .. Len(log) \subseteq 1 .. Len(log')
    BY <2>1
  <2> QED
    BY <1>2, <2>1, <2>2, LogGrows DEF TypeOK, ExchangeChange, IsSide
<1>3. ASSUME NEW i \in 1 .. Len(log), NEW j \in 1 .. Len(log), NEW style \in feed.styles,
             Deliver(i, j, style)
      PROVE  TypeOK'
  <2> DEFINE update == DepthUpdate(i, j, style)
  <2>0. log' = log /\ feed' = feed
    BY <1>3 DEF Deliver
  <2>1. CASE IsStaleOrDuplicate(book, update)
    BY <1>3, <2>0, <2>1 DEF Deliver, Apply, TypeOK, IsSide
  <2>2. CASE ~IsStaleOrDuplicate(book, update)
    <3>1. /\ book'.bids = TrimBids(ApplyLevels(book.bids, LevelsOf("bid", i, j)))
          /\ book'.asks = TrimAsks(ApplyLevels(book.asks, LevelsOf("ask", i, j)))
          /\ view'.bids = ApplyLevels(view.bids, LevelsOf("bid", i, j))
          /\ view'.asks = ApplyLevels(view.asks, LevelsOf("ask", i, j))
      BY <1>3, <2>2, Delivered
    <3>2. IsSide(view'.bids) /\ IsSide(view'.asks)
      BY <3>1, ApplyKeepsSide DEF TypeOK
    <3>3. IsSide(book'.bids) /\ IsSide(book'.asks)
      BY <3>1, ApplyKeepsSide, TrimKeepsSide DEF TypeOK
    <3>4. book' \in [bids : {book'.bids}, asks : {book'.asks},
            last_depth_event_time : Int, last_depth_ingest_time : Int,
            last_first_update_id : Int,
            last_final_update_id : {None} \cup 1 .. Len(log),
            depth_sequence_gap_count : Nat]
      BY <1>3, <2>2, Delivered
    <3>5. Skipped(update) \subseteq Nat /\ IsFiniteSet(Skipped(update))
      <4> DEFINE last == book.last_final_update_id
      <4>1. Skipped(update) = {} \/ (last # None /\ Skipped(update) = (last + 1) .. (i - 1))
        BY <1>3, <2>2, IdsOf
      <4>2. last # None => last + 1 \in Nat /\ i - 1 \in Nat
        BY LogEntries DEF TypeOK
      <4> HIDE DEF last, update
      <4>3. CASE Skipped(update) = {}
        BY <4>3, FS_EmptySet
      <4>4. CASE last # None /\ Skipped(update) = (last + 1) .. (i - 1)
        <5>1. PICK a \in Nat, b \in Nat : a = last + 1 /\ b = i - 1
          BY <4>2, <4>4
        <5>2. IsFiniteSet(a .. b)
          BY FS_Interval
        <5>3. a .. b \subseteq Nat
          OBVIOUS
        <5> QED
          BY <4>4, <5>1, <5>2, <5>3
      <4> QED
        BY <4>1, <4>3, <4>4
    <3>6. missed' \subseteq Nat /\ IsFiniteSet(missed')
      <4>1. missed' = missed \cup Skipped(update)
        BY <1>3, <2>2 DEF Deliver
      <4> HIDE DEF update
      <4> QED
        BY <3>5, <4>1, FS_Union DEF TypeOK
    <3>7. removed' \in BOOLEAN
      BY <1>3, <2>2 DEF Deliver, TypeOK
    <3> QED
      BY <2>0, <3>2, <3>3, <3>4, <3>6, <3>7 DEF TypeOK, IsSide
  <2> QED
    BY <2>1, <2>2
<1> QED
  BY <1>1, <1>2, <1>3 DEF Next

-----------------------------------------------------------------------------
(* The gap counter *)

\* A larger set of missed ids has no fewer of them behind an id.
LEMMA MissedBehind ==
  ASSUME NEW S, NEW T, S \subseteq T, IsFiniteSet(T)
  PROVE  /\ Cardinality(S) <= Cardinality(T)
         /\ Cardinality(S) \in Nat /\ Cardinality(T) \in Nat
         /\ \A x \in T : x \notin S => Cardinality(S) + 1 <= Cardinality(T)
<1>1. /\ Cardinality(S) <= Cardinality(T) /\ IsFiniteSet(S)
      /\ Cardinality(T) = Cardinality(S) => T = S
  BY FS_Subset
<1>2. Cardinality(S) \in Nat /\ Cardinality(T) \in Nat
  BY <1>1, FS_CardinalityType
<1> QED
  BY <1>1, <1>2

\* An accepted update leaves an id behind for each gap it counts.
LEMMA DeliverGaps ==
  ASSUME TypeOK, TypeOK', GapsLeaveIds, GapsAreWitnessed,
         NEW i \in 1 .. Len(log), NEW j \in 1 .. Len(log), NEW style \in feed.styles,
         Deliver(i, j, style), ~IsStaleOrDuplicate(book, DepthUpdate(i, j, style))
  PROVE  GapsLeaveIds' /\ GapsAreWitnessed'
<1> DEFINE update == DepthUpdate(i, j, style)
           gap == HasSequenceGap(book, update)
           last == book.last_final_update_id
           behind == {x \in missed : x <= last}
<1>1. PICK new : new = book'.last_final_update_id
  OBVIOUS
<1> DEFINE behindNew == {x \in missed' : x <= new}
<1>2. /\ style = "both" => last = None \/ j > last
      /\ gap <=> style = "both" /\ last # None /\ i > last + 1
      /\ Skipped(update) = IF last = None \/ style \notin {"both", "first"} THEN {}
                           ELSE (last + 1) .. (i - 1)
  BY IdsOf
<1>3. /\ new = IF style = "both" \/ (style = "final" /\ j >= last) THEN j ELSE last
      /\ book'.depth_sequence_gap_count =
           IF gap THEN book.depth_sequence_gap_count + 1 ELSE book.depth_sequence_gap_count
  BY <1>1, Delivered
<1>4. missed' = missed \cup Skipped(update) /\ i <= j /\ feed' = feed
  BY DEF Deliver
<1>5. /\ Len(log) \in Nat /\ last \in {None} \cup 1 .. Len(log)
      /\ missed \subseteq Nat /\ IsFiniteSet(missed) /\ IsFiniteSet(missed')
      /\ book.depth_sequence_gap_count \in Nat
  BY LogEntries DEF TypeOK
<1>6. /\ book.depth_sequence_gap_count <= Cardinality(behind)
      /\ last = None => missed = {}
  BY DEF GapsLeaveIds
<1> HIDE DEF update, gap
<1>7. last <= new /\ last \in Int /\ new \in Int
  BY <1>2, <1>3, <1>5 DEF None
<1>8. behind \subseteq behindNew /\ behindNew \subseteq missed'
  <2>1. ASSUME NEW x \in missed, x <= last
        PROVE  x \in missed' /\ x <= new
    BY <1>4, <1>5, <1>7, <2>1
  <2> QED
    BY <2>1
<1>9. IsFiniteSet(behindNew)
  BY <1>5, <1>8, FS_Subset
<1>10. gap => last + 1 \in behindNew /\ last + 1 \notin behind
  BY <1>2, <1>3, <1>4, <1>5 DEF None
<1> HIDE DEF behind, behindNew
<1>11. /\ Cardinality(behind) <= Cardinality(behindNew)
       /\ Cardinality(behind) \in Nat /\ Cardinality(behindNew) \in Nat
       /\ gap => Cardinality(behind) + 1 <= Cardinality(behindNew)
  BY <1>8, <1>9, <1>10, MissedBehind
<1>12. book'.depth_sequence_gap_count <= Cardinality(behindNew)
  BY <1>3, <1>5, <1>6, <1>11
<1>13. GapsLeaveIds'
  <2>1. new = None => last = None
    BY <1>3, <1>5 DEF None
  <2>2. last = None => missed' = {}
    BY <1>2, <1>4, <1>6
  <2> QED
    BY <1>1, <1>12, <2>1, <2>2 DEF GapsLeaveIds, behindNew
<1>14. book'.depth_sequence_gap_count <= Cardinality(missed')
  <2>1. /\ Cardinality(behindNew) <= Cardinality(missed')
        /\ Cardinality(missed') \in Nat
    BY <1>5, <1>8, MissedBehind
  <2>2. book'.depth_sequence_gap_count \in Nat
    BY <1>3, <1>5
  <2> QED
    BY <1>11, <1>12, <2>1, <2>2
<1>15. ASSUME feed'.styles = {"both"}
       PROVE  book'.depth_sequence_gap_count = 0 <=> missed' = {}
  <2>1. style = "both" /\ (book.depth_sequence_gap_count = 0 <=> missed = {})
    BY <1>4, <1>15 DEF GapsAreWitnessed
  <2>2. gap => Skipped(update) # {}
    <3>1. gap => last + 1 \in (last + 1) .. (i - 1)
      BY <1>2, <1>7
    <3>2. gap => Skipped(update) = (last + 1) .. (i - 1)
      BY <1>2
    <3> QED
      BY <3>1, <3>2
  <2>3. ~gap => Skipped(update) = {}
    <3>1. ~gap /\ last # None => (last + 1) .. (i - 1) = {}
      BY <1>2, <1>7, <2>1
    <3> QED
      BY <1>2, <3>1
  <2> QED
    <3>1. CASE gap
      <4>1. book'.depth_sequence_gap_count # 0
        BY <1>3, <1>5, <3>1
      <4> QED
        BY <1>4, <2>2, <3>1, <4>1
    <3>2. CASE ~gap
      BY <1>3, <1>4, <2>1, <2>3, <3>2
    <3> QED
      BY <3>1, <3>2
<1> QED
  BY <1>13, <1>14, <1>15 DEF GapsAreWitnessed

-----------------------------------------------------------------------------
(* The levels *)

\* the levels of a side are those of the exchange at the id
Agrees(side, name, id) ==
  \A p \in DOMAIN side : side[p] = QuantityAfter(name, p, 1, id, 0)

\* One side of the book, after an update that follows the last id without a
\* gap: its levels are those the exchange has at the update's last id.
LEMMA DeliverLevels ==
  ASSUME TypeOK, NEW i \in 1 .. Len(log), NEW j \in 1 .. Len(log),
         NEW side, IsSide(side), NEW name, NEW last \in {None} \cup 1 .. Len(log),
         last # None => i <= last + 1 /\ last <= j, Agrees(side, name, last)
  PROVE  Agrees(ApplyLevels(side, LevelsOf(name, i, j)), name, j)
<1> DEFINE levels == LevelsOf(name, i, j)
           new == ApplyLevels(side, levels)
<1> SUFFICES ASSUME NEW p \in DOMAIN new
             PROVE  new[p] = QuantityAfter(name, p, 1, j, 0)
  BY DEF Agrees
<1>1. /\ p \in DOMAIN levels \/ p \in DOMAIN side
      /\ new[p] = IF p \in DOMAIN levels THEN levels[p] ELSE side[p]
  BY LevelsApplied
<1>2. CASE p \in DOMAIN levels
  <2>1. levels[p] = QuantityAfter(name, p, i, j, 0)
    BY <1>2, LevelsAre
  <2>2. PICK k \in i .. j : Touches(k, name, p)
    BY <1>2, LevelsAre
  <2> HIDE DEF levels
  <2>3. QuantityAfter(name, p, i, j, 0) = QuantityAfter(name, p, 1, j, 0)
    BY <2>2, UpdateTellsQuantity
  <2> QED
    BY <1>1, <1>2, <2>1, <2>3 DEF levels
<1>3. CASE p \notin DOMAIN levels
  <2>1. \A k \in i .. j : ~Touches(k, name, p)
    BY <1>3, LevelsAre
  <2>2. p \in DOMAIN side /\ new[p] = side[p]
    BY <1>1, <1>3
  <2>3. last # None
    <3>1. side[p] # 0
      BY <2>2 DEF IsSide
    <3>2. 1 .. -1 = {}
      OBVIOUS
    <3>3. QuantityAfter(name, p, 1, None, 0) = 0
      BY <3>2 DEF QuantityAfter, None
    <3> QED
      BY <2>2, <3>1, <3>3 DEF Agrees
  <2> HIDE DEF levels, new
  <2>4. last \in 1 .. Len(log) /\ i <= last + 1 /\ last <= j
    BY <2>3
  <2>5. QuantityAfter(name, p, 1, j, 0) = QuantityAfter(name, p, 1, last, 0)
    BY <2>1, <2>4, UntouchedKeeps
  <2> QED
    BY <2>2, <2>5 DEF Agrees, new, levels
<1> QED
  BY <1>2, <1>3

\* An accepted update brings no level the exchange does not have.
LEMMA DeliverPhantom ==
  ASSUME TypeOK, NoPhantomLevels,
         NEW i \in 1 .. Len(log), NEW j \in 1 .. Len(log), NEW style \in feed.styles,
         Deliver(i, j, style), ~IsStaleOrDuplicate(book, DepthUpdate(i, j, style))
  PROVE  NoPhantomLevels'
<1> DEFINE update == DepthUpdate(i, j, style)
           gap == HasSequenceGap(book, update)
           last == book.last_final_update_id
           bids == ApplyLevels(book.bids, LevelsOf("bid", i, j))
           asks == ApplyLevels(book.asks, LevelsOf("ask", i, j))
<1>1. feed' = feed /\ log' = log
  BY DEF Deliver
<1>0. \A name, p : QuantityAfter(name, p, 1, book.last_final_update_id, 0)'
                     = QuantityAfter(name, p, 1, book'.last_final_update_id, 0)
  BY <1>1 DEF QuantityAfter, Touches
<1> SUFFICES ASSUME feed.styles = {"both"}, book'.depth_sequence_gap_count = 0
             PROVE  /\ Agrees(book'.bids, "bid", book'.last_final_update_id)
                    /\ Agrees(book'.asks, "ask", book'.last_final_update_id)
  BY <1>0, <1>1 DEF NoPhantomLevels, Agrees
<1>2. /\ book'.last_final_update_id = j
      /\ book'.bids = TrimBids(bids) /\ book'.asks = TrimAsks(asks)
      /\ book'.depth_sequence_gap_count =
           IF gap THEN book.depth_sequence_gap_count + 1 ELSE book.depth_sequence_gap_count
  BY Delivered
<1>3. /\ last = None \/ j > last
      /\ gap <=> last # None /\ i > last + 1
  BY IdsOf
<1>4. /\ last \in {None} \cup 1 .. Len(log) /\ Len(log) \in Nat
      /\ IsSide(book.bids) /\ IsSide(book.asks)
      /\ book.depth_sequence_gap_count \in Nat
  BY LogEntries DEF TypeOK
<1>5. IsSide(bids) /\ IsSide(asks)
  BY <1>4, ApplyKeepsSide
<1> HIDE DEF gap
<1>6. ~gap /\ book.depth_sequence_gap_count = 0
  BY <1>2, <1>4
<1>7. last # None => i <= last + 1 /\ last <= j
  BY <1>3, <1>4, <1>6 DEF None
<1>8. Agrees(book.bids, "bid", last) /\ Agrees(book.asks, "ask", last)
  BY <1>6 DEF NoPhantomLevels, Agrees
<1> HIDE DEF last
<1>9. Agrees(bids, "bid", j)
  BY <1>4, <1>7, <1>8, DeliverLevels
<1>10. Agrees(asks, "ask", j)
  BY <1>4, <1>7, <1>8, DeliverLevels
<1> HIDE DEF bids, asks
<1> QED
  BY <1>2, <1>5, <1>9, <1>10, TrimKeepsSide DEF Agrees

-----------------------------------------------------------------------------
(* Trimming *)

\* The side trimmed once: Best in either order is what trimming keeps.
LEMMA BestIs ==
  ASSUME NEW side, DOMAIN side \subseteq Int
  PROVE  /\ Restrict(side, Best(DOMAIN side, Depth, >)) = TrimBids(side)
         /\ Restrict(side, Best(DOMAIN side, Depth, <)) = TrimAsks(side)
BY DEF Best, TrimBids, TrimAsks

\* A trimmed side to which levels are added, and trimmed again, is the whole
\* side with the levels added, trimmed.
LEMMA TrimLater ==
  ASSUME NEW R, NEW U, IsOrder(R, U), NEW n \in Nat,
         NEW side, DOMAIN side \subseteq U, IsFiniteSet(DOMAIN side),
         \A p \in DOMAIN side : side[p] # 0,
         NEW levels, DOMAIN levels \subseteq U, IsFiniteSet(DOMAIN levels),
         \A p \in DOMAIN levels : levels[p] # 0
  PROVE  LET small == Restrict(side, First(R, DOMAIN side, n))
             later == ApplyLevels(small, levels)
             whole == ApplyLevels(side, levels)
         IN  Restrict(later, First(R, DOMAIN later, n))
               = Restrict(whole, First(R, DOMAIN whole, n))
<1> DEFINE F == First(R, DOMAIN side, n)
           small == Restrict(side, F)
           later == ApplyLevels(small, levels)
           whole == ApplyLevels(side, levels)
<1>1. F \subseteq DOMAIN side
  BY DEF First
<1>2. DOMAIN small = F /\ \A p \in F : small[p] = side[p]
  BY DEF Restrict
<1> HIDE DEF F, small
<1>3. /\ DOMAIN whole = DOMAIN side \cup DOMAIN levels
      /\ \A p \in DOMAIN whole : whole[p] = IF p \in DOMAIN levels THEN levels[p] ELSE side[p]
  <2>1. \A p : p \in DOMAIN whole <=> p \in DOMAIN side \cup DOMAIN levels
    BY LevelsApplied
  <2>2. \A p \in DOMAIN whole : whole[p] = IF p \in DOMAIN levels THEN levels[p] ELSE side[p]
    BY LevelsApplied
  <2> HIDE DEF whole
  <2> QED
    BY <2>1, <2>2
<1>4. /\ DOMAIN later = F \cup DOMAIN levels
      /\ \A p \in DOMAIN later : later[p] = IF p \in DOMAIN levels THEN levels[p] ELSE side[p]
  <2>1. \A p : p \in DOMAIN later <=> p \in F \cup DOMAIN levels
    BY <1>1, <1>2, LevelsApplied
  <2>2. \A p \in DOMAIN later : later[p] = IF p \in DOMAIN levels THEN levels[p] ELSE small[p]
    BY LevelsApplied
  <2> HIDE DEF later
  <2> QED
    BY <1>2, <2>1, <2>2
<1> HIDE DEF later, whole
<1>5. First(R, DOMAIN later, n) = First(R, DOMAIN whole, n)
  BY <1>3, <1>4, FirstOfFirst DEF F
<1>6. /\ First(R, DOMAIN later, n) \subseteq DOMAIN later
      /\ First(R, DOMAIN whole, n) \subseteq DOMAIN whole
  BY DEF First
<1>7. Restrict(later, First(R, DOMAIN later, n)) = Restrict(whole, First(R, DOMAIN whole, n))
  BY <1>3, <1>4, <1>5, <1>6 DEF Restrict
<1> QED
  BY <1>7 DEF F, small, later, whole

\* The same for the sides of the book: TrimBids and TrimAsks.
LEMMA TrimLaterIs ==
  ASSUME TypeOK, NEW side, IsSide(side), NEW levels, DOMAIN levels \subseteq Prices,
         IsFiniteSet(DOMAIN levels), \A p \in DOMAIN levels : levels[p] # 0
  PROVE  /\ TrimBids(ApplyLevels(TrimBids(side), levels)) = TrimBids(ApplyLevels(side, levels))
         /\ TrimAsks(ApplyLevels(TrimAsks(side), levels)) = TrimAsks(ApplyLevels(side, levels))
<1>1. /\ DOMAIN side \subseteq Int /\ IsFiniteSet(DOMAIN side) /\ DOMAIN levels \subseteq Int
      /\ \A p \in DOMAIN side : side[p] # 0
  BY LogEntries DEF IsSide
<1>2. DOMAIN TrimBids(side) \subseteq Int /\ DOMAIN TrimAsks(side) \subseteq Int
  BY <1>1, TrimKeepsSide
<1>3. \A x : DOMAIN x \subseteq Int => DOMAIN ApplyLevels(x, levels) \subseteq Int
  BY <1>1, LevelsApplied
<1>4. PICK U, n : U = Int /\ n = Depth
  OBVIOUS
<1>5. /\ IsOrder(Higher, U) /\ IsOrder(Lower, U) /\ n \in Nat
      /\ DOMAIN side \subseteq U /\ DOMAIN levels \subseteq U
  BY <1>1, <1>4, PriceOrders, DepthType
<1> DEFINE Trim(R, x) == Restrict(x, First(R, DOMAIN x, n))
<1>6. \A x : DOMAIN x \subseteq Int => TrimBids(x) = Trim(Higher, x) /\ TrimAsks(x) = Trim(Lower, x)
  BY <1>4, TrimIs
<1>7. Trim(Higher, ApplyLevels(Trim(Higher, side), levels)) = Trim(Higher, ApplyLevels(side, levels))
  BY <1>1, <1>5, TrimLater
<1>8. Trim(Lower, ApplyLevels(Trim(Lower, side), levels)) = Trim(Lower, ApplyLevels(side, levels))
  BY <1>1, <1>5, TrimLater
<1> HIDE DEF Trim
<1> QED
  BY <1>1, <1>2, <1>3, <1>6, <1>7, <1>8

\* An update without removals has no level of quantity zero.
LEMMA LevelsRemain ==
  ASSUME TypeOK, NEW name, NEW i \in 1 .. Len(log), NEW j \in 1 .. Len(log),
         \A k \in i .. j : log[k].quantity # 0
  PROVE  LET levels == LevelsOf(name, i, j) IN
         /\ DOMAIN levels \subseteq Prices /\ IsFiniteSet(DOMAIN levels)
         /\ \A p \in DOMAIN levels : levels[p] # 0
<1> DEFINE levels == LevelsOf(name, i, j)
<1>1. DOMAIN levels \subseteq Prices /\ IsFiniteSet(DOMAIN levels)
  BY LevelsAre
<1>2. ASSUME NEW p \in DOMAIN levels
      PROVE  levels[p] # 0
  <2>1. levels[p] = QuantityAfter(name, p, i, j, 0)
    BY LevelsAre
  <2>2. PICK x \in i .. j : Touches(x, name, p)
    BY LevelsAre
  <2> HIDE DEF levels
  <2>3. PICK k \in i .. j : QuantityAfter(name, p, i, j, 0) = log[k].quantity
    BY <2>2, QuantityIs
  <2> QED
    BY <2>1, <2>3
<1> HIDE DEF levels
<1> QED
  BY <1>1, <1>2 DEF levels

\* An accepted update keeps the book the trimmed view.
LEMMA DeliverTrimmed ==
  ASSUME TypeOK, TypeOK', TrimmingIsLossless,
         NEW i \in 1 .. Len(log), NEW j \in 1 .. Len(log), NEW style \in feed.styles,
         Deliver(i, j, style), ~IsStaleOrDuplicate(book, DepthUpdate(i, j, style))
  PROVE  TrimmingIsLossless'
<1> DEFINE bids == LevelsOf("bid", i, j)
           asks == LevelsOf("ask", i, j)
<1>1. /\ book'.bids = TrimBids(ApplyLevels(book.bids, bids))
      /\ book'.asks = TrimAsks(ApplyLevels(book.asks, asks))
      /\ view'.bids = ApplyLevels(view.bids, bids)
      /\ view'.asks = ApplyLevels(view.asks, asks)
  BY Delivered
<1>2. /\ Cardinality(DOMAIN book'.bids) <= Depth
      /\ Cardinality(DOMAIN book'.asks) <= Depth
  BY <1>1, ApplyKeepsSide, TrimKeepsSide DEF TypeOK
<1>3. /\ DOMAIN view.bids \subseteq Int /\ DOMAIN view.asks \subseteq Int
      /\ DOMAIN view'.bids \subseteq Int /\ DOMAIN view'.asks \subseteq Int
      /\ IsSide(view.bids) /\ IsSide(view.asks)
  BY LogEntries DEF TypeOK, IsSide
<1>4. ASSUME ~removed'
      PROVE  book'.bids = TrimBids(view'.bids) /\ book'.asks = TrimAsks(view'.asks)
  <2>1. ~removed /\ \A k \in i .. j : log[k].quantity # 0
    BY <1>4 DEF Deliver
  <2>2. book.bids = TrimBids(view.bids) /\ book.asks = TrimAsks(view.asks)
    BY <1>3, <2>1, BestIs DEF TrimmingIsLossless
  <2>3. /\ DOMAIN bids \subseteq Prices /\ IsFiniteSet(DOMAIN bids)
        /\ \A p \in DOMAIN bids : bids[p] # 0
    BY <2>1, LevelsRemain
  <2>4. /\ DOMAIN asks \subseteq Prices /\ IsFiniteSet(DOMAIN asks)
        /\ \A p \in DOMAIN asks : asks[p] # 0
    BY <2>1, LevelsRemain
  <2> HIDE DEF bids, asks
  <2> QED
    BY <1>1, <1>3, <2>2, <2>3, <2>4, TrimLaterIs
<1>5. ASSUME ~removed'
      PROVE  /\ book'.bids = Restrict(view'.bids, Best(DOMAIN view'.bids, Depth, >))
             /\ book'.asks = Restrict(view'.asks, Best(DOMAIN view'.asks, Depth, <))
  BY <1>3, <1>4, <1>5, BestIs
<1> QED
  BY <1>2, <1>5 DEF TrimmingIsLossless, Best

-----------------------------------------------------------------------------
(* The theorems *)

\* The invariant holds of an empty book.
LEMMA InitDepthFeed == Init => DepthFeedInv
<1> SUFFICES ASSUME Init PROVE DepthFeedInv
  OBVIOUS
<1>1. /\ book.bids = <<>> /\ book.asks = <<>> /\ view.bids = <<>> /\ view.asks = <<>>
      /\ book.depth_sequence_gap_count = 0 /\ book.last_final_update_id = None
      /\ missed = {} /\ log = <<>>
  BY DEF Init, NewBook
<1>2. DOMAIN <<>> = {}
  OBVIOUS
<1>3. IsFiniteSet({}) /\ Cardinality({}) = 0
  BY FS_EmptySet
<1>4. IsSide(<<>>)
  BY <1>2, <1>3 DEF IsSide
<1>5. TypeOK
  <2>1. log \in Seq(Changes) /\ Len(log) <= feed.max_changes /\ feed \in Feeds
    BY <1>1, DepthFeedAssumption DEF Init
  <2>2. book \in [bids : {book.bids}, asks : {book.asks},
          last_depth_event_time : Int, last_depth_ingest_time : Int,
          last_first_update_id : Int,
          last_final_update_id : {None} \cup 1 .. Len(log),
          depth_sequence_gap_count : Nat]
    BY <1>1 DEF Init, NewBook, None
  <2> QED
    BY <1>1, <1>3, <1>4, <2>1, <2>2 DEF Init, TypeOK
<1>6. {x \in missed : x <= book.last_final_update_id} = {}
  BY <1>1
<1>7. GapsLeaveIds /\ GapsAreWitnessed /\ NoPhantomLevels
  BY <1>1, <1>2, <1>3, <1>6 DEF GapsLeaveIds, GapsAreWitnessed, NoPhantomLevels
<1>8. TrimmingIsLossless
  <2>1. Cardinality(DOMAIN <<>>) <= Depth
    BY <1>2, <1>3, DepthType
  <2>2. \A S : S \subseteq {} => Restrict(<<>>, S) = <<>>
    BY <1>2 DEF Restrict
  <2>3. Best(DOMAIN <<>>, Depth, >) \subseteq {} /\ Best(DOMAIN <<>>, Depth, <) \subseteq {}
    BY <1>2 DEF Best
  <2> QED
    BY <1>1, <2>1, <2>2, <2>3 DEF TrimmingIsLossless
<1> QED
  BY <1>5, <1>7, <1>8 DEF DepthFeedInv

\* Neither the exchange nor a delivery breaks the invariant.
LEMMA NextDepthFeed == DepthFeedInv /\ [Next]_vars => DepthFeedInv'
<1> SUFFICES ASSUME DepthFeedInv, [Next]_vars PROVE DepthFeedInv'
  OBVIOUS
<1> USE DEF DepthFeedInv
<1>1. TypeOK'
  BY NextTypeOK
<1>2. ASSUME UNCHANGED <<book, feed, missed, view, removed>>,
             \A k \in 1 .. Len(log) : log'[k] = log[k]
      PROVE  DepthFeedInv'
  <2>1. Len(log) \in Nat
        /\ book.last_final_update_id \in {None} \cup 1 .. Len(log)
    BY LogEntries DEF TypeOK
  <2>2. \A k \in 1 .. book.last_final_update_id : log'[k] = log[k]
    BY <1>2, <2>1 DEF None
  <2>3. \A name, p : QuantityAfter(name, p, 1, book.last_final_update_id, 0)'
                       = QuantityAfter(name, p, 1, book.last_final_update_id, 0)
    <3> SUFFICES ASSUME NEW name, NEW p
                 PROVE  QuantityAfter(name, p, 1, book.last_final_update_id, 0)'
                          = QuantityAfter(name, p, 1, book.last_final_update_id, 0)
      OBVIOUS
    <3> DEFINE last == book.last_final_update_id
               touching == {k \in 1 .. last : Touches(k, name, p)}
    <3>1. {k \in 1 .. book'.last_final_update_id : Touches(k, name, p)'} = touching
      BY <1>2, <2>2 DEF Touches
    <3>2. CASE touching = {}
      BY <3>1, <3>2 DEF QuantityAfter
    <3>3. CASE touching # {}
      <4>1. touching \subseteq 1 .. last /\ touching \in SUBSET Int
        BY <2>1 DEF None
      <4>2. IsFiniteSet(1 .. last)
        BY <2>1, FS_Interval DEF None
      <4>3. IsFiniteSet(touching)
        BY <4>1, <4>2, FS_Subset
      <4>4. Max(touching) \in touching
        BY <3>3, <4>1, <4>3, MaxIs
      <4>5. log'[Max(touching)] = log[Max(touching)]
        BY <2>2, <4>1, <4>4
      <4> QED
        BY <3>1, <3>3, <4>5 DEF QuantityAfter
    <3> QED
      BY <3>2, <3>3
  <2>4. NoPhantomLevels'
    BY <1>2, <2>3 DEF NoPhantomLevels
  <2>5. TrimmingIsLossless'
    BY <1>2 DEF TrimmingIsLossless, Best
  <2> QED
    BY <1>1, <1>2, <2>4, <2>5 DEF GapsLeaveIds, GapsAreWitnessed
<1>3. CASE UNCHANGED vars
  BY <1>2, <1>3 DEF vars
<1>4. ASSUME NEW change \in Changes, ExchangeChange(change)
      PROVE  DepthFeedInv'
  BY <1>2, <1>4, LogGrows DEF ExchangeChange
<1>5. ASSUME NEW i \in 1 .. Len(log), NEW j \in 1 .. Len(log), NEW style \in feed.styles,
             Deliver(i, j, style)
      PROVE  DepthFeedInv'
  <2>1. CASE IsStaleOrDuplicate(book, DepthUpdate(i, j, style))
    BY <1>2, <1>5, <2>1 DEF Deliver, Apply
  <2>2. CASE ~IsStaleOrDuplicate(book, DepthUpdate(i, j, style))
    BY <1>1, <1>5, <2>2, DeliverGaps, DeliverPhantom, DeliverTrimmed
  <2> QED
    BY <2>1, <2>2
<1> QED
  BY <1>3, <1>4, <1>5 DEF Next

\* The inductive invariant of the book and its feed holds in every state.
THEOREM DepthFeedInvariant == Spec => []DepthFeedInv
BY InitDepthFeed, NextDepthFeed, PTL DEF Spec

\* Gaps are counted if and only if ids were missed, and never more of them.
THEOREM GapsWitnessed == Spec => []GapsAreWitnessed
<1>1. DepthFeedInv => GapsAreWitnessed
  BY DEF DepthFeedInv
<1> QED
  BY <1>1, DepthFeedInvariant, PTL

\* While no gap is counted, every level of the book is one of the exchange's.
THEOREM LevelsAreReal == Spec => []NoPhantomLevels
<1>1. DepthFeedInv => NoPhantomLevels
  BY DEF DepthFeedInv
<1> QED
  BY <1>1, DepthFeedInvariant, PTL

\* The book never exceeds its depth, and without removals it is what trimming
\* the whole book once would leave.
THEOREM TrimmingLosesNothing == Spec => []TrimmingIsLossless
<1>1. DepthFeedInv => TrimmingIsLossless
  BY DEF DepthFeedInv
<1> QED
  BY <1>1, DepthFeedInvariant, PTL

=============================================================================
