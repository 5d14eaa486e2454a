---------------------- MODULE MarketStateAggregator_proofs ----------------------
(***************************************************************************)
(* Proofs about MarketStateAggregator, for all symbols, all events in any  *)
(* order of their event times, and every number of arrivals.               *)
(***************************************************************************)
EXTENDS MarketStateAggregator, FiniteSetTheorems, SequenceTheorems, TLAPS

-----------------------------------------------------------------------------
(* The fields an event sets *)

\* the fields of a symbol's state and of its market state are there
Shaped(s) ==
  /\ DOMAIN s = DOMAIN NewSymbolState
  /\ DOMAIN s.latest_state = DOMAIN NewMarketState
  /\ DOMAIN s.order_book = DOMAIN NewBook

\* the fields of trades, those of quotes, and the depth of the book are as they were
SameTrade(s, t) ==
  /\ t.latest_trade_event_time = s.latest_trade_event_time
  /\ t.latest_state.last_trade_price = s.latest_state.last_trade_price
SameQuote(s, t) ==
  /\ t.latest_quote_event_time = s.latest_quote_event_time
  /\ t.latest_state.best_bid_price = s.latest_state.best_bid_price
  /\ t.latest_state.best_ask_price = s.latest_state.best_ask_price
  /\ t.latest_state.spread_pct = s.latest_state.spread_pct
Advanced(s, t, event) ==
  t.latest_state.last_event_time = Later2(s.latest_state.last_event_time, event.event_time)

\* A trade that is at least as new as the last is shown; nothing else is touched.
LEMMA TradeSets ==
  ASSUME NEW s, Shaped(s), NEW event
  PROVE  LET t == ApplyTrade(s, event)
             newest == event.event_time >= s.latest_trade_event_time IN
         /\ Shaped(t)
         /\ SameQuote(s, t) /\ t.order_book = s.order_book /\ Advanced(s, t, event)
         /\ newest => /\ t.latest_trade_event_time = event.event_time
                      /\ t.latest_state.last_trade_price = event.price
         /\ ~newest => SameTrade(s, t)
<1> DEFINE t == ApplyTrade(s, event)
           newest == event.event_time >= s.latest_trade_event_time
<1>1. PICK change, count, window :
        t = [s EXCEPT
               !.latest_state = AdvanceTimestamps(
                 [s.latest_state EXCEPT
                    !.last_trade_price = IF newest THEN event.price ELSE @,
                    !.price_change_1m_pct = change,
                    !.trades_per_minute = count], event),
               !.latest_trade_event_time = IF newest THEN event.event_time ELSE @,
               !.trades = window]
  BY DEF ApplyTrade
<1> HIDE DEF t, newest
<1> DEFINE m == AdvanceTimestamps(
                 [s.latest_state EXCEPT
                    !.last_trade_price = IF newest THEN event.price ELSE @,
                    !.price_change_1m_pct = change,
                    !.trades_per_minute = count], event)
<1>2. /\ DOMAIN m = DOMAIN NewMarketState
      /\ m.last_trade_price = IF newest THEN event.price ELSE s.latest_state.last_trade_price
      /\ m.best_bid_price = s.latest_state.best_bid_price
      /\ m.best_ask_price = s.latest_state.best_ask_price
      /\ m.spread_pct = s.latest_state.spread_pct
      /\ m.last_event_time = Later2(s.latest_state.last_event_time, event.event_time)
  BY DEF AdvanceTimestamps, Shaped, NewMarketState
<1> HIDE DEF m
<1>3. /\ DOMAIN t = DOMAIN NewSymbolState
      /\ t.latest_state = m /\ t.order_book = s.order_book
      /\ t.latest_quote_event_time = s.latest_quote_event_time
      /\ t.latest_trade_event_time =
           IF newest THEN event.event_time ELSE s.latest_trade_event_time
  BY <1>1 DEF Shaped, NewSymbolState, m
<1> QED
  BY <1>2, <1>3 DEF Shaped, SameQuote, SameTrade, Advanced, t, newest

\* A quote that is at least as new as the last is shown; nothing else is touched.
LEMMA QuoteSets ==
  ASSUME NEW s, Shaped(s), NEW event
  PROVE  LET t == ApplyQuote(s, event)
             newest == event.event_time >= s.latest_quote_event_time IN
         /\ Shaped(t)
         /\ SameTrade(s, t) /\ t.order_book = s.order_book /\ Advanced(s, t, event)
         /\ newest => /\ t.latest_quote_event_time = event.event_time
                      /\ t.latest_state.best_bid_price = event.bid
                      /\ t.latest_state.best_ask_price = event.ask
                      /\ t.latest_state.spread_pct = SpreadPct(event.bid, event.ask)
         /\ ~newest => SameQuote(s, t)
<1> DEFINE t == ApplyQuote(s, event)
           newest == event.event_time >= s.latest_quote_event_time
           shown == IF newest
                    THEN [s.latest_state EXCEPT
                            !.best_bid_price = event.bid, !.best_ask_price = event.ask,
                            !.spread_pct = SpreadPct(event.bid, event.ask)]
                    ELSE s.latest_state
           m == AdvanceTimestamps(shown, event)
<1>1. t = [s EXCEPT !.latest_state = m,
                    !.latest_quote_event_time = IF newest THEN event.event_time ELSE @]
  BY DEF ApplyQuote
<1> HIDE DEF t, newest
<1>2. /\ DOMAIN shown = DOMAIN NewMarketState
      /\ shown.last_trade_price = s.latest_state.last_trade_price
      /\ shown.last_event_time = s.latest_state.last_event_time
      /\ newest => /\ shown.best_bid_price = event.bid
                   /\ shown.best_ask_price = event.ask
                   /\ shown.spread_pct = SpreadPct(event.bid, event.ask)
      /\ ~newest => shown = s.latest_state
  BY DEF Shaped, NewMarketState
<1> HIDE DEF shown
<1>3. /\ DOMAIN m = DOMAIN NewMarketState
      /\ m.last_trade_price = shown.last_trade_price
      /\ m.best_bid_price = shown.best_bid_price
      /\ m.best_ask_price = shown.best_ask_price
      /\ m.spread_pct = shown.spread_pct
      /\ m.last_event_time = Later2(shown.last_event_time, event.event_time)
  BY <1>2 DEF AdvanceTimestamps, NewMarketState
<1> HIDE DEF m
<1>4. /\ DOMAIN t = DOMAIN NewSymbolState
      /\ t.latest_state = m /\ t.order_book = s.order_book
      /\ t.latest_trade_event_time = s.latest_trade_event_time
      /\ t.latest_quote_event_time =
           IF newest THEN event.event_time ELSE s.latest_quote_event_time
  BY <1>1 DEF Shaped, NewSymbolState
<1> QED
  BY <1>2, <1>3, <1>4 DEF Shaped, SameQuote, SameTrade, Advanced, t, newest

\* A depth update that is accepted moves the book and the time on, one that is
\* not does nothing; trades and quotes are not touched.
LEMMA DepthSets ==
  ASSUME NEW s, Shaped(s), NEW event
  PROVE  LET t == ApplyDepth(s, event)
             stale == IsStaleOrDuplicate(s.order_book, event) IN
         /\ Shaped(t) /\ SameTrade(s, t) /\ SameQuote(s, t)
         /\ stale => t = s
         /\ ~stale => Advanced(s, t, event) /\ t.order_book = Applied(s.order_book, event)
<1> DEFINE t == ApplyDepth(s, event)
           stale == IsStaleOrDuplicate(s.order_book, event)
           book == Applied(s.order_book, event)
           m == AdvanceTimestamps(ShowBook(s.latest_state, book), event)
<1>1. stale => t = s
  BY DEF ApplyDepth
<1>2. ~stale => t = [s EXCEPT !.order_book = book, !.latest_state = m]
  BY DEF ApplyDepth, Apply
<1>3. DOMAIN book = DOMAIN NewBook
  BY DEF Applied, RecordUpdateIds, Shaped
<1> HIDE DEF book, stale, t
<1>4. /\ DOMAIN m = DOMAIN NewMarketState
      /\ m.last_trade_price = s.latest_state.last_trade_price
      /\ m.best_bid_price = s.latest_state.best_bid_price
      /\ m.best_ask_price = s.latest_state.best_ask_price
      /\ m.spread_pct = s.latest_state.spread_pct
      /\ m.last_event_time = Later2(s.latest_state.last_event_time, event.event_time)
  BY DEF AdvanceTimestamps, ShowBook, Shaped, NewMarketState
<1> HIDE DEF m
<1>5. ~stale => /\ DOMAIN t = DOMAIN NewSymbolState
                /\ t.latest_state = m /\ t.order_book = book
                /\ t.latest_trade_event_time = s.latest_trade_event_time
                /\ t.latest_quote_event_time = s.latest_quote_event_time
  BY <1>2 DEF Shaped, NewSymbolState
<1> QED
  BY <1>1, <1>3, <1>4, <1>5 DEF Shaped, SameTrade, SameQuote, Advanced, t, stale, book

-----------------------------------------------------------------------------
(* One arrival *)

\* An event is recorded behind those of its symbol.
LEMMA ArriveGrows ==
  ASSUME TypeOK, NEW symbol \in Symbols, NEW event \in Events, Arrive(symbol, event),
         NEW n, n = Len(arrived[symbol]) + 1
  PROVE  /\ arrived' \in [Symbols -> Seq(Events)]
         /\ n \in Nat
         /\ DOMAIN arrived'[symbol] = DOMAIN arrived[symbol] \cup {n}
         /\ \A i \in DOMAIN arrived[symbol] : i \in Nat /\ i < n
              /\ arrived'[symbol][i] = arrived[symbol][i] /\ arrived[symbol][i] \in Events
         /\ arrived'[symbol][n] = event
         /\ arrived'[symbol] # <<>>
         /\ \A x \in Symbols : x # symbol => arrived'[x] = arrived[x]
<1> DEFINE a == arrived[symbol]
           b == arrived'[symbol]
<1>1. a \in Seq(Events) /\ b = Append(a, event)
  BY DEF TypeOK, Arrive
<1>2. \A x \in Symbols : x # symbol => arrived'[x] = arrived[x]
  BY DEF TypeOK, Arrive
<1>3. arrived' = [arrived EXCEPT ![symbol] = b] /\ arrived \in [Symbols -> Seq(Events)]
  BY DEF TypeOK, Arrive
<1> HIDE DEF a, b
<1>4. /\ b \in Seq(Events) /\ Len(b) = Len(a) + 1 /\ b[Len(a) + 1] = event
      /\ \A i \in 1 .. Len(a) : b[i] = a[i]
  BY <1>1, AppendProperties
<1>5. Len(a) \in Nat /\ DOMAIN a = 1 .. Len(a)
  BY <1>1, LenProperties
<1>6. DOMAIN b = 1 .. (Len(a) + 1)
  BY <1>4, LenProperties
<1>7. \A i \in DOMAIN a : a[i] \in Events
  BY <1>1, <1>5, ElementOfSeq
<1>8. n \in Nat /\ DOMAIN b = DOMAIN a \cup {n} /\ b[n] = event /\ b # <<>>
      /\ \A i \in DOMAIN a : i \in Nat /\ i < n /\ b[i] = a[i]
  BY <1>4, <1>5, <1>6 DEF a
<1>9. arrived' \in [Symbols -> Seq(Events)]
  BY <1>3, <1>4
<1> QED
  BY <1>2, <1>7, <1>8, <1>9 DEF a, b

\* An event sets the state of its symbol only.
LEMMA ArriveSets ==
  ASSUME NEW symbol \in Symbols, NEW event \in Events, Arrive(symbol, event)
  PROVE  /\ SymbolStateOf(symbol)' = ApplyEvent(SymbolStateOf(symbol), event)
         /\ DOMAIN states' = DOMAIN states \cup {symbol}
         /\ \A x \in Symbols : x # symbol => SymbolStateOf(x)' = SymbolStateOf(x)
<1>1. states' = [x \in DOMAIN states \cup {symbol} |->
                   IF x = symbol THEN ApplyEvent(SymbolStateOf(symbol), event)
                                 ELSE states[x]]
  BY DEF Arrive
<1>2. PICK new : new = ApplyEvent(SymbolStateOf(symbol), event)
  OBVIOUS
<1>3. /\ DOMAIN states' = DOMAIN states \cup {symbol} /\ states'[symbol] = new
      /\ \A x \in DOMAIN states : x # symbol => states'[x] = states[x]
  BY <1>1, <1>2
<1> QED
  BY <1>2, <1>3 DEF SymbolStateOf

\* What an event does, by its kind.
LEMMA KindDecides ==
  ASSUME NEW s, NEW event \in Events
  PROVE  /\ event.kind \in {"trade", "quote", "depth"}
         /\ event.kind = "trade" => ApplyEvent(s, event) = ApplyTrade(s, event)
         /\ event.kind = "quote" => ApplyEvent(s, event) = ApplyQuote(s, event)
         /\ event.kind = "depth" => ApplyEvent(s, event) = ApplyDepth(s, event)
BY AggregatorAssumption DEF ApplyEvent

\* The arrivals of a kind, after another.
LEMMA ArrivalsGrow ==
  ASSUME TypeOK, NEW symbol \in Symbols, NEW event \in Events, Arrive(symbol, event),
         NEW n, n = Len(arrived[symbol]) + 1, NEW kind
  PROVE  /\ event.kind = kind => ArrivalsOf(symbol, kind)' = ArrivalsOf(symbol, kind) \cup {n}
         /\ event.kind # kind => ArrivalsOf(symbol, kind)' = ArrivalsOf(symbol, kind)
         /\ ArrivalsOf(symbol, kind) \subseteq DOMAIN arrived[symbol]
         /\ \A i \in DOMAIN arrived[symbol] :
              TimeOf(symbol, i)' = TimeOf(symbol, i) /\ TimeOf(symbol, i) \in Nat
         /\ TimeOf(symbol, n)' = event.event_time /\ event.event_time \in Nat
         /\ \A x \in Symbols : x # symbol =>
              /\ ArrivalsOf(x, kind)' = ArrivalsOf(x, kind)
              /\ \A i : TimeOf(x, i)' = TimeOf(x, i)
<1>1. /\ n \in Nat
      /\ DOMAIN arrived'[symbol] = DOMAIN arrived[symbol] \cup {n}
      /\ \A i \in DOMAIN arrived[symbol] : i \in Nat /\ i < n
           /\ arrived'[symbol][i] = arrived[symbol][i] /\ arrived[symbol][i] \in Events
      /\ arrived'[symbol][n] = event
      /\ \A x \in Symbols : x # symbol => arrived'[x] = arrived[x]
  BY ArriveGrows
<1>2. /\ event.kind = kind => ArrivalsOf(symbol, kind)' = ArrivalsOf(symbol, kind) \cup {n}
      /\ event.kind # kind => ArrivalsOf(symbol, kind)' = ArrivalsOf(symbol, kind)
      /\ ArrivalsOf(symbol, kind) \subseteq DOMAIN arrived[symbol]
      /\ \A x \in Symbols : x # symbol => ArrivalsOf(x, kind)' = ArrivalsOf(x, kind)
  BY <1>1 DEF ArrivalsOf
<1>3. /\ \A i \in DOMAIN arrived[symbol] :
           TimeOf(symbol, i)' = TimeOf(symbol, i) /\ TimeOf(symbol, i) \in Nat
      /\ TimeOf(symbol, n)' = event.event_time /\ event.event_time \in Nat
      /\ \A x \in Symbols : x # symbol => \A i : TimeOf(x, i)' = TimeOf(x, i)
  BY <1>1, AggregatorAssumption DEF TimeOf
<1> QED
  BY <1>2, <1>3

\* No arrival takes a variable out of its domain.
LEMMA NextTypeOK == TypeOK /\ [Next]_vars => TypeOK'
<1> SUFFICES ASSUME TypeOK, [Next]_vars PROVE TypeOK'
  OBVIOUS
<1>1. CASE UNCHANGED vars
  BY <1>1 DEF TypeOK, vars, SymbolStateOf
<1>2. ASSUME NEW symbol \in Symbols, NEW event \in Events, Arrive(symbol, event)
      PROVE  TypeOK'
  <2>1. \A x \in Symbols : Shaped(SymbolStateOf(x))
    BY DEF TypeOK, Shaped
  <2>2. Shaped(ApplyEvent(SymbolStateOf(symbol), event))
    <3>1. PICK s : s = SymbolStateOf(symbol)
      OBVIOUS
    <3>2. Shaped(s)
      BY <2>1, <3>1
    <3>3. Shaped(ApplyTrade(s, event)) /\ Shaped(ApplyQuote(s, event))
          /\ Shaped(ApplyDepth(s, event))
      BY <3>2, TradeSets, QuoteSets, DepthSets
    <3> QED
      BY <3>1, <3>3, KindDecides
  <2>3. /\ arrived' \in [Symbols -> Seq(Events)] /\ arrived'[symbol] # <<>>
        /\ SymbolStateOf(symbol)' = ApplyEvent(SymbolStateOf(symbol), event)
        /\ DOMAIN states' = DOMAIN states \cup {symbol}
        /\ \A x \in Symbols : x # symbol =>
             arrived'[x] = arrived[x] /\ SymbolStateOf(x)' = SymbolStateOf(x)
    BY <1>2, ArriveGrows, ArriveSets
  <2>4. \A x \in Symbols : Shaped(SymbolStateOf(x)')
    BY <2>1, <2>2, <2>3
  <2>5. DOMAIN states' = {x \in Symbols : arrived'[x] # <<>>}
    BY <2>3 DEF TypeOK
  <2> QED
    BY <2>3, <2>4, <2>5 DEF TypeOK, Shaped
<1> QED
  BY <1>1, <1>2 DEF Next

-----------------------------------------------------------------------------
(* The newest trade and quote *)

\* The newest of a kind is still so after an arrival, or the arrival is.
LEMMA NewestGrows ==
  ASSUME TypeOK, NEW symbol \in Symbols, NEW event \in Events, Arrive(symbol, event),
         NEW n, n = Len(arrived[symbol]) + 1, NEW kind
  PROVE  /\ event.kind = kind /\ ArrivalsOf(symbol, kind) = {} => IsNewest(symbol, kind, n)'
         /\ \A i : IsNewest(symbol, kind, i) =>
              /\ i \in ArrivalsOf(symbol, kind) /\ i \in DOMAIN arrived[symbol]
              /\ TimeOf(symbol, i) \in Nat
              /\ event.kind # kind => IsNewest(symbol, kind, i)'
              /\ event.kind = kind /\ event.event_time >= TimeOf(symbol, i) =>
                   IsNewest(symbol, kind, n)'
              /\ event.kind = kind /\ ~(event.event_time >= TimeOf(symbol, i)) =>
                   IsNewest(symbol, kind, i)'
         /\ \A x \in Symbols : x # symbol =>
              \A i : IsNewest(x, kind, i)' <=> IsNewest(x, kind, i)
<1>1. /\ n \in Nat
      /\ \A i \in DOMAIN arrived[symbol] : i \in Nat /\ i < n
  BY ArriveGrows
<1>2. PICK S : S = ArrivalsOf(symbol, kind)
  OBVIOUS
<1>3. /\ event.kind = kind => ArrivalsOf(symbol, kind)' = S \cup {n}
      /\ event.kind # kind => ArrivalsOf(symbol, kind)' = S
      /\ S \subseteq DOMAIN arrived[symbol]
      /\ \A x \in Symbols : x # symbol => ArrivalsOf(x, kind)' = ArrivalsOf(x, kind)
  BY <1>2, ArrivalsGrow
<1>4. /\ \A i \in DOMAIN arrived[symbol] :
           TimeOf(symbol, i)' = TimeOf(symbol, i) /\ TimeOf(symbol, i) \in Nat
      /\ TimeOf(symbol, n)' = event.event_time /\ event.event_time \in Nat
      /\ \A x \in Symbols : x # symbol => \A i : TimeOf(x, i)' = TimeOf(x, i)
  BY ArrivalsGrow
<1>5. event.kind = kind /\ S = {} => IsNewest(symbol, kind, n)'
  BY <1>1, <1>3, <1>4 DEF IsNewest
<1>6. \A x \in Symbols : x # symbol => \A i : IsNewest(x, kind, i)' <=> IsNewest(x, kind, i)
  BY <1>3, <1>4 DEF IsNewest
<1>7. ASSUME NEW i, IsNewest(symbol, kind, i)
      PROVE  /\ i \in S /\ i \in DOMAIN arrived[symbol]
             /\ TimeOf(symbol, i) \in Nat
             /\ event.kind # kind => IsNewest(symbol, kind, i)'
             /\ event.kind = kind /\ event.event_time >= TimeOf(symbol, i) =>
                  IsNewest(symbol, kind, n)'
             /\ event.kind = kind /\ ~(event.event_time >= TimeOf(symbol, i)) =>
                  IsNewest(symbol, kind, i)'
  <2>1. /\ i \in S /\ TimeOf(symbol, i) \in Nat /\ TimeOf(symbol, i)' = TimeOf(symbol, i)
        /\ i \in DOMAIN arrived[symbol]
        /\ \A j \in S :
             \/ TimeOf(symbol, j) < TimeOf(symbol, i)
             \/ TimeOf(symbol, j) = TimeOf(symbol, i) /\ j <= i
    BY <1>2, <1>3, <1>4, <1>7 DEF IsNewest
  <2>2. \A j \in S : TimeOf(symbol, j)' = TimeOf(symbol, j) /\ TimeOf(symbol, j) \in Nat
                     /\ j \in Nat /\ j < n
    BY <1>1, <1>3, <1>4
  <2>3. ASSUME event.kind # kind PROVE IsNewest(symbol, kind, i)'
    BY <1>3, <2>1, <2>2, <2>3 DEF IsNewest
  <2>4. ASSUME event.kind = kind, event.event_time >= TimeOf(symbol, i)
        PROVE  IsNewest(symbol, kind, n)'
    BY <1>1, <1>3, <1>4, <2>1, <2>2, <2>4 DEF IsNewest
  <2>5. ASSUME event.kind = kind, ~(event.event_time >= TimeOf(symbol, i))
        PROVE  IsNewest(symbol, kind, i)'
    BY <1>1, <1>3, <1>4, <2>1, <2>2, <2>5 DEF IsNewest
  <2> QED
    BY <2>1, <2>3, <2>4, <2>5
<1> QED
  BY <1>2, <1>5, <1>6, <1>7

\* the parts of NewestIsRemembered of one symbol
TradeRemembered(symbol, s) ==
  IF ArrivalsOf(symbol, "trade") = {} THEN s.latest_trade_event_time = None
  ELSE \E i \in ArrivalsOf(symbol, "trade") :
         /\ IsNewest(symbol, "trade", i)
         /\ s.latest_trade_event_time = TimeOf(symbol, i)
         /\ s.latest_state.last_trade_price = arrived[symbol][i].price
QuoteRemembered(symbol, s) ==
  IF ArrivalsOf(symbol, "quote") = {} THEN s.latest_quote_event_time = None
  ELSE \E i \in ArrivalsOf(symbol, "quote") :
         LET q == arrived[symbol][i] IN
         /\ IsNewest(symbol, "quote", i)
         /\ s.latest_quote_event_time = q.event_time
         /\ s.latest_state.best_bid_price = q.bid
         /\ s.latest_state.best_ask_price = q.ask
         /\ s.latest_state.spread_pct = SpreadPct(q.bid, q.ask)

\* An arrival keeps the newest trade and quote of every symbol remembered.
LEMMA NextNewest == TypeOK /\ NewestIsRemembered /\ [Next]_vars => NewestIsRemembered'
<1> SUFFICES ASSUME TypeOK, NewestIsRemembered, [Next]_vars PROVE NewestIsRemembered'
  OBVIOUS
<1>1. CASE UNCHANGED vars
  BY <1>1 DEF NewestIsRemembered, vars, SymbolStateOf, ArrivalsOf, IsNewest, TimeOf
<1>2. ASSUME NEW symbol \in Symbols, NEW event \in Events, Arrive(symbol, event)
      PROVE  NewestIsRemembered'
  <2>1. \A x \in Symbols : /\ Shaped(SymbolStateOf(x))
                           /\ TradeRemembered(x, SymbolStateOf(x))
                           /\ QuoteRemembered(x, SymbolStateOf(x))
    BY DEF TypeOK, Shaped, NewestIsRemembered, TradeRemembered, QuoteRemembered
  <2>2. PICK n, s, t : /\ n = Len(arrived[symbol]) + 1
                       /\ s = SymbolStateOf(symbol)
                       /\ t = ApplyEvent(s, event)
    OBVIOUS
  <2>3. /\ t = SymbolStateOf(symbol)'
        /\ \A x \in Symbols : x # symbol => SymbolStateOf(x)' = SymbolStateOf(x)
    BY <1>2, <2>2, ArriveSets
  <2>4. /\ \A i \in DOMAIN arrived[symbol] : arrived'[symbol][i] = arrived[symbol][i]
        /\ arrived'[symbol][n] = event
        /\ \A x \in Symbols : x # symbol => arrived'[x] = arrived[x]
    BY <1>2, <2>2, ArriveGrows
  <2>5. /\ Shaped(s)
        /\ event.kind \in {"trade", "quote", "depth"}
        /\ event.kind = "trade" => t = ApplyTrade(s, event)
        /\ event.kind = "quote" => t = ApplyQuote(s, event)
        /\ event.kind = "depth" => t = ApplyDepth(s, event)
    BY <2>1, <2>2, KindDecides
  <2>6. TradeRemembered(symbol, t)'
    <3> DEFINE S == ArrivalsOf(symbol, "trade")
               newest == event.event_time >= s.latest_trade_event_time
    <3>1. /\ event.kind = "trade" => S' = S \cup {n}
          /\ event.kind # "trade" => S' = S
          /\ \A i \in DOMAIN arrived[symbol] : TimeOf(symbol, i)' = TimeOf(symbol, i)
          /\ TimeOf(symbol, n)' = event.event_time /\ event.event_time \in Nat
      <4>1. PICK kind : kind = "trade" /\ n = Len(arrived[symbol]) + 1
        BY <2>2
      <4>2. /\ event.kind = kind => ArrivalsOf(symbol, kind)' = ArrivalsOf(symbol, kind) \cup {n}
            /\ event.kind # kind => ArrivalsOf(symbol, kind)' = ArrivalsOf(symbol, kind)
            /\ \A i \in DOMAIN arrived[symbol] : TimeOf(symbol, i)' = TimeOf(symbol, i)
            /\ TimeOf(symbol, n)' = event.event_time /\ event.event_time \in Nat
        BY <1>2, <4>1, ArrivalsGrow
      <4> QED
        BY <4>1, <4>2
    <3>2. CASE event.kind # "trade"
      <4>1. SameTrade(s, t)
        <5>1. SameTrade(s, ApplyQuote(s, event)) /\ SameTrade(s, ApplyDepth(s, event))
          BY <2>5, QuoteSets, DepthSets
        <5> QED
          BY <2>5, <3>2, <5>1
      <4>2. CASE S = {}
        BY <2>1, <2>2, <3>1, <3>2, <4>1, <4>2 DEF TradeRemembered, SameTrade
      <4>3. CASE S # {}
        <5>1. PICK i \in S : /\ IsNewest(symbol, "trade", i)
                             /\ s.latest_trade_event_time = TimeOf(symbol, i)
                             /\ s.latest_state.last_trade_price = arrived[symbol][i].price
          BY <2>1, <2>2, <4>3 DEF TradeRemembered
        <5>2. IsNewest(symbol, "trade", i)' /\ i \in DOMAIN arrived[symbol]
          BY <1>2, <2>2, <3>2, <5>1, NewestGrows
        <5> QED
          BY <2>4, <3>1, <3>2, <4>1, <5>1, <5>2 DEF TradeRemembered, SameTrade
      <4> QED
        BY <4>2, <4>3
    <3>3. CASE event.kind = "trade"
      <4>1. /\ newest => /\ t.latest_trade_event_time = event.event_time
                         /\ t.latest_state.last_trade_price = event.price
            /\ ~newest => SameTrade(s, t)
        BY <2>5, <3>3, TradeSets
      <4>2. ASSUME newest, IsNewest(symbol, "trade", n)'
            PROVE  TradeRemembered(symbol, t)'
        BY <2>4, <3>1, <3>3, <4>1, <4>2 DEF TradeRemembered
      <4>3. CASE S = {}
        <5>1. s.latest_trade_event_time = None
          BY <2>1, <2>2, <4>3 DEF TradeRemembered
        <5>2. newest
          BY <3>1, <5>1 DEF None
        <5>3. IsNewest(symbol, "trade", n)'
          BY <1>2, <2>2, <3>3, <4>3, NewestGrows
        <5> QED
          BY <4>2, <5>2, <5>3
      <4>4. CASE S # {}
        <5>1. PICK i \in S : /\ IsNewest(symbol, "trade", i)
                             /\ s.latest_trade_event_time = TimeOf(symbol, i)
                             /\ s.latest_state.last_trade_price = arrived[symbol][i].price
          BY <2>1, <2>2, <4>4 DEF TradeRemembered
        <5>2. /\ newest => IsNewest(symbol, "trade", n)'
              /\ ~newest => IsNewest(symbol, "trade", i)'
              /\ i \in DOMAIN arrived[symbol]
          BY <1>2, <2>2, <3>3, <5>1, NewestGrows
        <5> HIDE DEF newest
        <5>3. CASE ~newest
          BY <2>4, <3>1, <3>3, <4>1, <5>1, <5>2, <5>3 DEF TradeRemembered, SameTrade
        <5> QED
          BY <4>2, <5>2, <5>3
      <4> QED
        BY <4>3, <4>4
    <3> QED
      BY <3>2, <3>3
  <2>7. QuoteRemembered(symbol, t)'
    <3> DEFINE S == ArrivalsOf(symbol, "quote")
               newest == event.event_time >= s.latest_quote_event_time
               Holds(u, q) == /\ u.latest_quote_event_time = q.event_time
                              /\ u.latest_state.best_bid_price = q.bid
                              /\ u.latest_state.best_ask_price = q.ask
                              /\ u.latest_state.spread_pct = SpreadPct(q.bid, q.ask)
    <3>1. /\ event.kind = "quote" => S' = S \cup {n}
          /\ event.kind # "quote" => S' = S
          /\ event.event_time \in Nat
      <4>1. PICK kind : kind = "quote" /\ n = Len(arrived[symbol]) + 1
        BY <2>2
      <4>2. /\ event.kind = kind => ArrivalsOf(symbol, kind)' = ArrivalsOf(symbol, kind) \cup {n}
            /\ event.kind # kind => ArrivalsOf(symbol, kind)' = ArrivalsOf(symbol, kind)
            /\ event.event_time \in Nat
        BY <1>2, <4>1, ArrivalsGrow
      <4> QED
        BY <4>1, <4>2
    <3>2. SameQuote(s, t) => \A q : Holds(s, q) => Holds(t, q)
      BY DEF SameQuote
    <3>3. S # {} => \E i \in S : IsNewest(symbol, "quote", i) /\ Holds(s, arrived[symbol][i])
      BY <2>1, <2>2 DEF QuoteRemembered
    <3>4. ASSUME NEW i \in S', IsNewest(symbol, "quote", i)', Holds(t, arrived'[symbol][i])
          PROVE  QuoteRemembered(symbol, t)'
      BY <3>4 DEF QuoteRemembered
    <3> HIDE DEF Holds
    <3>5. CASE event.kind # "quote"
      <4>1. SameQuote(s, t)
        <5>1. SameQuote(s, ApplyTrade(s, event)) /\ SameQuote(s, ApplyDepth(s, event))
          BY <2>5, TradeSets, DepthSets
        <5> QED
          BY <2>5, <3>5, <5>1
      <4>2. CASE S = {}
        BY <2>1, <2>2, <3>1, <3>5, <4>1, <4>2 DEF QuoteRemembered, SameQuote
      <4>3. CASE S # {}
        <5>1. PICK i \in S : IsNewest(symbol, "quote", i) /\ Holds(s, arrived[symbol][i])
          BY <3>3, <4>3
        <5>2. IsNewest(symbol, "quote", i)' /\ i \in DOMAIN arrived[symbol]
          BY <1>2, <2>2, <3>5, <5>1, NewestGrows
        <5> QED
          BY <2>4, <3>1, <3>2, <3>4, <3>5, <4>1, <5>1, <5>2
      <4> QED
        BY <4>2, <4>3
    <3>6. CASE event.kind = "quote"
      <4>1. /\ newest => Holds(t, event)
            /\ ~newest => SameQuote(s, t)
        BY <2>5, <3>6, QuoteSets DEF Holds
      <4>2. ASSUME newest, IsNewest(symbol, "quote", n)'
            PROVE  QuoteRemembered(symbol, t)'
        BY <2>4, <3>1, <3>4, <3>6, <4>1, <4>2
      <4>3. CASE S = {}
        <5>1. s.latest_quote_event_time = None
          BY <2>1, <2>2, <4>3 DEF QuoteRemembered
        <5>2. newest
          BY <3>1, <5>1 DEF None
        <5>3. IsNewest(symbol, "quote", n)'
          BY <1>2, <2>2, <3>6, <4>3, NewestGrows
        <5> QED
          BY <4>2, <5>2, <5>3
      <4>4. CASE S # {}
        <5>1. PICK i \in S : IsNewest(symbol, "quote", i) /\ Holds(s, arrived[symbol][i])
          BY <3>3, <4>4
        <5>2. s.latest_quote_event_time = TimeOf(symbol, i)
          BY <5>1 DEF Holds, TimeOf
        <5>3. /\ newest => IsNewest(symbol, "quote", n)'
              /\ ~newest => IsNewest(symbol, "quote", i)'
              /\ i \in DOMAIN arrived[symbol]
          BY <1>2, <2>2, <3>6, <5>1, <5>2, NewestGrows
        <5> HIDE DEF newest
        <5>4. CASE ~newest
          BY <2>4, <3>1, <3>2, <3>4, <3>6, <4>1, <5>1, <5>3, <5>4
        <5> QED
          BY <4>2, <5>3, <5>4
      <4> QED
        BY <4>3, <4>4
    <3> QED
      BY <3>5, <3>6
  <2>8. ASSUME NEW x \in Symbols, x # symbol
        PROVE  TradeRemembered(x, SymbolStateOf(x))' /\ QuoteRemembered(x, SymbolStateOf(x))'
    <3>1. \A kind : /\ ArrivalsOf(x, kind)' = ArrivalsOf(x, kind)
                    /\ \A i : IsNewest(x, kind, i)' <=> IsNewest(x, kind, i)
      BY <1>2, <2>2, <2>8, ArrivalsGrow, NewestGrows
    <3>2. \A i : TimeOf(x, i)' = TimeOf(x, i)
      BY <2>4, <2>8 DEF TimeOf
    <3>3. TradeRemembered(x, SymbolStateOf(x))'
      BY <2>1, <2>3, <2>4, <2>8, <3>1, <3>2 DEF TradeRemembered
    <3>4. QuoteRemembered(x, SymbolStateOf(x))'
      BY <2>1, <2>3, <2>4, <2>8, <3>1 DEF QuoteRemembered
    <3> QED
      BY <3>3, <3>4
  <2>9. ASSUME NEW x \in Symbols
        PROVE  TradeRemembered(x, SymbolStateOf(x))' /\ QuoteRemembered(x, SymbolStateOf(x))'
    BY <2>3, <2>6, <2>7, <2>8 DEF TradeRemembered, QuoteRemembered
  <2> QED
    BY <2>9 DEF NewestIsRemembered, TradeRemembered, QuoteRemembered
<1> QED
  BY <1>1, <1>2 DEF Next

-----------------------------------------------------------------------------
(* Freshness *)

\* the parts of FreshnessIsKnown of one symbol
BookKnown(symbol, last) ==
  IF ArrivalsOf(symbol, "depth") = {} THEN last = None
  ELSE \E i \in ArrivalsOf(symbol, "depth") :
         /\ last = arrived[symbol][i].final_update_id
         /\ \A j \in ArrivalsOf(symbol, "depth") : arrived[symbol][j].final_update_id <= last
TimeKnown(symbol, latest) ==
  IF Counted(symbol) = {} THEN latest = None /\ arrived[symbol] = <<>>
  ELSE \E i \in Counted(symbol) :
         /\ latest = TimeOf(symbol, i)
         /\ \A j \in Counted(symbol) : TimeOf(symbol, j) <= latest

\* An accepted update with both ids leaves the book at its final one.
LEMMA AppliedLast ==
  ASSUME NEW book, DOMAIN book = DOMAIN NewBook, NEW event,
         event.first_update_id # None, event.final_update_id # None
  PROVE  Applied(book, event).last_final_update_id = event.final_update_id
BY DEF Applied, RecordUpdateIds, NewBook

\* Of the depth updates of a symbol, after an arrival: the book knows the largest
\* id, and the arrival was dropped exactly if the book calls it stale.
LEMMA DepthKnown ==
  ASSUME TypeOK, DepthIsNumbered, NEW symbol \in Symbols, NEW event \in Events,
         Arrive(symbol, event), NEW n, n = Len(arrived[symbol]) + 1,
         NEW s, s = SymbolStateOf(symbol), Shaped(s), NEW t, t = ApplyEvent(s, event),
         BookKnown(symbol, s.order_book.last_final_update_id)
  PROVE  /\ BookKnown(symbol, t.order_book.last_final_update_id)'
         /\ WasDropped(symbol, n)' <=>
              event.kind = "depth" /\ IsStaleOrDuplicate(s.order_book, event)
         /\ \A i \in DOMAIN arrived[symbol] : WasDropped(symbol, i)' <=> WasDropped(symbol, i)
<1> DEFINE last == s.order_book.last_final_update_id
           Final(i) == arrived[symbol][i].final_update_id
           Final2(i) == arrived'[symbol][i].final_update_id
<1>1. PICK S : S = ArrivalsOf(symbol, "depth")
  OBVIOUS
<1>2. /\ event.kind = "depth" => ArrivalsOf(symbol, "depth")' = S \cup {n}
      /\ event.kind # "depth" => ArrivalsOf(symbol, "depth")' = S
      /\ S \subseteq DOMAIN arrived[symbol]
  <2> HIDE DEF last, Final, Final2
  <2>1. PICK kind : kind = "depth"
    OBVIOUS
  <2>2. /\ event.kind = kind => ArrivalsOf(symbol, kind)' = ArrivalsOf(symbol, kind) \cup {n}
        /\ event.kind # kind => ArrivalsOf(symbol, kind)' = ArrivalsOf(symbol, kind)
        /\ ArrivalsOf(symbol, kind) \subseteq DOMAIN arrived[symbol]
    BY ArrivalsGrow
  <2> QED
    BY <1>1, <2>1, <2>2
<1>3. /\ n \in Nat /\ arrived'[symbol][n] = event
      /\ \A i \in DOMAIN arrived[symbol] : i \in Nat /\ i < n
           /\ arrived'[symbol][i] = arrived[symbol][i] /\ arrived[symbol][i] \in Events
  BY ArriveGrows
<1>4. \A i \in S : Final2(i) = Final(i) /\ Final(i) \in Nat
  BY <1>1, <1>2, <1>3 DEF DepthIsNumbered, ArrivalsOf
<1>5. IF S = {} THEN last = None
      ELSE (\E i \in S : last = Final(i)) /\ (\A j \in S : Final(j) <= last)
  BY <1>1 DEF BookKnown
<1>6. last \in Nat \cup {None} /\ (last = None <=> S = {})
  BY <1>4, <1>5 DEF None
<1>7. Final2(n) = event.final_update_id
  BY <1>3
<1>8. event.kind = "depth" => /\ event.final_update_id \in Nat
                              /\ event.first_update_id # None
                              /\ event.final_update_id # None
  BY DEF DepthIsNumbered, None
<1>9. event.kind = "depth" =>
        (IsStaleOrDuplicate(s.order_book, event) <=> last # None /\ event.final_update_id <= last)
  BY <1>8 DEF IsStaleOrDuplicate
<1>10. \A i \in DOMAIN arrived[symbol] : WasDropped(symbol, i)' <=> WasDropped(symbol, i)
  <2> SUFFICES ASSUME NEW i \in DOMAIN arrived[symbol]
               PROVE  WasDropped(symbol, i)' <=> WasDropped(symbol, i)
    OBVIOUS
  <2>1. \A j \in S \cup {n} : j < i => j \in S
    BY <1>3
  <2>2. \A j \in S : arrived'[symbol][j] = arrived[symbol][j]
    BY <1>2, <1>3
  <2>3. arrived'[symbol][i] = arrived[symbol][i]
    BY <1>3
  <2> QED
    BY <1>1, <1>2, <2>1, <2>2, <2>3 DEF WasDropped
<1>11. WasDropped(symbol, n)' <=>
         event.kind = "depth" /\ \E j \in S : Final(j) >= event.final_update_id
  <2>1. \A j \in S \cup {n} : j < n <=> j \in S
    BY <1>2, <1>3
  <2> QED
    BY <1>2, <1>3, <1>4, <2>1 DEF WasDropped
<1>12. event.kind = "depth" =>
         ((\E j \in S : Final(j) >= event.final_update_id)
            <=> last # None /\ event.final_update_id <= last)
  <2> SUFFICES ASSUME event.kind = "depth"
               PROVE  (\E j \in S : Final(j) >= event.final_update_id)
                        <=> last # None /\ event.final_update_id <= last
    OBVIOUS
  <2> HIDE DEF last, Final
  <2>1. ASSUME NEW j \in S, Final(j) >= event.final_update_id
        PROVE  last # None /\ event.final_update_id <= last
    BY <1>4, <1>5, <1>6, <1>8, <2>1
  <2>2. ASSUME last # None, event.final_update_id <= last
        PROVE  \E j \in S : Final(j) >= event.final_update_id
    BY <1>4, <1>5, <1>6, <1>8, <2>2
  <2> QED
    BY <2>1, <2>2
<1>13. BookKnown(symbol, t.order_book.last_final_update_id)'
  <2> DEFINE new == t.order_book.last_final_update_id
  <2>1. CASE event.kind # "depth"
    <3>1. t.order_book = s.order_book
      <4>1. /\ ApplyTrade(s, event).order_book = s.order_book
            /\ ApplyQuote(s, event).order_book = s.order_book
        BY TradeSets, QuoteSets
      <4>2. t = ApplyTrade(s, event) \/ t = ApplyQuote(s, event)
        BY <2>1, KindDecides
      <4> QED
        BY <4>1, <4>2
    <3> QED
      BY <1>2, <1>4, <1>5, <2>1, <3>1 DEF BookKnown
  <2>2. CASE event.kind = "depth"
    <3>1. t = ApplyDepth(s, event)
      BY <2>2, KindDecides
    <3>2. CASE IsStaleOrDuplicate(s.order_book, event)
      <4>1. new = last
        BY <3>1, <3>2, DepthSets
      <4>2. last # None /\ event.final_update_id <= last
        BY <1>9, <2>2, <3>2
      <4>3. (\E i \in S \cup {n} : last = Final2(i)) /\ (\A j \in S \cup {n} : Final2(j) <= last)
        BY <1>4, <1>5, <1>6, <1>7, <4>2
      <4> QED
        BY <1>2, <2>2, <4>1, <4>3 DEF BookKnown
    <3>3. CASE ~IsStaleOrDuplicate(s.order_book, event)
      <4>1. new = event.final_update_id
        <5>1. t.order_book = Applied(s.order_book, event)
          BY <3>1, <3>3, DepthSets
        <5>2. Applied(s.order_book, event).last_final_update_id = event.final_update_id
          BY <1>8, <2>2, AppliedLast DEF Shaped
        <5> QED
          BY <5>1, <5>2
      <4>2. last = None \/ ~(event.final_update_id <= last)
        BY <1>9, <2>2, <3>3
      <4>3. \A j \in S : Final(j) <= event.final_update_id
        BY <1>4, <1>5, <1>6, <1>8, <2>2, <4>2
      <4>4. \A j \in S \cup {n} : Final2(j) <= new
        BY <1>4, <1>7, <1>8, <2>2, <4>1, <4>3
      <4> QED
        BY <1>2, <1>7, <2>2, <4>1, <4>4 DEF BookKnown
    <3> QED
      BY <3>2, <3>3
  <2> QED
    BY <2>1, <2>2
<1> QED
  BY <1>9, <1>10, <1>11, <1>12, <1>13

\* An arrival keeps the largest id and the latest time of every symbol known.
LEMMA NextFreshness ==
  ASSUME DepthIsNumbered
  PROVE  TypeOK /\ FreshnessIsKnown /\ [Next]_vars => FreshnessIsKnown'
<1> SUFFICES ASSUME TypeOK, FreshnessIsKnown, [Next]_vars PROVE FreshnessIsKnown'
  OBVIOUS
<1>1. CASE UNCHANGED vars
  BY <1>1 DEF FreshnessIsKnown, vars, SymbolStateOf, ArrivalsOf, Counted, WasDropped, TimeOf
<1>2. ASSUME NEW symbol \in Symbols, NEW event \in Events, Arrive(symbol, event)
      PROVE  FreshnessIsKnown'
  <2> DEFINE LastId(x) == SymbolStateOf(x).order_book.last_final_update_id
             Latest(x) == SymbolStateOf(x).latest_state.last_event_time
  <2>1. \A x \in Symbols : /\ Shaped(SymbolStateOf(x))
                           /\ BookKnown(x, LastId(x)) /\ TimeKnown(x, Latest(x))
    BY DEF TypeOK, Shaped, FreshnessIsKnown, BookKnown, TimeKnown
  <2>2. PICK n, s, t : /\ n = Len(arrived[symbol]) + 1
                       /\ s = SymbolStateOf(symbol)
                       /\ t = ApplyEvent(s, event)
    OBVIOUS
  <2>3. /\ t = SymbolStateOf(symbol)'
        /\ \A x \in Symbols : x # symbol => SymbolStateOf(x)' = SymbolStateOf(x)
    BY <1>2, <2>2, ArriveSets
  <2>4. Shaped(s) /\ BookKnown(symbol, s.order_book.last_final_update_id)
        /\ TimeKnown(symbol, s.latest_state.last_event_time)
    BY <2>1, <2>2
  <2>5. /\ BookKnown(symbol, t.order_book.last_final_update_id)'
        /\ WasDropped(symbol, n)' <=>
             event.kind = "depth" /\ IsStaleOrDuplicate(s.order_book, event)
        /\ \A i \in DOMAIN arrived[symbol] : WasDropped(symbol, i)' <=> WasDropped(symbol, i)
    BY <1>2, <2>2, <2>4, DepthKnown
  <2>6. /\ DOMAIN arrived'[symbol] = DOMAIN arrived[symbol] \cup {n}
        /\ n \notin DOMAIN arrived[symbol]
        /\ \A x \in Symbols : x # symbol => arrived'[x] = arrived[x]
    BY <1>2, <2>2, ArriveGrows
  <2>7. /\ \A i \in DOMAIN arrived[symbol] :
             TimeOf(symbol, i)' = TimeOf(symbol, i) /\ TimeOf(symbol, i) \in Nat
        /\ TimeOf(symbol, n)' = event.event_time /\ event.event_time \in Nat
    BY <1>2, <2>2, ArrivalsGrow
  <2>8. TimeKnown(symbol, t.latest_state.last_event_time)'
    <3> DEFINE old == s.latest_state.last_event_time
               new == t.latest_state.last_event_time
               dropped == event.kind = "depth" /\ IsStaleOrDuplicate(s.order_book, event)
    <3>1. PICK C : C = Counted(symbol)
      OBVIOUS
    <3>2. C \subseteq DOMAIN arrived[symbol]
      BY <3>1 DEF Counted
    <3>3. /\ dropped => Counted(symbol)' = C
          /\ ~dropped => Counted(symbol)' = C \cup {n}
      BY <2>5, <2>6, <3>1 DEF Counted
    <3>4. dropped => new = old
      <4>1. event.kind = "depth" => t = ApplyDepth(s, event)
        BY <2>2, KindDecides
      <4> QED
        BY <2>4, <4>1, DepthSets
    <3>5. ~dropped => new = Later2(old, event.event_time)
      <4>1. /\ event.kind \in {"trade", "quote", "depth"}
            /\ event.kind = "trade" => t = ApplyTrade(s, event)
            /\ event.kind = "quote" => t = ApplyQuote(s, event)
            /\ event.kind = "depth" => t = ApplyDepth(s, event)
        BY <2>2, KindDecides
      <4>2. Advanced(s, ApplyTrade(s, event), event) /\ Advanced(s, ApplyQuote(s, event), event)
        BY <2>4, TradeSets, QuoteSets
      <4>3. ~IsStaleOrDuplicate(s.order_book, event) => Advanced(s, ApplyDepth(s, event), event)
        BY <2>4, DepthSets
      <4>4. ~dropped => Advanced(s, t, event)
        BY <4>1, <4>2, <4>3
      <4> QED
        BY <4>4 DEF Advanced
    <3>6. IF C = {} THEN old = None /\ arrived[symbol] = <<>>
          ELSE \E i \in C : old = TimeOf(symbol, i) /\ \A j \in C : TimeOf(symbol, j) <= old
      BY <2>4, <3>1 DEF TimeKnown
    <3>7. old \in Nat \cup {None}
      BY <2>7, <3>2, <3>6
    <3>8. C = {} => ~dropped
      <4>1. C = {} => ArrivalsOf(symbol, "depth") = {}
        BY <3>6 DEF ArrivalsOf
      <4>2. C = {} => s.order_book.last_final_update_id = None
        BY <2>4, <4>1 DEF BookKnown
      <4> QED
        BY <4>2 DEF IsStaleOrDuplicate
    <3> HIDE DEF dropped
    <3>9. CASE dropped
      <4>1. PICK i \in C : old = TimeOf(symbol, i) /\ \A j \in C : TimeOf(symbol, j) <= old
        BY <3>6, <3>8, <3>9
      <4>2. \A j \in C : TimeOf(symbol, j)' = TimeOf(symbol, j)
        BY <2>7, <3>2
      <4> HIDE DEF old, new
      <4>3. new = TimeOf(symbol, i)' /\ \A j \in C : TimeOf(symbol, j)' <= new
        BY <3>4, <3>9, <4>1, <4>2
      <4> QED
        BY <3>3, <3>9, <4>3 DEF TimeKnown, new
    <3>10. CASE ~dropped
      <4>1. \A j \in C : TimeOf(symbol, j)' = TimeOf(symbol, j) /\ TimeOf(symbol, j) \in Nat
        BY <2>7, <3>2
      <4>2. CASE old > event.event_time
        <5>1. C # {} /\ new = old
          BY <2>7, <3>5, <3>6, <3>10, <4>2 DEF Later2, None
        <5>2. PICK i \in C : old = TimeOf(symbol, i) /\ \A j \in C : TimeOf(symbol, j) <= old
          BY <3>6, <5>1
        <5> HIDE DEF old, new
        <5>3. /\ i \in C \cup {n} /\ new = TimeOf(symbol, i)'
              /\ \A j \in C \cup {n} : TimeOf(symbol, j)' <= new
          BY <2>7, <3>7, <4>1, <4>2, <5>1, <5>2 DEF None
        <5> QED
          BY <3>3, <3>10, <5>3 DEF TimeKnown, new
      <4>3. CASE ~(old > event.event_time)
        <5>1. new = event.event_time
          BY <3>5, <3>10, <4>3 DEF Later2
        <5>2. \A j \in C : TimeOf(symbol, j) <= old
          BY <3>6
        <5> HIDE DEF old, new
        <5>3. /\ n \in C \cup {n} /\ new = TimeOf(symbol, n)'
              /\ \A j \in C \cup {n} : TimeOf(symbol, j)' <= new
          BY <2>7, <3>7, <4>1, <4>3, <5>1, <5>2 DEF None
        <5> QED
          BY <3>3, <3>10, <5>3 DEF TimeKnown, new
      <4> QED
        BY <4>2, <4>3
    <3> QED
      BY <3>9, <3>10
  <2>9. ASSUME NEW x \in Symbols, x # symbol
        PROVE  BookKnown(x, LastId(x))' /\ TimeKnown(x, Latest(x))'
    <3>1. arrived'[x] = arrived[x] /\ SymbolStateOf(x)' = SymbolStateOf(x)
      BY <2>3, <2>6, <2>9
    <3>2. ArrivalsOf(x, "depth")' = ArrivalsOf(x, "depth")
      BY <3>1 DEF ArrivalsOf
    <3>3. \A i : TimeOf(x, i)' = TimeOf(x, i) /\ (WasDropped(x, i)' <=> WasDropped(x, i))
      BY <3>1, <3>2 DEF TimeOf, WasDropped
    <3>4. Counted(x)' = Counted(x)
      BY <3>1, <3>3 DEF Counted
    <3>5. BookKnown(x, LastId(x))'
      BY <2>1, <3>1, <3>2 DEF BookKnown
    <3>6. TimeKnown(x, Latest(x))'
      BY <2>1, <3>1, <3>3, <3>4 DEF TimeKnown
    <3> QED
      BY <3>5, <3>6
  <2>10. ASSUME NEW x \in Symbols
         PROVE  BookKnown(x, LastId(x))' /\ TimeKnown(x, Latest(x))'
    BY <2>3, <2>5, <2>8, <2>9 DEF BookKnown, TimeKnown
  <2> QED
    BY <2>10 DEF FreshnessIsKnown, BookKnown, TimeKnown
<1> QED
  BY <1>1, <1>2 DEF Next

-----------------------------------------------------------------------------
(* The theorems *)

\* At the start nothing has arrived.
LEMMA InitAggregator == Init => TypeOK /\ NewestIsRemembered /\ FreshnessIsKnown
<1> SUFFICES ASSUME Init PROVE TypeOK /\ NewestIsRemembered /\ FreshnessIsKnown
  OBVIOUS
<1>1. /\ DOMAIN states = {}
      /\ \A x \in Symbols : arrived[x] = <<>> /\ DOMAIN arrived[x] = {}
      /\ \A x : SymbolStateOf(x) = NewSymbolState
  BY DEF Init, SymbolStateOf
<1>2. \A x \in Symbols : \A kind : ArrivalsOf(x, kind) = {} /\ Counted(x) = {}
  BY <1>1 DEF ArrivalsOf, Counted
<1>3. TypeOK
  BY <1>1 DEF Init, TypeOK, NewSymbolState
<1>4. NewestIsRemembered
  BY <1>1, <1>2 DEF NewestIsRemembered, NewSymbolState
<1>5. FreshnessIsKnown
  BY <1>1, <1>2 DEF FreshnessIsKnown, NewSymbolState, NewBook, NewMarketState
<1> QED
  BY <1>3, <1>4, <1>5

\* Newest chooses the newest arrival.
LEMMA NewestIs ==
  ASSUME TypeOK, NEW symbol \in Symbols, NEW kind, NEW i, IsNewest(symbol, kind, i)
  PROVE  Newest(symbol, ArrivalsOf(symbol, kind)) = i
<1>0. PICK S : S = ArrivalsOf(symbol, kind)
  OBVIOUS
<1> DEFINE Test(x) == \A j \in S :
             \/ TimeOf(symbol, j) < TimeOf(symbol, x)
             \/ TimeOf(symbol, j) = TimeOf(symbol, x) /\ j <= x
<1>1. i \in S /\ Test(i)
  BY <1>0, Zenon DEF IsNewest
<1>2. \A j \in S : j \in Nat /\ TimeOf(symbol, j) \in Nat
  <2>1. arrived[symbol] \in Seq(Events) /\ S \subseteq DOMAIN arrived[symbol]
    BY <1>0 DEF TypeOK, ArrivalsOf
  <2>2. DOMAIN arrived[symbol] = 1 .. Len(arrived[symbol]) /\ Len(arrived[symbol]) \in Nat
    BY <2>1, LenProperties
  <2>3. \A j \in DOMAIN arrived[symbol] : arrived[symbol][j] \in Events
    BY <2>1, <2>2, ElementOfSeq
  <2> QED
    BY <2>1, <2>2, <2>3, AggregatorAssumption DEF TimeOf
<1>3. \A x \in S : Test(x) => x = i
  <2> SUFFICES ASSUME NEW x \in S, Test(x) PROVE x = i
    OBVIOUS
  <2>1. \/ TimeOf(symbol, i) < TimeOf(symbol, x)
        \/ TimeOf(symbol, i) = TimeOf(symbol, x) /\ i <= x
    BY <1>1
  <2>2. \/ TimeOf(symbol, x) < TimeOf(symbol, i)
        \/ TimeOf(symbol, x) = TimeOf(symbol, i) /\ x <= i
    BY <1>1
  <2> QED
    BY <1>1, <1>2, <2>1, <2>2
<1>4. Newest(symbol, S) = CHOOSE x \in S : Test(x)
  BY Zenon DEF Newest
<1> HIDE DEF Test
<1> QED
  BY <1>0, <1>1, <1>3, <1>4

\* What the symbols show of trades and quotes is the newest by event time.
THEOREM NewestShown == Spec => []NewestIsShown
<1>1. TypeOK /\ NewestIsRemembered => NewestIsShown
  <2> SUFFICES ASSUME TypeOK, NewestIsRemembered, NEW symbol \in DOMAIN states
               PROVE  LET m == states[symbol].latest_state
                          trades == ArrivalsOf(symbol, "trade")
                          quotes == ArrivalsOf(symbol, "quote")
                      IN  /\ trades # {} =>
                               m.last_trade_price = arrived[symbol][Newest(symbol, trades)].price
                          /\ quotes # {} =>
                               LET q == arrived[symbol][Newest(symbol, quotes)] IN
                               /\ m.best_bid_price = q.bid
                               /\ m.best_ask_price = q.ask
                               /\ m.spread_pct = SpreadPct(q.bid, q.ask)
    BY DEF NewestIsShown
  <2>1. symbol \in Symbols /\ states[symbol] = SymbolStateOf(symbol)
    BY DEF TypeOK, SymbolStateOf
  <2>2. /\ TradeRemembered(symbol, states[symbol])
        /\ QuoteRemembered(symbol, states[symbol])
    BY <2>1 DEF NewestIsRemembered, TradeRemembered, QuoteRemembered
  <2> QED
    BY <2>1, <2>2, NewestIs DEF TradeRemembered, QuoteRemembered
<1> QED
  BY <1>1, InitAggregator, NextTypeOK, NextNewest, PTL DEF Spec

\* If depth updates carry both ids, last_event_time is the latest time of the
\* arrivals that were not dropped.
THEOREM FreshnessShown ==
  ASSUME DepthIsNumbered
  PROVE  Spec => []FreshnessIsReal
<1>1. TypeOK /\ FreshnessIsKnown => FreshnessIsReal
  <2> SUFFICES ASSUME TypeOK, FreshnessIsKnown, NEW symbol \in DOMAIN states
               PROVE  states[symbol].latest_state.last_event_time
                        = Max({TimeOf(symbol, i) : i \in Counted(symbol)})
    BY DEF FreshnessIsReal
  <2> DEFINE latest == states[symbol].latest_state.last_event_time
             T == {TimeOf(symbol, i) : i \in Counted(symbol)}
  <2>1. /\ symbol \in Symbols /\ states[symbol] = SymbolStateOf(symbol)
        /\ arrived[symbol] # <<>>
    BY DEF TypeOK, SymbolStateOf
  <2>2. TimeKnown(symbol, latest)
    BY <2>1 DEF FreshnessIsKnown, TimeKnown
  <2>3. latest \in T /\ \A x \in T : x <= latest
    BY <2>1, <2>2 DEF TimeKnown
  <2>4. T \subseteq Nat
    <3>1. arrived[symbol] \in Seq(Events) /\ Counted(symbol) \subseteq DOMAIN arrived[symbol]
      BY <2>1 DEF TypeOK, Counted
    <3>2. DOMAIN arrived[symbol] = 1 .. Len(arrived[symbol]) /\ Len(arrived[symbol]) \in Nat
      BY <3>1, LenProperties
    <3>3. \A j \in DOMAIN arrived[symbol] : arrived[symbol][j] \in Events
      BY <3>1, <3>2, ElementOfSeq
    <3> QED
      BY <3>1, <3>3, AggregatorAssumption DEF TimeOf
  <2> HIDE DEF T, latest
  <2>5. \A x \in T : (\A y \in T : x >= y) <=> x = latest
    BY <2>3, <2>4
  <2>6. Max(T) = latest
    BY <2>3, <2>5 DEF Max
  <2> QED
    BY <2>6 DEF T, latest
<1>2. TypeOK /\ FreshnessIsKnown /\ [Next]_vars => FreshnessIsKnown'
  BY NextFreshness
<1> QED
  BY <1>1, <1>2, InitAggregator, NextTypeOK, PTL DEF Spec

-----------------------------------------------------------------------------
(* The window as a sorted list *)

\* A finite set of numbers has a least one: induction over its subsets.
LEMMA LeastExists ==
  ASSUME NEW S \in SUBSET Int, IsFiniteSet(S), S # {}
  PROVE  \E x \in S : \A y \in S : x <= y
<1> DEFINE HasLeast(T) == \E x \in T : \A y \in T : x <= y
           Bad == {T \in SUBSET S : T # {} /\ ~HasLeast(T)}
<1> SUFFICES ASSUME Bad # {} PROVE FALSE
  OBVIOUS
<1>1. FiniteSubsetsOf(S) = SUBSET S
  BY FS_FiniteSubsetsOfFinite
<1>2. IsWellFoundedOn(StrictSubsetOrdering(S), SUBSET S)
  BY <1>1, FS_StrictSubsetOrderingWellFounded
<1>3. Bad \subseteq SUBSET S
  OBVIOUS
<1> HIDE DEF Bad
<1>4. PICK T \in Bad : \A V \in Bad : ~(<<V, T>> \in StrictSubsetOrdering(S))
  BY <1>2, <1>3, WFMin
<1>5. T \in SUBSET S /\ T # {} /\ ~HasLeast(T)
  BY DEF Bad
<1>6. PICK x \in T : TRUE
  BY <1>5
<1>7. T \ {x} \notin Bad
  <2>1. <<T \ {x}, T>> \in StrictSubsetOrdering(S)
    BY <1>5 DEF StrictSubsetOrdering
  <2> QED
    BY <1>4, <2>1
<1>8. x \in Int /\ \A y \in T : y \in Int
  BY <1>5
<1>9. CASE T \ {x} = {}
  BY <1>5, <1>8, <1>9
<1>10. CASE T \ {x} # {}
  <2>1. PICK z \in T \ {x} : \A y \in T \ {x} : z <= y
    BY <1>5, <1>7, <1>10 DEF Bad
  <2>2. \A y \in T : (IF x <= z THEN x ELSE z) <= y
    BY <1>8, <2>1
  <2> QED
    BY <1>5, <2>1, <2>2
<1> QED
  BY <1>9, <1>10

\* Min is the least number of a finite set.
LEMMA MinIs ==
  ASSUME NEW S \in SUBSET Int, IsFiniteSet(S), S # {}
  PROVE  Min(S) \in S /\ \A y \in S : Min(S) <= y
<1>1. PICK x \in S : \A y \in S : x <= y
  BY LeastExists
<1> QED
  BY <1>1 DEF Min

\* what Position makes of the positions at which the test holds
FirstIn(I, n) ==
  LET i == IF I # {} THEN Min(I) ELSE 0 IN IF i = 0 THEN n + 1 ELSE i

\* It is the first of them, or one past the end.
LEMMA FirstInIs ==
  ASSUME NEW n \in Nat, NEW J, J = 1 .. n, NEW I \in SUBSET J
  PROVE  /\ FirstIn(I, n) \in 1 .. n + 1
         /\ \A k \in 1 .. n : k < FirstIn(I, n) => k \notin I
         /\ FirstIn(I, n) <= n => FirstIn(I, n) \in I
<1>1. CASE I = {}
  BY <1>1 DEF FirstIn
<1>2. CASE I # {}
  <2>1. IsFiniteSet(J)
    BY FS_Interval
  <2>2. I \in SUBSET Int
    OBVIOUS
  <2>3. IsFiniteSet(I)
    BY <2>1, FS_Subset
  <2>4. PICK m : m = Min(I)
    OBVIOUS
  <2>5. m \in I /\ \A y \in I : m <= y
    BY <1>2, <2>2, <2>3, <2>4, MinIs
  <2>6. FirstIn(I, n) = IF m = 0 THEN n + 1 ELSE m
    BY <1>2, <2>4 DEF FirstIn
  <2> QED
    BY <2>2, <2>5, <2>6
<1> QED
  BY <1>1, <1>2

\* A sample is inserted behind those that are not younger.
LEMMA InsertIs ==
  ASSUME NEW S, \A x \in S : x.event_time \in Nat,
         NEW samples \in Seq(S), NEW sample \in S
  PROVE  LET inserted == InsertSample(samples, sample) IN
         /\ inserted \in Seq(S) /\ Len(inserted) = Len(samples) + 1
         /\ \E p \in 1 .. Len(samples) + 1 :
              /\ \A k \in 1 .. Len(samples) : k < p =>
                   /\ inserted[k] = samples[k]
                   /\ samples[k].event_time <= sample.event_time
              /\ inserted[p] = sample
              /\ \A k \in 1 .. Len(samples) : k >= p => inserted[k + 1] = samples[k]
              /\ p <= Len(samples) => samples[p].event_time > sample.event_time
<1>1. PICK n, I, inserted :
        /\ n = Len(samples)
        /\ I = {i \in 1 .. n : samples[i].event_time > sample.event_time}
        /\ inserted = InsertSample(samples, sample)
  OBVIOUS
<1>2. n \in Nat /\ \A k \in 1 .. n : samples[k] \in S
  BY <1>1, LenProperties, ElementOfSeq
<1>3. PICK J, p : J = 1 .. n /\ p = FirstIn(I, n)
  OBVIOUS
<1>4. inserted = SubSeq(samples, 1, p - 1) \o <<sample>> \o SubSeq(samples, p, n)
  BY <1>1, <1>3 DEF InsertSample, InsertAt, Position, SelectInSeq, FirstIn
<1>5. /\ p \in 1 .. n + 1
      /\ \A k \in 1 .. n : k < p => k \notin I
      /\ p <= n => p \in I
  <2>1. I \in SUBSET J /\ n \in Nat
    BY <1>1, <1>2, <1>3
  <2> QED
    BY <1>3, <2>1, FirstInIs
<1>6. PICK front, one, back : /\ front = SubSeq(samples, 1, p - 1)
                              /\ one = <<sample>>
                              /\ back = SubSeq(samples, p, n)
  OBVIOUS
<1>7. /\ front \in Seq(S) /\ Len(front) = p - 1
      /\ \A k \in 1 .. p - 1 : front[k] = samples[k]
  BY <1>2, <1>5, <1>6, SubSeqProperties
<1>8. /\ back \in Seq(S) /\ Len(back) = n - p + 1
      /\ \A k \in 1 .. n - p + 1 : back[k] = samples[p + k - 1]
  BY <1>2, <1>5, <1>6, SubSeqProperties
<1>9. one \in Seq(S) /\ Len(one) = 1 /\ one[1] = sample
  BY <1>6
<1>10. PICK both : both = front \o one
  OBVIOUS
<1>11. /\ both \in Seq(S) /\ Len(both) = Len(front) + Len(one)
       /\ \A k \in 1 .. Len(front) + Len(one) :
            both[k] = IF k <= Len(front) THEN front[k] ELSE one[k - Len(front)]
  BY <1>7, <1>9, <1>10, ConcatProperties
<1>12. /\ Len(both) = p
       /\ \A k \in 1 .. p : both[k] = IF k < p THEN samples[k] ELSE sample
  <2>1. Len(front) = p - 1 /\ Len(one) = 1 /\ p \in Nat \ {0}
    BY <1>2, <1>5, <1>7, <1>9
  <2>2. Len(both) = p
    BY <1>11, <2>1
  <2>3. ASSUME NEW k \in 1 .. p PROVE both[k] = IF k < p THEN samples[k] ELSE sample
    <3>1. both[k] = IF k <= p - 1 THEN front[k] ELSE one[k - (p - 1)]
      BY <1>11, <2>1
    <3>2. CASE k < p
      BY <1>7, <2>1, <3>1, <3>2
    <3>3. CASE k = p
      <4>1. k - (p - 1) = 1 /\ ~(k <= p - 1)
        BY <2>1, <3>3
      <4> QED
        BY <1>9, <3>1, <3>3, <4>1
    <3> QED
      BY <2>1, <3>2, <3>3
  <2> QED
    BY <2>2, <2>3
<1>13. inserted = both \o back
  BY <1>4, <1>6, <1>10
<1>14. /\ inserted \in Seq(S) /\ Len(inserted) = Len(both) + Len(back)
       /\ \A k \in 1 .. Len(both) + Len(back) :
            inserted[k] = IF k <= Len(both) THEN both[k] ELSE back[k - Len(both)]
  <2>1. both \in Seq(S) /\ back \in Seq(S)
    BY <1>8, <1>11
  <2> QED
    BY <1>13, <2>1, ConcatProperties
<1>15. Len(inserted) = n + 1
  BY <1>2, <1>5, <1>8, <1>12, <1>14
<1>16. /\ \A k \in 1 .. n : k < p => inserted[k] = samples[k]
       /\ inserted[p] = sample
       /\ \A k \in 1 .. n : k >= p => inserted[k + 1] = samples[k]
  BY <1>2, <1>5, <1>8, <1>12, <1>14
<1>17. /\ \A k \in 1 .. n : k < p => samples[k].event_time <= sample.event_time
       /\ p <= n => samples[p].event_time > sample.event_time
  BY <1>1, <1>2, <1>5
<1> QED
  BY <1>1, <1>5, <1>14, <1>15, <1>16, <1>17

\* The samples that stay are those from the first that is young enough.
LEMMA EvictIs ==
  ASSUME NEW S, \A x \in S : x.event_time \in Nat,
         NEW samples \in Seq(S), NEW cutoff \in Int
  PROVE  LET kept == EvictBefore(samples, cutoff) IN
         /\ kept \in Seq(S)
         /\ \E p \in 1 .. Len(samples) + 1 :
              /\ Len(kept) = Len(samples) - p + 1
              /\ \A k \in 1 .. Len(kept) : kept[k] = samples[p + k - 1]
              /\ \A k \in 1 .. Len(samples) : k < p => samples[k].event_time < cutoff
              /\ p <= Len(samples) => samples[p].event_time >= cutoff
<1>1. PICK n, I, kept : /\ n = Len(samples)
                        /\ I = {i \in 1 .. n : samples[i].event_time >= cutoff}
                        /\ kept = EvictBefore(samples, cutoff)
  OBVIOUS
<1>2. n \in Nat /\ \A k \in 1 .. n : samples[k] \in S
  BY <1>1, LenProperties, ElementOfSeq
<1>3. PICK J, p : J = 1 .. n /\ p = FirstIn(I, n)
  OBVIOUS
<1>4. kept = SubSeq(samples, p, n)
  BY <1>1, <1>3 DEF EvictBefore, Position, SelectInSeq, FirstIn
<1>5. /\ p \in 1 .. n + 1
      /\ \A k \in 1 .. n : k < p => k \notin I
      /\ p <= n => p \in I
  <2>1. I \in SUBSET J /\ n \in Nat
    BY <1>1, <1>2, <1>3
  <2> QED
    BY <1>3, <2>1, FirstInIs
<1>6. /\ kept \in Seq(S) /\ Len(kept) = n - p + 1
      /\ \A k \in 1 .. n - p + 1 : kept[k] = samples[p + k - 1]
  BY <1>2, <1>4, <1>5, SubSeqProperties
<1>7. /\ \A k \in 1 .. n : k < p => samples[k].event_time < cutoff
      /\ p <= n => samples[p].event_time >= cutoff
  BY <1>1, <1>2, <1>5
<1> QED
  BY <1>1, <1>5, <1>6, <1>7

\* A sample that is inserted takes the place of a position behind all others.
LEMMA InsertLists ==
  ASSUME NEW S, \A x \in S : x.event_time \in Nat,
         NEW samples \in Seq(S), NEW W \in SUBSET Nat, NEW n \in Nat,
         \A i \in W : i < n,
         NEW at, \A i \in W \cup {n} : at[i] \in S,
         NEW order \in [1 .. Len(samples) -> W], Lists(order, samples, W, at)
  PROVE  LET inserted == InsertSample(samples, at[n]) IN
         \E list \in [1 .. Len(inserted) -> W \cup {n}] :
           Lists(list, inserted, W \cup {n}, at)
<1>1. PICK inserted, sample, L, D :
        /\ sample = at[n] /\ inserted = InsertSample(samples, sample)
        /\ L = Len(samples) /\ D = 1 .. L
  OBVIOUS
<1>2. /\ L \in Nat /\ sample \in S /\ sample.event_time \in Nat
      /\ \A k \in D : samples[k] = at[order[k]] /\ order[k] \in W
      /\ \A i \in W : i \in Nat /\ i < n /\ at[i].event_time \in Nat
  BY <1>1, LenProperties DEF Lists
<1>3. PICK p \in 1 .. L + 1 :
        /\ Len(inserted) = L + 1
        /\ \A k \in D : k < p =>
             /\ inserted[k] = samples[k]
             /\ samples[k].event_time <= sample.event_time
        /\ inserted[p] = sample
        /\ \A k \in D : k >= p => inserted[k + 1] = samples[k]
        /\ p <= L => samples[p].event_time > sample.event_time
  <2>1. /\ Len(InsertSample(samples, sample)) = Len(samples) + 1
        /\ \E p \in 1 .. Len(samples) + 1 :
              /\ \A k \in 1 .. Len(samples) : k < p =>
                   /\ InsertSample(samples, sample)[k] = samples[k]
                   /\ samples[k].event_time <= sample.event_time
              /\ InsertSample(samples, sample)[p] = sample
              /\ \A k \in 1 .. Len(samples) : k >= p =>
                   InsertSample(samples, sample)[k + 1] = samples[k]
              /\ p <= Len(samples) => samples[p].event_time > sample.event_time
    BY <1>2, InsertIs
  <2> QED
    BY <1>1, <2>1
<1> DEFINE list == [k \in 1 .. L + 1 |->
                      IF k < p THEN order[k] ELSE IF k = p THEN n ELSE order[k - 1]]
<1>4. \A k, l \in D : k < l =>
        \/ at[order[k]].event_time < at[order[l]].event_time
        \/ at[order[k]].event_time = at[order[l]].event_time /\ order[k] < order[l]
  BY <1>1 DEF Lists
<1>5. \A k \in 1 .. L + 1 :
        /\ k < p => k \in D /\ list[k] = order[k]
        /\ k = p => list[k] = n
        /\ k > p => k - 1 \in D /\ list[k] = order[k - 1] /\ inserted[k] = samples[k - 1]
  <2> SUFFICES ASSUME NEW k \in 1 .. L + 1
               PROVE  /\ k < p => k \in D /\ list[k] = order[k]
                      /\ k = p => list[k] = n
                      /\ k > p => /\ k - 1 \in D /\ list[k] = order[k - 1]
                                  /\ inserted[k] = samples[k - 1]
    OBVIOUS
  <2>1. CASE k < p
    BY <1>1, <1>2, <2>1
  <2>2. CASE k = p
    BY <2>2
  <2>3. CASE k > p
    <3>1. k - 1 \in D /\ k - 1 >= p /\ (k - 1) + 1 = k
      BY <1>1, <1>2, <2>3
    <3>2. inserted[(k - 1) + 1] = samples[k - 1]
      BY <1>3, <3>1
    <3> QED
      BY <2>3, <3>1, <3>2
  <2> QED
    BY <2>1, <2>2, <2>3
<1>6. list \in [1 .. L + 1 -> W \cup {n}]
  BY <1>2, <1>5
<1>7. ASSUME NEW i \in W \cup {n} PROVE \E k \in 1 .. L + 1 : list[k] = i
  <2>1. CASE i = n
    BY <1>5, <2>1
  <2>2. CASE i # n
    <3>1. PICK k \in D : order[k] = i
      BY <1>1, <2>2 DEF Lists
    <3>2. CASE k < p
      BY <1>1, <1>2, <3>1, <3>2
    <3>3. CASE k >= p
      <4>1. k + 1 \in 1 .. L + 1 /\ k + 1 > p /\ (k + 1) - 1 = k
        BY <1>1, <1>2, <3>1, <3>3
      <4>2. list[k + 1] = order[k]
        BY <1>5, <4>1
      <4> QED
        BY <3>1, <4>1, <4>2
    <3> QED
      BY <1>1, <1>2, <3>2, <3>3
  <2> QED
    BY <2>1, <2>2
<1>8. ASSUME NEW k \in 1 .. L + 1 PROVE inserted[k] = at[list[k]]
  <2>1. CASE k < p
    BY <1>2, <1>3, <1>5, <2>1
  <2>2. CASE k = p
    BY <1>1, <1>3, <1>5, <2>2
  <2>3. CASE k > p
    BY <1>2, <1>5, <2>3
  <2> QED
    BY <2>1, <2>2, <2>3
<1> HIDE DEF list
<1>9. \A k \in D : k >= p => at[order[k]].event_time > sample.event_time
  <2> SUFFICES ASSUME NEW k \in D, k >= p
               PROVE  at[order[k]].event_time > sample.event_time
    OBVIOUS
  <2>1. p \in D /\ at[order[p]].event_time > sample.event_time
    BY <1>1, <1>2, <1>3
  <2>2. at[order[p]].event_time \in Nat /\ at[order[k]].event_time \in Nat
    BY <1>2, <2>1
  <2>3. CASE k = p
    BY <2>1, <2>3
  <2>4. CASE k > p
    <3>1. at[order[p]].event_time <= at[order[k]].event_time
      <4>1. \/ at[order[p]].event_time < at[order[k]].event_time
            \/ at[order[p]].event_time = at[order[k]].event_time /\ order[p] < order[k]
        BY <1>4, <2>1, <2>4
      <4> QED
        BY <2>2, <4>1
    <3> QED
      BY <1>2, <2>1, <2>2, <3>1
  <2> QED
    BY <1>1, <2>3, <2>4
<1>10. ASSUME NEW k \in 1 .. L + 1, NEW l \in 1 .. L + 1, k < l
       PROVE  \/ at[list[k]].event_time < at[list[l]].event_time
              \/ at[list[k]].event_time = at[list[l]].event_time /\ list[k] < list[l]
  <2>1. CASE l < p
    <3>1. k < p
      BY <1>10, <2>1
    <3> QED
      BY <1>4, <1>5, <1>10, <2>1, <3>1
  <2>2. CASE l = p
    <3>1. k < p
      BY <1>10, <2>2
    <3>2. k \in D /\ list[k] = order[k] /\ list[l] = n
      BY <1>5, <2>2, <3>1
    <3>3. at[order[k]].event_time <= at[n].event_time /\ order[k] < n
      BY <1>1, <1>2, <1>3, <3>1, <3>2
    <3> QED
      BY <1>1, <1>2, <3>2, <3>3
  <2>3. CASE l > p /\ k = p
    BY <1>1, <1>5, <1>9, <1>10, <2>3
  <2>4. CASE l > p /\ k < p
    <3>1. k \in D /\ l - 1 \in D /\ k < l - 1 /\ list[k] = order[k] /\ list[l] = order[l - 1]
      BY <1>5, <2>4
    <3> QED
      BY <1>4, <3>1
  <2>5. CASE l > p /\ k > p
    <3>1. k - 1 \in D /\ l - 1 \in D /\ k - 1 < l - 1 /\ list[k] = order[k - 1]
          /\ list[l] = order[l - 1]
      BY <1>5, <1>10, <2>5
    <3> QED
      BY <1>4, <3>1
  <2> QED
    BY <2>1, <2>2, <2>3, <2>4, <2>5
<1>11. list \in [1 .. Len(inserted) -> W \cup {n}] /\ Lists(list, inserted, W \cup {n}, at)
  BY <1>3, <1>6, <1>7, <1>8, <1>10 DEF Lists
<1> QED
  BY <1>1, <1>11

\* The samples that stay are those of the positions that are young enough.
LEMMA EvictLists ==
  ASSUME NEW S, \A x \in S : x.event_time \in Nat,
         NEW samples \in Seq(S), NEW W \in SUBSET Nat, NEW cutoff \in Int,
         NEW at, \A i \in W : at[i] \in S,
         NEW order \in [1 .. Len(samples) -> W], Lists(order, samples, W, at),
         NEW V, V = {i \in W : at[i].event_time >= cutoff}
  PROVE  LET kept == EvictBefore(samples, cutoff) IN
         \E list \in [1 .. Len(kept) -> V] : Lists(list, kept, V, at)
<1>1. PICK kept, L, D : /\ kept = EvictBefore(samples, cutoff)
                        /\ L = Len(samples) /\ D = 1 .. L
  OBVIOUS
<1>2. /\ L \in Nat
      /\ \A k \in D : samples[k] = at[order[k]] /\ order[k] \in W
      /\ \A i \in W : i \in Nat /\ at[i].event_time \in Nat
  BY <1>1, LenProperties DEF Lists
<1>3. PICK p \in 1 .. L + 1 :
        /\ Len(kept) = L - p + 1
        /\ \A k \in 1 .. Len(kept) : kept[k] = samples[p + k - 1]
        /\ \A k \in D : k < p => samples[k].event_time < cutoff
        /\ p <= L => samples[p].event_time >= cutoff
  BY <1>1, EvictIs
<1> DEFINE list == [k \in 1 .. Len(kept) |-> order[p + k - 1]]
<1>4. \A k, l \in D : k < l =>
        \/ at[order[k]].event_time < at[order[l]].event_time
        \/ at[order[k]].event_time = at[order[l]].event_time /\ order[k] < order[l]
  BY <1>1 DEF Lists
<1>5. \A k \in 1 .. Len(kept) : p + k - 1 \in D /\ list[k] = order[p + k - 1]
  BY <1>1, <1>2, <1>3
<1>6. \A k \in D : at[order[k]].event_time >= cutoff <=> k >= p
  <2> SUFFICES ASSUME NEW k \in D
               PROVE  at[order[k]].event_time >= cutoff <=> k >= p
    OBVIOUS
  <2>1. CASE k < p
    BY <1>1, <1>2, <1>3, <2>1
  <2>2. CASE k = p
    BY <1>1, <1>2, <1>3, <2>2
  <2>3. CASE k > p
    <3>1. p \in D /\ at[order[p]].event_time >= cutoff
      BY <1>1, <1>2, <1>3, <2>3
    <3>2. \/ at[order[p]].event_time < at[order[k]].event_time
          \/ at[order[p]].event_time = at[order[k]].event_time /\ order[p] < order[k]
      BY <1>4, <2>3, <3>1
    <3>3. at[order[p]].event_time \in Nat /\ at[order[k]].event_time \in Nat
      BY <1>2, <3>1
    <3> QED
      BY <2>3, <3>1, <3>2, <3>3
  <2> QED
    BY <1>1, <2>1, <2>2, <2>3
<1>7. list \in [1 .. Len(kept) -> V]
  <2>1. \A k \in 1 .. Len(kept) : order[p + k - 1] \in V
    BY <1>1, <1>2, <1>3, <1>5, <1>6
  <2> QED
    BY <2>1
<1>8. ASSUME NEW i \in V PROVE \E k \in 1 .. Len(kept) : list[k] = i
  <2>1. PICK k \in D : order[k] = i
    BY <1>1 DEF Lists
  <2>2. k >= p
    BY <1>1, <1>6, <2>1
  <2>3. k - p + 1 \in 1 .. Len(kept) /\ p + (k - p + 1) - 1 = k
    BY <1>1, <1>2, <1>3, <2>1, <2>2
  <2>4. list[k - p + 1] = order[p + (k - p + 1) - 1]
    BY <1>5, <2>3
  <2> QED
    BY <2>1, <2>3, <2>4
<1> HIDE DEF list
<1>9. ASSUME NEW k \in 1 .. Len(kept) PROVE kept[k] = at[list[k]]
  BY <1>2, <1>3, <1>5
<1>10. ASSUME NEW k \in 1 .. Len(kept), NEW l \in 1 .. Len(kept), k < l
       PROVE  \/ at[list[k]].event_time < at[list[l]].event_time
              \/ at[list[k]].event_time = at[list[l]].event_time /\ list[k] < list[l]
  <2>1. PICK a, b : a = p + k - 1 /\ b = p + l - 1
    OBVIOUS
  <2>2. a < b
    BY <1>10, <2>1
  <2>3. a \in D /\ b \in D /\ list[k] = order[a] /\ list[l] = order[b]
    BY <1>5, <2>1
  <2> QED
    BY <1>4, <2>2, <2>3
<1>11. Lists(list, kept, V, at)
  BY <1>7, <1>8, <1>9, <1>10 DEF Lists
<1> QED
  BY <1>1, <1>7, <1>11

-----------------------------------------------------------------------------
(* The last minute of the trades *)

\* the window and the signals computed from it are as they were
SameWindow(s, t) ==
  /\ t.trades = s.trades
  /\ t.latest_state.trades_per_minute = s.latest_state.trades_per_minute
  /\ t.latest_state.price_change_1m_pct = s.latest_state.price_change_1m_pct

\* A trade goes into the window and sets the signals; quotes and depth updates

\* do not touch them.
LEMMA WindowSets ==
  ASSUME NEW s, Shaped(s), NEW event
  PROVE  LET t == ApplyTrade(s, event) IN
         /\ t.trades = Push(s.trades, Sample(event))
         /\ t.latest_state.trades_per_minute = Len(t.trades.samples)
         /\ t.latest_state.price_change_1m_pct = PriceChange(t.trades.samples)
         /\ SameWindow(s, ApplyQuote(s, event))
         /\ SameWindow(s, ApplyDepth(s, event))
<1>1. PICK window, newest : /\ window = Push(s.trades, Sample(event))
                            /\ newest = (event.event_time >= s.latest_trade_event_time)
  OBVIOUS
<1>2. PICK t : t = ApplyTrade(s, event)
  OBVIOUS
<1>3. /\ t.trades = window
      /\ t.latest_state.trades_per_minute = Len(window.samples)
      /\ t.latest_state.price_change_1m_pct = PriceChange(window.samples)
  <2>1. PICK price, time, change :
          change = PriceChange(window.samples)
          /\ t = [s EXCEPT
                   !.latest_state = AdvanceTimestamps(
                     [s.latest_state EXCEPT
                        !.last_trade_price = price,
                        !.price_change_1m_pct = change,
                        !.trades_per_minute = Len(window.samples)], event),
                   !.latest_trade_event_time = time,
                   !.trades = window]
    BY <1>1, <1>2 DEF ApplyTrade, Sample
  <2> QED
    BY <2>1 DEF AdvanceTimestamps, Shaped, NewSymbolState, NewMarketState
<1>4. SameWindow(s, ApplyQuote(s, event))
  BY DEF SameWindow, ApplyQuote, AdvanceTimestamps, Shaped, NewSymbolState, NewMarketState
<1>5. SameWindow(s, ApplyDepth(s, event))
  <2>1. CASE IsStaleOrDuplicate(s.order_book, event)
    BY <2>1 DEF SameWindow, ApplyDepth
  <2>2. CASE ~IsStaleOrDuplicate(s.order_book, event)
    <3>1. PICK book : book = Apply(s.order_book, event)
      OBVIOUS
    <3> DEFINE m == AdvanceTimestamps(ShowBook(s.latest_state, book), event)
    <3>2. ApplyDepth(s, event) = [s EXCEPT !.order_book = book, !.latest_state = m]
      BY <2>2, <3>1 DEF ApplyDepth
    <3>3. /\ m.trades_per_minute = s.latest_state.trades_per_minute
          /\ m.price_change_1m_pct = s.latest_state.price_change_1m_pct
      BY DEF AdvanceTimestamps, ShowBook, Shaped, NewMarketState
    <3> HIDE DEF m
    <3> QED
      BY <3>2, <3>3 DEF SameWindow, Shaped, NewSymbolState
  <2> QED
    BY <2>1, <2>2
<1> QED
  BY <1>1, <1>2, <1>3, <1>4, <1>5

\* A trade that is pushed leaves the window with the last minute.
LEMMA PushKeepsLastMinute ==
  ASSUME NEW s, NEW t, NEW T \in SUBSET Nat, NEW n \in Nat, \A i \in T : i < n,
         NEW at \in [T -> Samples], NEW at2 \in [T \cup {n} -> Samples],
         \A i \in T : at2[i] = at[i],
         HasLastMinute(s, T, at),
         t.trades = Push(s.trades, at2[n]),
         t.latest_state.trades_per_minute = Len(t.trades.samples),
         t.latest_state.price_change_1m_pct = PriceChange(t.trades.samples)
  PROVE  HasLastMinute(t, T \cup {n}, at2)
<1>1. PICK S : S = Samples
  OBVIOUS
<1>2. /\ \A x \in S : x.event_time \in Nat
      /\ WindowSize \in Nat
      /\ \A i \in T \cup {n} : at2[i] \in S /\ at2[i].event_time \in Nat
  <2>1. \A x \in S : x.event_time \in Nat
    BY <1>1, AggregatorAssumption DEF Samples, Sample
  <2> QED
    BY <1>1, <2>1, TradeWindowAssumption
<1>3. PICK samples, time : samples = s.trades.samples /\ time = at2[n].event_time
  OBVIOUS
<1>4. \E latest \in Nat, cut \in Int :
        /\ latest \in {at2[i].event_time : i \in T \cup {n}}
        /\ \A i \in T \cup {n} : at2[i].event_time <= latest
        /\ Later(s.trades.latest_event_time, time) = {latest}
        /\ cut <= latest - WindowSize
        /\ samples \in Seq(S)
        /\ LET W == {i \in T : at2[i].event_time >= cut} IN
           \E order \in [1 .. Len(samples) -> W] : Lists(order, samples, W, at2)
  <2>1. CASE T = {}
    <3>1. samples = <<>> /\ s.trades.latest_event_time = {}
      BY <1>3, <2>1 DEF HasLastMinute, NewWindow
    <3>2. Later(s.trades.latest_event_time, time) = {time} /\ time \in Nat
      BY <1>2, <1>3, <3>1 DEF Later
    <3>3. PICK cut, W, order : /\ cut = time - WindowSize
                               /\ W = {i \in T : at2[i].event_time >= cut}
                               /\ order = [k \in 1 .. Len(samples) |-> n]
      OBVIOUS
    <3>4. samples \in Seq(S) /\ Len(samples) = 0 /\ W = {}
      BY <2>1, <3>1, <3>3
    <3>5. order \in [1 .. Len(samples) -> W] /\ Lists(order, samples, W, at2)
      BY <3>3, <3>4 DEF Lists
    <3>6. \A i \in T \cup {n} : at2[i].event_time <= time
      BY <1>2, <1>3, <2>1
    <3>7. cut \in Int /\ cut <= time - WindowSize
      BY <1>2, <3>2, <3>3
    <3>8. time \in {at2[i].event_time : i \in T \cup {n}}
      BY <1>3
    <3>9. LET W1 == {i \in T : at2[i].event_time >= cut} IN
          \E o \in [1 .. Len(samples) -> W1] : Lists(o, samples, W1, at2)
      BY <3>3, <3>5
    <3> QED
      BY <3>2, <3>4, <3>6, <3>7, <3>8, <3>9
  <2>2. CASE T # {}
    <3>1. PICK old \in {at[i].event_time : i \in T} :
            /\ \A i \in T : at[i].event_time <= old
            /\ s.trades.latest_event_time = {old}
            /\ samples \in Seq(S)
            /\ LET W == {i \in T : at[i].event_time >= old - WindowSize} IN
               \E order \in [1 .. Len(samples) -> W] : Lists(order, samples, W, at)
      BY <1>1, <1>3, <2>2 DEF HasLastMinute
    <3>2. old \in Nat /\ old \in {at2[i].event_time : i \in T \cup {n}} /\ time \in Nat
      BY <1>2, <1>3
    <3>3. PICK latest : latest = IF old > time THEN old ELSE time
      OBVIOUS
    <3>4. Later(s.trades.latest_event_time, time) = {latest}
      BY <3>1, <3>2, <3>3 DEF Later
    <3>5. /\ latest \in Nat /\ latest \in {at2[i].event_time : i \in T \cup {n}}
          /\ old <= latest /\ time <= latest
      BY <1>3, <3>2, <3>3
    <3>6. \A i \in T \cup {n} : at2[i].event_time <= latest
      BY <1>2, <1>3, <3>1, <3>2, <3>5
    <3>7. PICK cut, W, W2 : /\ cut = old - WindowSize
                            /\ W = {i \in T : at[i].event_time >= cut}
                            /\ W2 = {i \in T : at2[i].event_time >= cut}
      OBVIOUS
    <3>8. W2 = W
      BY <3>7
    <3>9. PICK order \in [1 .. Len(samples) -> W] : Lists(order, samples, W, at)
      BY <3>1, <3>7
    <3>10. \A k \in 1 .. Len(samples) : order[k] \in W /\ at2[order[k]] = at[order[k]]
      BY <3>7, <3>9
    <3>11. Lists(order, samples, W2, at2)
      BY <3>8, <3>9, <3>10 DEF Lists
    <3>12. cut \in Int /\ cut <= latest - WindowSize
      BY <1>2, <3>2, <3>5, <3>7
    <3> QED
      BY <3>1, <3>4, <3>5, <3>6, <3>7, <3>8, <3>9, <3>11, <3>12
  <2> QED
    BY <2>1, <2>2
<1>5. PICK latest \in Nat, cut \in Int :
        /\ latest \in {at2[i].event_time : i \in T \cup {n}}
        /\ \A i \in T \cup {n} : at2[i].event_time <= latest
        /\ Later(s.trades.latest_event_time, time) = {latest}
        /\ cut <= latest - WindowSize
        /\ samples \in Seq(S)
        /\ LET W == {i \in T : at2[i].event_time >= cut} IN
           \E order \in [1 .. Len(samples) -> W] : Lists(order, samples, W, at2)
  BY <1>4
<1>6. PICK cutoff, W : cutoff = latest - WindowSize /\ W = {i \in T : at2[i].event_time >= cut}
  OBVIOUS
<1>7. PICK W2 : W2 = W \cup {n}
  OBVIOUS
<1>8. PICK V : V = {i \in W2 : at2[i].event_time >= cutoff}
  OBVIOUS
<1>9. PICK order \in [1 .. Len(samples) -> W] : Lists(order, samples, W, at2)
  BY <1>5, <1>6
<1>10. PICK inserted, kept : /\ inserted = InsertSample(samples, at2[n])
                             /\ kept = EvictBefore(inserted, cutoff)
  OBVIOUS
<1>11. /\ W \in SUBSET Nat /\ \A i \in W : i < n /\ at2[i] \in S
       /\ W2 \in SUBSET Nat /\ \A i \in W2 : at2[i] \in S
       /\ cutoff \in Int /\ samples \in Seq(S)
  <2>1. cutoff \in Int /\ samples \in Seq(S)
    BY <1>2, <1>5, <1>6
  <2>2. W \subseteq T /\ W2 \subseteq T \cup {n}
    BY <1>6, <1>7
  <2> QED
    BY <1>2, <2>1, <2>2
<1>12. inserted \in Seq(S)
  BY <1>2, <1>10, <1>11, InsertIs
<1>13. PICK list \in [1 .. Len(inserted) -> W2] : Lists(list, inserted, W2, at2)
  <2>1. \E list \in [1 .. Len(InsertSample(samples, at2[n])) -> W \cup {n}] :
          Lists(list, InsertSample(samples, at2[n]), W \cup {n}, at2)
    <3>1. \A i \in W \cup {n} : at2[i] \in S
      BY <1>7, <1>11
    <3>2. \A i \in W : i < n
      BY <1>11
    <3> QED
      BY <1>2, <1>9, <1>11, <3>1, <3>2, InsertLists
  <2> QED
    BY <1>7, <1>10, <2>1
<1>14. kept \in Seq(S)
  BY <1>2, <1>10, <1>11, <1>12, EvictIs
<1>15. PICK left \in [1 .. Len(kept) -> V] : Lists(left, kept, V, at2)
  <2>1. \E left \in [1 .. Len(EvictBefore(inserted, cutoff)) -> V] :
          Lists(left, EvictBefore(inserted, cutoff), V, at2)
    <3>1. /\ \A x \in S : x.event_time \in Nat
          /\ \A i \in W2 : at2[i] \in S
          /\ inserted \in Seq(S) /\ W2 \in SUBSET Nat /\ cutoff \in Int
      BY <1>2, <1>11, <1>12
    <3> QED
      BY <1>8, <1>13, <3>1, EvictLists
  <2> QED
    BY <1>10, <2>1
<1>16. V = {i \in T \cup {n} : at2[i].event_time >= latest - WindowSize}
  <2>1. cut <= cutoff /\ cutoff \in Int
    BY <1>5, <1>6, <1>11
  <2>2. \A i \in T : at2[i].event_time >= cutoff => i \in W
    BY <1>2, <1>6, <2>1
  <2> QED
    BY <1>6, <1>7, <1>8, <2>2
<1>17. t.trades = [samples |-> kept, latest_event_time |-> {latest}]
  <2>1. (CHOOSE x \in {latest} : TRUE) = latest
    OBVIOUS
  <2> QED
    BY <1>3, <1>5, <1>6, <1>10, <2>1 DEF Push
<1>18. t.trades.samples = kept /\ t.trades.latest_event_time = {latest}
  BY <1>17
<1> QED
  BY <1>1, <1>5, <1>14, <1>15, <1>16, <1>18 DEF HasLastMinute

\* What was pushed or left alone is the last minute of the trades.
LEMMA NextWindow == TypeOK /\ WindowIsExact /\ [Next]_vars => WindowIsExact'
<1> SUFFICES ASSUME TypeOK, WindowIsExact, [Next]_vars PROVE WindowIsExact'
  OBVIOUS
<1> DEFINE T(x) == ArrivalsOf(x, "trade")
           At(x) == [i \in T(x) |-> Sample(arrived[x][i])]
<1>1. \A x \in Symbols : HasLastMinute(SymbolStateOf(x), T(x), At(x))
  BY DEF WindowIsExact
<1>2. CASE UNCHANGED vars
  <2>1. \A x : /\ SymbolStateOf(x)' = SymbolStateOf(x) /\ T(x)' = T(x) /\ At(x)' = At(x)
    BY <1>2 DEF vars, SymbolStateOf, ArrivalsOf
  <2> HIDE DEF T, At
  <2>2. \A x \in Symbols : HasLastMinute(SymbolStateOf(x)', T(x)', At(x)')
    BY <1>1, <2>1
  <2> QED
    BY <2>2 DEF WindowIsExact, T, At
<1>3. ASSUME NEW symbol \in Symbols, NEW event \in Events, Arrive(symbol, event)
      PROVE  WindowIsExact'
  <2>1. PICK n, s, t, D, at, D2, at2 :
          /\ n = Len(arrived[symbol]) + 1
          /\ s = SymbolStateOf(symbol) /\ t = ApplyEvent(s, event)
          /\ D = T(symbol) /\ at = At(symbol)
          /\ D2 = T(symbol)' /\ at2 = At(symbol)'
    OBVIOUS
  <2>2. /\ Shaped(s) /\ HasLastMinute(s, D, at)
        /\ event.kind \in {"trade", "quote", "depth"}
        /\ event.kind = "trade" => t = ApplyTrade(s, event)
        /\ event.kind = "quote" => t = ApplyQuote(s, event)
        /\ event.kind = "depth" => t = ApplyDepth(s, event)
    BY <1>1, <2>1, KindDecides DEF TypeOK, Shaped
  <2>3. /\ t = SymbolStateOf(symbol)'
        /\ \A x \in Symbols : x # symbol => SymbolStateOf(x)' = SymbolStateOf(x)
    BY <1>3, <2>1, ArriveSets
  <2>4. /\ n \in Nat
        /\ \A i \in DOMAIN arrived[symbol] : i \in Nat /\ i < n
             /\ arrived'[symbol][i] = arrived[symbol][i] /\ arrived[symbol][i] \in Events
        /\ arrived'[symbol][n] = event
        /\ \A x \in Symbols : x # symbol => arrived'[x] = arrived[x]
    BY <1>3, <2>1, ArriveGrows
  <2>5. /\ event.kind = "trade" => D2 = D \cup {n}
        /\ event.kind # "trade" => D2 = D
        /\ D \subseteq DOMAIN arrived[symbol]
        /\ \A x \in Symbols : x # symbol => T(x)' = T(x)
    <3>1. PICK kind : kind = "trade"
      OBVIOUS
    <3>2. /\ event.kind = kind => ArrivalsOf(symbol, kind)' = ArrivalsOf(symbol, kind) \cup {n}
          /\ event.kind # kind => ArrivalsOf(symbol, kind)' = ArrivalsOf(symbol, kind)
          /\ ArrivalsOf(symbol, kind) \subseteq DOMAIN arrived[symbol]
          /\ \A x \in Symbols : x # symbol => ArrivalsOf(x, kind)' = ArrivalsOf(x, kind)
      <4>1. n = Len(arrived[symbol]) + 1
        BY <2>1
      <4> HIDE DEF T, At
      <4> QED
        BY <1>3, <4>1, ArrivalsGrow
    <3> QED
      BY <2>1, <3>1, <3>2
  <2>6. /\ at = [i \in D |-> Sample(arrived[symbol][i])]
        /\ at2 = [i \in D2 |-> Sample(arrived'[symbol][i])]
    BY <2>1
  <2>7. \A i \in D : arrived[symbol][i].kind = "trade"
    BY <2>1 DEF ArrivalsOf
  <2>8. HasLastMinute(t, D2, at2)
    <3>1. CASE event.kind # "trade"
      <4>1. SameWindow(s, t)
        <5>1. SameWindow(s, ApplyQuote(s, event)) /\ SameWindow(s, ApplyDepth(s, event))
          BY <2>2, WindowSets
        <5> QED
          BY <2>2, <3>1, <5>1
      <4>2. D2 = D /\ at2 = at
        BY <2>4, <2>5, <2>6, <3>1
      <4>3. HasLastMinute(t, D, at)
        BY <2>2, <4>1 DEF HasLastMinute, SameWindow
      <4> QED
        BY <4>2, <4>3
    <3>2. CASE event.kind = "trade"
      <4>1. D2 = D \cup {n} /\ D \in SUBSET Nat /\ \A i \in D : i < n
        BY <2>4, <2>5, <3>2
      <4>2. \A i \in D : at2[i] = at[i] /\ at[i] \in Samples
        BY <2>4, <2>5, <2>6, <2>7, <4>1 DEF Samples
      <4>3. at2[n] = Sample(event) /\ at2[n] \in Samples
        BY <2>4, <2>6, <3>2, <4>1 DEF Samples
      <4>4. at \in [D -> Samples]
        BY <2>6, <4>2
      <4>5. at2 \in [D \cup {n} -> Samples]
        BY <2>6, <4>1, <4>2, <4>3
      <4>6. /\ t.trades = Push(s.trades, at2[n])
            /\ t.latest_state.trades_per_minute = Len(t.trades.samples)
            /\ t.latest_state.price_change_1m_pct = PriceChange(t.trades.samples)
        BY <2>2, <3>2, <4>3, WindowSets
      <4>7. \A i \in D : at2[i] = at[i]
        BY <4>2
      <4> QED
        BY <2>2, <2>4, <4>1, <4>4, <4>5, <4>6, <4>7, PushKeepsLastMinute
    <3> QED
      BY <3>1, <3>2
  <2>9. ASSUME NEW x \in Symbols
        PROVE  HasLastMinute(SymbolStateOf(x)', T(x)', At(x)')
    <3>1. CASE x = symbol
      BY <2>1, <2>3, <2>8, <3>1
    <3>2. CASE x # symbol
      <4>1. At(x)' = At(x)
        BY <2>4, <2>5, <3>2
      <4> HIDE DEF T, At
      <4> QED
        BY <1>1, <2>3, <2>5, <3>2, <4>1
    <3> QED
      BY <3>1, <3>2
  <2> QED
    BY <2>9 DEF WindowIsExact
<1> QED
  BY <1>2, <1>3 DEF Next

\* The samples are as many as the positions they are those of.
LEMMA ListsAll ==
  ASSUME NEW samples, Len(samples) \in Nat, NEW W \in SUBSET Nat, NEW at,
         \A i \in W : at[i].event_time \in Nat,
         NEW order \in [1 .. Len(samples) -> W], Lists(order, samples, W, at)
  PROVE  Cardinality(W) = Len(samples)
<1>1. PICK L, D : L = Len(samples) /\ D = 1 .. L
  OBVIOUS
<1>2. IsFiniteSet(D) /\ Cardinality(D) = L
  <2>1. PICK a, b : a = 1 /\ b = L
    OBVIOUS
  <2>2. a \in Int /\ b \in Int /\ b \in Nat /\ D = a .. b
    BY <1>1, <2>1
  <2>3. IsFiniteSet(a .. b) /\ Cardinality(a .. b) = IF a > b THEN 0 ELSE b - a + 1
    BY <2>2, FS_Interval
  <2>4. (IF a > b THEN 0 ELSE b - a + 1) = L
    BY <2>1, <2>2
  <2> QED
    BY <2>2, <2>3, <2>4
<1>3. \A k, l \in D : k < l => order[k] # order[l]
  <2> SUFFICES ASSUME NEW k \in D, NEW l \in D, k < l, order[k] = order[l] PROVE FALSE
    OBVIOUS
  <2>1. order[k] \in W /\ order[k] \in Nat /\ at[order[k]].event_time \in Nat
    BY <1>1
  <2>2. \/ at[order[k]].event_time < at[order[l]].event_time
        \/ at[order[k]].event_time = at[order[l]].event_time /\ order[k] < order[l]
    BY <1>1 DEF Lists
  <2> QED
    BY <2>1, <2>2
<1>4. \A k, l \in D : order[k] = order[l] => k = l
  BY <1>1, <1>3
<1>5. order \in [D -> W] /\ \A i \in W : \E k \in D : order[k] = i
  BY <1>1 DEF Lists
<1>6. order \in Bijection(D, W)
  BY <1>4, <1>5 DEF Bijection, Injection, Surjection, IsInjective
<1>7. ExistsBijection(D, W)
  BY <1>6 DEF ExistsBijection
<1> QED
  BY <1>1, <1>2, <1>7, FS_Bijection
\* order has the symbol's arrivals in W by time, then by position
OrdersArrivals(symbol, order, L, W) ==
  /\ \A i \in W : i \in Nat /\ TimeOf(symbol, i) \in Nat
  /\ \A i \in W : \E k \in 1 .. L : order[k] = i
  /\ \A k, l \in 1 .. L : k < l =>
       \/ TimeOf(symbol, order[k]) < TimeOf(symbol, order[l])
       \/ TimeOf(symbol, order[k]) = TimeOf(symbol, order[l]) /\ order[k] < order[l]

\* The oldest and the newest are the first and the last.
LEMMA ListsEnds ==
  ASSUME NEW symbol, NEW W, NEW L \in Nat \ {0}, NEW order \in [1 .. L -> W],
         OrdersArrivals(symbol, order, L, W)
  PROVE  Oldest(symbol, W) = order[1] /\ Newest(symbol, W) = order[L]
<1> DEFINE Follows(i, j) ==
             \/ TimeOf(symbol, j) > TimeOf(symbol, i)
             \/ TimeOf(symbol, j) = TimeOf(symbol, i) /\ j >= i
           Leads(i, j) ==
             \/ TimeOf(symbol, j) < TimeOf(symbol, i)
             \/ TimeOf(symbol, j) = TimeOf(symbol, i) /\ j <= i
<1>1. order[1] \in W /\ order[L] \in W /\ 1 \in 1 .. L /\ L \in 1 .. L
  OBVIOUS
<1>2. \A i \in W : i \in Nat /\ TimeOf(symbol, i) \in Nat
  BY DEF OrdersArrivals
<1>3. ASSUME NEW k \in 1 .. L, NEW l \in 1 .. L, k <= l
      PROVE  Follows(order[k], order[l]) /\ Leads(order[l], order[k])
  <2>1. PICK a, b, x, y : /\ a = order[k] /\ b = order[l]
                          /\ x = TimeOf(symbol, a) /\ y = TimeOf(symbol, b)
    OBVIOUS
  <2>2. a \in Nat /\ b \in Nat /\ x \in Nat /\ y \in Nat
    BY <1>2, <2>1
  <2>3. k < l => x < y \/ (x = y /\ a < b)
    BY <2>1 DEF OrdersArrivals
  <2>4. k = l => x = y /\ a = b
    BY <2>1
  <2>5. k < l \/ k = l
    BY <1>3
  <2>6. (y > x \/ (y = x /\ b >= a)) /\ (x < y \/ (x = y /\ a <= b))
    BY <2>2, <2>3, <2>4, <2>5
  <2> QED
    BY <2>1, <2>6, Zenon
<1>4. ASSUME NEW j \in W PROVE Follows(order[1], j) /\ Leads(order[L], j)
  <2>1. PICK k \in 1 .. L : order[k] = j
    BY DEF OrdersArrivals
  <2> HIDE DEF Follows, Leads
  <2> QED
    BY <1>1, <1>3, <2>1
<1>5. \A x \in W : Follows(x, order[1]) => x = order[1]
  <2> SUFFICES ASSUME NEW x \in W, Follows(x, order[1]) PROVE x = order[1]
    OBVIOUS
  <2>1. Follows(order[1], x)
    BY <1>4
  <2>2. PICK a, y, z : a = order[1] /\ y = TimeOf(symbol, a) /\ z = TimeOf(symbol, x)
    OBVIOUS
  <2>3. a \in Nat /\ x \in Nat /\ y \in Nat /\ z \in Nat
    BY <1>1, <1>2, <2>2
  <2>4. z > y \/ (z = y /\ x >= a)
    BY <2>1, <2>2
  <2>5. y > z \/ (y = z /\ a >= x)
    BY <2>2
  <2> QED
    BY <2>2, <2>3, <2>4, <2>5
<1>6. \A x \in W : Leads(x, order[L]) => x = order[L]
  <2> SUFFICES ASSUME NEW x \in W, Leads(x, order[L]) PROVE x = order[L]
    OBVIOUS
  <2>1. Leads(order[L], x)
    BY <1>4
  <2>2. PICK a, y, z : a = order[L] /\ y = TimeOf(symbol, a) /\ z = TimeOf(symbol, x)
    OBVIOUS
  <2>3. a \in Nat /\ x \in Nat /\ y \in Nat /\ z \in Nat
    BY <1>1, <1>2, <2>2
  <2>4. z < y \/ (z = y /\ x <= a)
    BY <2>1, <2>2
  <2>5. y < z \/ (y = z /\ a <= x)
    BY <2>2
  <2> QED
    BY <2>2, <2>3, <2>4, <2>5
<1>7. Oldest(symbol, W) = CHOOSE x \in W : \A j \in W : Follows(x, j)
  BY DEF Oldest
<1>8. Newest(symbol, W) = CHOOSE x \in W : \A j \in W : Leads(x, j)
  BY DEF Newest
<1> HIDE DEF Follows, Leads
<1>9. \A x \in W : (\A j \in W : Follows(x, j)) <=> x = order[1]
  BY <1>1, <1>4, <1>5
<1>10. \A x \in W : (\A j \in W : Leads(x, j)) <=> x = order[L]
  BY <1>1, <1>4, <1>6
<1> QED
  BY <1>1, <1>7, <1>8, <1>9, <1>10

\* At the start every window is empty.
LEMMA InitWindow == Init => WindowIsExact
<1> SUFFICES ASSUME Init, NEW x \in Symbols
             PROVE  HasLastMinute(SymbolStateOf(x), ArrivalsOf(x, "trade"),
                      [i \in ArrivalsOf(x, "trade") |-> Sample(arrived[x][i])])
  BY DEF WindowIsExact
<1>1. ArrivalsOf(x, "trade") = {} /\ SymbolStateOf(x) = NewSymbolState
  BY DEF Init, SymbolStateOf, ArrivalsOf
<1> QED
  BY <1>1 DEF HasLastMinute, NewSymbolState

\* The trade signals are those of exactly the trades of the last minute of event
\* time, in whatever order they arrived.
THEOREM SignalsShown == Spec => []SignalsCoverLastMinute
<1>1. TypeOK /\ WindowIsExact => SignalsCoverLastMinute
  <2> SUFFICES ASSUME TypeOK, WindowIsExact, NEW symbol \in DOMAIN states,
                      ArrivalsOf(symbol, "trade") # {}
               PROVE  LET m == states[symbol].latest_state
                          trades == ArrivalsOf(symbol, "trade")
                          latest == Max({TimeOf(symbol, i) : i \in trades})
                          window == {i \in trades : TimeOf(symbol, i) >= latest - WindowSize}
                          old == arrived[symbol][Oldest(symbol, window)]
                          new == arrived[symbol][Newest(symbol, window)]
                      IN  /\ m.trades_per_minute = Cardinality(window)
                          /\ m.price_change_1m_pct =
                               IF old.event_time = new.event_time THEN <<>>
                               ELSE <<new.price - old.price, old.price>>
    BY DEF SignalsCoverLastMinute
  <2>1. symbol \in Symbols /\ states[symbol] = SymbolStateOf(symbol)
    BY DEF TypeOK, SymbolStateOf
  <2>2. PICK s, T, at : /\ s = states[symbol] /\ T = ArrivalsOf(symbol, "trade")
                        /\ at = [i \in T |-> Sample(arrived[symbol][i])]
    OBVIOUS
  <2>3. HasLastMinute(s, T, at) /\ T # {}
    BY <2>1, <2>2 DEF WindowIsExact
  <2>4. /\ T \in SUBSET Nat /\ IsFiniteSet(T)
        /\ \A i \in T : /\ TimeOf(symbol, i) \in Nat
                         /\ at[i].event_time = TimeOf(symbol, i)
                         /\ at[i].price = arrived[symbol][i].price
    <3>1. PICK n, a, D : a = arrived[symbol] /\ n = Len(a) /\ D = 1 .. n
      OBVIOUS
    <3>2. a \in Seq(Events)
      BY <2>1, <3>1 DEF TypeOK
    <3>3. DOMAIN a = D /\ n \in Nat /\ \A i \in D : a[i] \in Events
      BY <3>1, <3>2, LenProperties, ElementOfSeq
    <3>4. T \in SUBSET D
      BY <2>2, <3>1, <3>3 DEF ArrivalsOf
    <3>5. IsFiniteSet(D)
      BY <3>1, <3>3, FS_Interval
    <3>6. IsFiniteSet(T)
      BY <3>4, <3>5, FS_Subset
    <3>7. T \in SUBSET Nat
      BY <3>1, <3>3, <3>4
    <3>8. \A i \in T : TimeOf(symbol, i) \in Nat
      BY <3>1, <3>3, <3>4, AggregatorAssumption DEF TimeOf
    <3> QED
      BY <2>2, <3>6, <3>7, <3>8 DEF Sample, TimeOf
  <2>5. PICK samples, m : samples = s.trades.samples /\ m = s.latest_state
    OBVIOUS
  <2>6. PICK latest \in {at[i].event_time : i \in T} :
          LET W == {i \in T : at[i].event_time >= latest - WindowSize} IN
          /\ \A i \in T : at[i].event_time <= latest
          /\ samples \in Seq(Samples)
          /\ \E order \in [1 .. Len(samples) -> W] : Lists(order, samples, W, at)
          /\ m.trades_per_minute = Len(samples)
          /\ m.price_change_1m_pct = PriceChange(samples)
    BY <2>3, <2>5 DEF HasLastMinute
  <2>7. PICK W : W = {i \in T : at[i].event_time >= latest - WindowSize}
    OBVIOUS
  <2>8. PICK order \in [1 .. Len(samples) -> W] : Lists(order, samples, W, at)
    BY <2>6, <2>7
  <2>9. latest \in Nat /\ WindowSize \in Nat
    BY <2>4, TradeWindowAssumption
  <2>10. Max({TimeOf(symbol, i) : i \in T}) = latest
    <3>1. PICK A : A = {TimeOf(symbol, i) : i \in T}
      OBVIOUS
    <3>2. latest \in A /\ A \subseteq Nat /\ \A y \in A : y <= latest
      BY <2>4, <2>6, <3>1
    <3>3. Max(A) = latest
      BY <2>9, <3>2 DEF Max
    <3> QED
      BY <3>1, <3>3
  <2>11. W = {i \in T : TimeOf(symbol, i) >= latest - WindowSize}
    BY <2>4, <2>7
  <2>12. W \in SUBSET Nat /\ W # {} /\ \A i \in W : i \in T
    <3>1. PICK i \in T : latest = at[i].event_time
      BY <2>6
    <3>2. latest >= latest - WindowSize
      BY <2>9
    <3>3. i \in W
      BY <2>7, <3>1, <3>2
    <3> QED
      BY <2>4, <2>7, <3>3
  <2>13. PICK L : L = Len(samples)
    OBVIOUS
  <2>14. L \in Nat /\ DOMAIN samples = 1 .. L
    BY <2>6, <2>13, LenProperties
  <2>15. Cardinality(W) = L
    BY <2>4, <2>8, <2>12, <2>13, <2>14, ListsAll
  <2>16. L # 0 /\ 1 \in 1 .. L /\ L \in 1 .. L /\ samples # <<>>
    <3>1. PICK i \in W : TRUE
      BY <2>12
    <3>2. PICK k \in 1 .. L : order[k] = i
      BY <2>8, <2>13, <3>1 DEF Lists
    <3> QED
      BY <2>13, <2>14, <3>2
  <2>17. /\ \A i \in W : \E k \in 1 .. L : order[k] = i
         /\ \A k \in 1 .. L : samples[k] = at[order[k]] /\ order[k] \in T /\ order[k] \in W
         /\ \A k, l \in 1 .. L : k < l =>
              \/ TimeOf(symbol, order[k]) < TimeOf(symbol, order[l])
              \/ TimeOf(symbol, order[k]) = TimeOf(symbol, order[l]) /\ order[k] < order[l]
    <3>1. \A k \in 1 .. L : order[k] \in W /\ order[k] \in T
      BY <2>8, <2>12, <2>13
    <3>2. \A k \in 1 .. L : at[order[k]].event_time = TimeOf(symbol, order[k])
      BY <2>4, <3>1
    <3> QED
      BY <2>8, <2>13, <3>1, <3>2 DEF Lists
  <2>18. Oldest(symbol, W) = order[1] /\ Newest(symbol, W) = order[L]
    <3>1. \A i \in W : TimeOf(symbol, i) \in Nat
      BY <2>4, <2>12
    <3>2. order \in [1 .. L -> W]
      BY <2>8, <2>13
    <3>3. L \in Nat \ {0}
      BY <2>14, <2>16
    <3>4. OrdersArrivals(symbol, order, L, W)
      BY <2>12, <2>17, <3>1 DEF OrdersArrivals
    <3> QED
      BY <3>2, <3>3, <3>4, ListsEnds, Zenon
  <2>19. Head(samples) = at[order[1]] /\ Last(samples) = at[order[L]]
    BY <2>6, <2>13, <2>16, <2>17 DEF Last
  <2>20. m.price_change_1m_pct =
           IF TimeOf(symbol, order[1]) = TimeOf(symbol, order[L]) THEN <<>>
           ELSE <<arrived[symbol][order[L]].price - arrived[symbol][order[1]].price,
                  arrived[symbol][order[1]].price>>
    <3>1. PICK a, b : a = order[1] /\ b = order[L]
      OBVIOUS
    <3>2. /\ at[a].event_time = TimeOf(symbol, a) /\ at[a].price = arrived[symbol][a].price
          /\ at[b].event_time = TimeOf(symbol, b) /\ at[b].price = arrived[symbol][b].price
      BY <2>4, <2>16, <2>17, <3>1
    <3>3. m.price_change_1m_pct =
            IF at[a].event_time = at[b].event_time THEN <<>>
            ELSE <<at[b].price - at[a].price, at[a].price>>
      BY <2>6, <2>16, <2>19, <3>1 DEF PriceChange
    <3> QED
      BY <3>1, <3>2, <3>3
  <2> QED
    BY <2>2, <2>5, <2>6, <2>10, <2>11, <2>13, <2>15, <2>18, <2>20 DEF TimeOf
<1> QED
  BY <1>1, InitAggregator, InitWindow, NextTypeOK, NextWindow, PTL DEF Spec
=============================================================================
