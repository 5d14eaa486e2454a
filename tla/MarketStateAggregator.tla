------------------------ MODULE MarketStateAggregator ------------------------
(***************************************************************************)
(* The aggregator of the event pipeline (src/src/state/aggregator.rs): the *)
(* latest market state of every symbol, built from trades, quotes and      *)
(* depth updates that arrive in any order of their event times.            *)
(*                                                                         *)
(* Quantities of trades and quotes are set together with their prices and  *)
(* are left out.  A percentage is kept as the pair of integers it is the   *)
(* quotient of, <<>> when absent.  arrived is history: the events each     *)
(* symbol has received, in order.                                          *)
(***************************************************************************)
EXTENDS OrderBook, TradeWindow

CONSTANTS
  Symbols,
  Events,     \* the events that may arrive, each for any symbol
  MaxEvents   \* bound: events that arrive

ASSUME AggregatorAssumption ==
  /\ \A e \in Events : e.kind \in {"trade", "quote", "depth"} /\ e.event_time \in Nat
  /\ MaxEvents \in Nat

VARIABLES
  states,     \* the SymbolState of the symbols that have one
  arrived

vars == <<states, arrived>>

-----------------------------------------------------------------------------
\* MarketState::new
NewMarketState ==
  [last_trade_price |-> None, best_bid_price |-> None, best_ask_price |-> None,
   spread_pct |-> <<>>, price_change_1m_pct |-> <<>>, trades_per_minute |-> None,
   top_bid_quantity |-> None, top_ask_quantity |-> None,
   top_bid_liquidity |-> None, top_ask_liquidity |-> None, book_imbalance |-> <<>>,
   depth_sequence_gap_count |-> 0, last_depth_event_time |-> None,
   last_depth_ingest_time |-> None,
   last_event_time |-> None, last_ingest_time |-> None]

NewSymbolState ==
  [latest_state |-> NewMarketState, latest_trade_event_time |-> None,
   latest_quote_event_time |-> None, trades |-> NewWindow, order_book |-> NewBook]

Later2(a, b) == IF a > b THEN a ELSE b

AdvanceTimestamps(m, event) ==
  [m EXCEPT !.last_event_time = Later2(@, event.event_time),
            !.last_ingest_time = Later2(@, event.ingest_time)]

\* absent while all trades of the window have the same time
PriceChange(samples) ==
  IF samples = <<>> \/ Head(samples).event_time = Last(samples).event_time
  THEN <<>>
  ELSE <<Last(samples).price - Head(samples).price, Head(samples).price>>

SpreadPct(bid, ask) == IF bid + ask > 0 THEN <<ask - bid, bid + ask>> ELSE <<>>

\* mutant: the price shown is that of the last arrival
ApplyTrade_LastArrived(s, trade) ==
  LET window == Push(s.trades, [event_time |-> trade.event_time, price |-> trade.price])
      shown == [s.latest_state EXCEPT
                  !.last_trade_price = trade.price,
                  !.price_change_1m_pct = PriceChange(window.samples),
                  !.trades_per_minute = Len(window.samples)]
  IN  [s EXCEPT !.latest_state = AdvanceTimestamps(shown, trade),
                !.latest_trade_event_time = trade.event_time,
                !.trades = window]

\* a late trade counts in the window but does not replace a newer one
ApplyTrade(s, trade) ==
  LET newest == trade.event_time >= s.latest_trade_event_time
      window == Push(s.trades, [event_time |-> trade.event_time, price |-> trade.price])
      shown == [s.latest_state EXCEPT
                  !.last_trade_price = IF newest THEN trade.price ELSE @,
                  !.price_change_1m_pct = PriceChange(window.samples),
                  !.trades_per_minute = Len(window.samples)]
  IN  [s EXCEPT !.latest_state = AdvanceTimestamps(shown, trade),
                !.latest_trade_event_time = IF newest THEN trade.event_time ELSE @,
                !.trades = window]

ApplyQuote(s, quote) ==
  LET newest == quote.event_time >= s.latest_quote_event_time
      shown == IF newest
               THEN [s.latest_state EXCEPT
                       !.best_bid_price = quote.bid, !.best_ask_price = quote.ask,
                       !.spread_pct = SpreadPct(quote.bid, quote.ask)]
               ELSE s.latest_state
  IN  [s EXCEPT !.latest_state = AdvanceTimestamps(shown, quote),
                !.latest_quote_event_time = IF newest THEN quote.event_time ELSE @]

\* apply_order_book_snapshot
ShowBook(m, book) ==
  [m EXCEPT
     !.top_bid_quantity = IF DOMAIN book.bids = {} THEN None ELSE book.bids[BestBid(book)],
     !.top_ask_quantity = IF DOMAIN book.asks = {} THEN None ELSE book.asks[BestAsk(book)],
     !.top_bid_liquidity = TotalLiquidity(book.bids),
     !.top_ask_liquidity = TotalLiquidity(book.asks),
     !.book_imbalance = BookImbalance(book),
     !.depth_sequence_gap_count = book.depth_sequence_gap_count,
     !.last_depth_event_time = book.last_depth_event_time,
     !.last_depth_ingest_time = book.last_depth_ingest_time]

\* mutant: a stale update refreshes the timestamps
ApplyDepth_AlwaysFresh(s, depth) ==
  LET book == Apply(s.order_book, depth)
  IN  [s EXCEPT !.order_book = book,
                !.latest_state = AdvanceTimestamps(ShowBook(@, book), depth)]

\* a stale or repeated update changes nothing, the timestamps included
ApplyDepth(s, depth) ==
  IF IsStaleOrDuplicate(s.order_book, depth) THEN s
  ELSE LET book == Apply(s.order_book, depth)
       IN  [s EXCEPT !.order_book = book,
                     !.latest_state = AdvanceTimestamps(ShowBook(@, book), depth)]

ApplyEvent(s, event) ==
  CASE event.kind = "trade" -> ApplyTrade(s, event)
    [] event.kind = "quote" -> ApplyQuote(s, event)
    [] event.kind = "depth" -> ApplyDepth(s, event)

-----------------------------------------------------------------------------
Init ==
  /\ states = <<>>
  /\ arrived = [symbol \in Symbols |-> <<>>]

SymbolStateOf(symbol) ==
  IF symbol \in DOMAIN states THEN states[symbol] ELSE NewSymbolState

\* apply: the symbol's state is created by its first event
Arrive(symbol, event) ==
  /\ MapThenSumSet(LAMBDA x : Len(arrived[x]), Symbols) < MaxEvents
  /\ states' = [x \in DOMAIN states \cup {symbol} |->
                  IF x = symbol THEN ApplyEvent(SymbolStateOf(symbol), event)
                                ELSE states[x]]
  /\ arrived' = [arrived EXCEPT ![symbol] = Append(@, event)]

Next == \E symbol \in Symbols, event \in Events : Arrive(symbol, event)

Spec == Init /\ [][Next]_vars

-----------------------------------------------------------------------------
(* What makes the latest state correct *)

\* positions of the symbol's arrivals of one kind
ArrivalsOf(symbol, kind) ==
  {i \in DOMAIN arrived[symbol] : arrived[symbol][i].kind = kind}

TimeOf(symbol, i) == arrived[symbol][i].event_time

\* the arrivals of S in the order of event time, then of arrival: the newest
\* and the oldest
Newest(symbol, S) ==
  CHOOSE i \in S : \A j \in S :
    \/ TimeOf(symbol, j) < TimeOf(symbol, i)
    \/ TimeOf(symbol, j) = TimeOf(symbol, i) /\ j <= i
Oldest(symbol, S) ==
  CHOOSE i \in S : \A j \in S :
    \/ TimeOf(symbol, j) > TimeOf(symbol, i)
    \/ TimeOf(symbol, j) = TimeOf(symbol, i) /\ j >= i

\* The prices shown are those of the newest trade and the newest quote by
\* event time, the last to arrive of several with the same time, however late
\* the others arrived.
NewestIsShown ==
  \A symbol \in DOMAIN states :
    LET m == states[symbol].latest_state
        trades == ArrivalsOf(symbol, "trade")
        quotes == ArrivalsOf(symbol, "quote")
    IN  /\ trades # {} =>
             m.last_trade_price = arrived[symbol][Newest(symbol, trades)].price
        /\ quotes # {} =>
             LET q == arrived[symbol][Newest(symbol, quotes)] IN
             /\ m.best_bid_price = q.bid
             /\ m.best_ask_price = q.ask
             /\ m.spread_pct = SpreadPct(q.bid, q.ask)

\* The trade signals describe exactly the trades of the last minute of event
\* time: none that was evicted is missing because a late one came, and none is
\* counted that arrived too late; the change is from the oldest to the newest.
SignalsCoverLastMinute ==
  \A symbol \in DOMAIN states :
    LET m == states[symbol].latest_state
        trades == ArrivalsOf(symbol, "trade")
        latest == Max({TimeOf(symbol, i) : i \in trades})
        window == {i \in trades : TimeOf(symbol, i) >= latest - WindowSize}
        old == arrived[symbol][Oldest(symbol, window)]
        new == arrived[symbol][Newest(symbol, window)]
    IN  trades # {} =>
          /\ m.trades_per_minute = Cardinality(window)
          /\ m.price_change_1m_pct =
               IF old.event_time = new.event_time THEN <<>>
               ELSE <<new.price - old.price, old.price>>

\* the arrival was dropped as a stale depth update: its final id does not exceed
\* that of every depth update before
WasDropped(symbol, i) ==
  /\ arrived[symbol][i].kind = "depth"
  /\ \E j \in ArrivalsOf(symbol, "depth") :
       /\ j < i
       /\ arrived[symbol][j].final_update_id >= arrived[symbol][i].final_update_id

\* the arrivals that count
Counted(symbol) == {i \in DOMAIN arrived[symbol] : ~WasDropped(symbol, i)}

\* Freshness is neither lost nor feigned: last_event_time is the latest time of
\* the trades, quotes and accepted depth updates, and a depth update that was
\* dropped as stale does not count.
FreshnessIsReal ==
  \A symbol \in DOMAIN states :
    states[symbol].latest_state.last_event_time =
      Max({TimeOf(symbol, i) : i \in Counted(symbol)})

-----------------------------------------------------------------------------
(* The inductive invariants behind the safety theorems *)

\* every depth update carries both ids, as those of Binance do
DepthIsNumbered ==
  \A e \in Events :
    e.kind = "depth" => e.first_update_id \in Nat /\ e.final_update_id \in Nat

\* The arrivals are events, and a symbol has a state once it has received one.
TypeOK ==
  /\ arrived \in [Symbols -> Seq(Events)]
  /\ DOMAIN states = {symbol \in Symbols : arrived[symbol] # <<>>}
  /\ \A symbol \in Symbols :
       LET s == SymbolStateOf(symbol) IN
       /\ DOMAIN s = DOMAIN NewSymbolState
       /\ DOMAIN s.latest_state = DOMAIN NewMarketState
       /\ DOMAIN s.order_book = DOMAIN NewBook

\* i is the newest arrival of the kind
IsNewest(symbol, kind, i) ==
  /\ i \in ArrivalsOf(symbol, kind)
  /\ \A j \in ArrivalsOf(symbol, kind) :
       \/ TimeOf(symbol, j) < TimeOf(symbol, i)
       \/ TimeOf(symbol, j) = TimeOf(symbol, i) /\ j <= i

\* Of trades and of quotes the newest is remembered, with its time.
NewestIsRemembered ==
  \A symbol \in Symbols :
    LET s == SymbolStateOf(symbol)
        m == s.latest_state
        trades == ArrivalsOf(symbol, "trade")
        quotes == ArrivalsOf(symbol, "quote")
    IN  /\ IF trades = {} THEN s.latest_trade_event_time = None
           ELSE \E i \in trades :
                  /\ IsNewest(symbol, "trade", i)
                  /\ s.latest_trade_event_time = TimeOf(symbol, i)
                  /\ m.last_trade_price = arrived[symbol][i].price
        /\ IF quotes = {} THEN s.latest_quote_event_time = None
           ELSE \E i \in quotes :
                  LET q == arrived[symbol][i] IN
                  /\ IsNewest(symbol, "quote", i)
                  /\ s.latest_quote_event_time = q.event_time
                  /\ m.best_bid_price = q.bid
                  /\ m.best_ask_price = q.ask
                  /\ m.spread_pct = SpreadPct(q.bid, q.ask)

\* The book knows the largest id that has arrived, and last_event_time is the
\* latest time of an arrival that was not dropped.
FreshnessIsKnown ==
  \A symbol \in Symbols :
    LET s == SymbolStateOf(symbol)
        last == s.order_book.last_final_update_id
        latest == s.latest_state.last_event_time
        depths == ArrivalsOf(symbol, "depth")
        counted == Counted(symbol)
    IN  /\ IF depths = {} THEN last = None
           ELSE \E i \in depths :
                  /\ last = arrived[symbol][i].final_update_id
                  /\ \A j \in depths : arrived[symbol][j].final_update_id <= last
        /\ IF counted = {} THEN latest = None /\ arrived[symbol] = <<>>
           ELSE \E i \in counted :
                  /\ latest = TimeOf(symbol, i)
                  /\ \A j \in counted : TimeOf(symbol, j) <= latest

\* a trade as the window keeps it
Sample(trade) == [event_time |-> trade.event_time, price |-> trade.price]
Samples == {Sample(e) : e \in {x \in Events : x.kind = "trade"}}

\* the order in which a window has the trades of W: by time, then by arrival
Lists(order, samples, W, at) ==
  /\ \A i \in W : \E k \in 1 .. Len(samples) : order[k] = i
  /\ \A k, l \in 1 .. Len(samples) : k < l =>
       \/ at[order[k]].event_time < at[order[l]].event_time
       \/ at[order[k]].event_time = at[order[l]].event_time /\ order[k] < order[l]
  /\ \A k \in 1 .. Len(samples) : samples[k] = at[order[k]]

\* the window of s has the samples at those of the trades that are of the last
\* minute, in order, and the signals are computed from it
HasLastMinute(s, trades, at) ==
  LET m == s.latest_state
      samples == s.trades.samples
  IN  IF trades = {} THEN s.trades = NewWindow
      ELSE \E latest \in {at[i].event_time : i \in trades} :
             LET W == {i \in trades : at[i].event_time >= latest - WindowSize} IN
             /\ \A i \in trades : at[i].event_time <= latest
             /\ s.trades.latest_event_time = {latest}
             /\ samples \in Seq(Samples)
             /\ \E order \in [1 .. Len(samples) -> W] : Lists(order, samples, W, at)
             /\ m.trades_per_minute = Len(samples)
             /\ m.price_change_1m_pct = PriceChange(samples)

\* Every window is that of all trades that have arrived.
WindowIsExact ==
  \A symbol \in Symbols :
    LET trades == ArrivalsOf(symbol, "trade") IN
    HasLastMinute(SymbolStateOf(symbol), trades,
                  [i \in trades |-> Sample(arrived[symbol][i])])
=============================================================================
