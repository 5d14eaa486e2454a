---------------------------- MODULE DomainEvents ----------------------------
(***************************************************************************)
(* Normalized symbols and events and what their constructors refuse        *)
(* (src/src/domain/symbol.rs, events.rs, depth.rs).  Prices, quantities    *)
(* and times are integers.  A text is a name of its own, or the name of    *)
(* what it reads as together with a value: ("integer", 5), ("time", 3).    *)
(***************************************************************************)
EXTENDS Integers, Sequences

CONSTANTS
  Normalized,      \* from texts to what trim and to_uppercase make of them
  Alphanumeric,    \* the texts of ASCII letters and digits only, at least one
  I64Max, U64Max   \* the largest i64 and u64, scaled

ASSUME DomainAssumption ==
  /\ Alphanumeric \subseteq {Normalized[t] : t \in DOMAIN Normalized}
  /\ I64Max \in Nat /\ U64Max = 2 * I64Max + 1

None == [none |-> TRUE]

\* what a fallible function returns
Ok(value) == [ok |-> TRUE, value |-> value]
Err(error, field) == [ok |-> FALSE, error |-> error, field |-> field]

\* `?` after each of the results in turn, then the rest
Chain(results, rest) ==
  LET failed == {i \in DOMAIN results : ~results[i].ok}
  IN  IF failed = {} THEN rest
      ELSE results[CHOOSE i \in failed : \A j \in failed : i <= j]

-----------------------------------------------------------------------------
\* Symbol::new: normalized first, then checked
NewSymbol(text, field) ==
  IF text \in DOMAIN Normalized /\ Normalized[text] \in Alphanumeric
  THEN Ok(Normalized[text]) ELSE Err("InvalidSymbol", field)

\* Exchange::parse
ParseExchange(text) ==
  IF text = "binance" THEN Ok("Binance") ELSE Err("InvalidExchange", "exchange")

Invalid(name) == Err("InvalidEvent", name)

\* TradeEvent::new
NewTrade(symbol, id, price, quantity, time) ==
  IF price <= 0 \/ quantity <= 0 THEN Invalid("trade")
  ELSE Ok([kind |-> "trade", symbol |-> symbol, id |-> id, price |-> price,
           quantity |-> quantity, time |-> time])

\* mutant: a crossed quote is let through
NewQuote_Crossed(symbol, bid, bid_quantity, ask, ask_quantity, time) ==
  IF \E n \in {bid, bid_quantity, ask, ask_quantity} : n <= 0 THEN Invalid("quote")
  ELSE Ok([kind |-> "quote", symbol |-> symbol, bid |-> bid, bid_quantity |-> bid_quantity,
           ask |-> ask, ask_quantity |-> ask_quantity, time |-> time])

\* TopOfBookQuote::new and QuoteEvent::new
NewQuote(symbol, bid, bid_quantity, ask, ask_quantity, time) ==
  IF (\E n \in {bid, bid_quantity, ask, ask_quantity} : n <= 0) \/ ask < bid
  THEN Invalid("quote")
  ELSE Ok([kind |-> "quote", symbol |-> symbol, bid |-> bid, bid_quantity |-> bid_quantity,
           ask |-> ask, ask_quantity |-> ask_quantity, time |-> time])

\* DepthLevel::new: a quantity of zero removes the level
NewDepthLevel(price, quantity) ==
  IF price <= 0 \/ quantity < 0 THEN Invalid("level")
  ELSE Ok([price |-> price, quantity |-> quantity])

\* DepthUpdate::new
NewDepthUpdate(symbol, first, final, bids, asks, time) ==
  IF (bids = <<>> /\ asks = <<>>) \/ (first # None /\ final # None /\ final.id < first.id)
  THEN Invalid("depth")
  ELSE Ok([kind |-> "depth", symbol |-> symbol, first |-> first, final |-> final,
           bids |-> bids, asks |-> asks, time |-> time])
=============================================================================
