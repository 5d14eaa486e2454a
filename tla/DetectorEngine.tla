---------------------------- MODULE DetectorEngine ----------------------------
(***************************************************************************)
(* The anomaly detectors (src/src/detectors): every event leads to one     *)
(* evaluation of its symbol's market state at the wall clock's time; the   *)
(* seven detectors may raise an anomaly each, and a cooldown per symbol    *)
(* and type decides which are emitted.                                     *)
(*                                                                         *)
(* Times are in ticks, TicksPerSecond of them to a second.  The averages   *)
(* that the code keeps as floats are kept as sums and counts, and an       *)
(* optional percentage is a sequence of at most one number.  evaluated,    *)
(* raised and emitted are history.                                         *)
(***************************************************************************)
EXTENDS Integers, Sequences, FiniteSets, FiniteSetsExt

CONSTANTS
  Symbols,
  Settings,        \* DetectorSettings
  TicksPerSecond,
  CooldownSecs,    \* DETECTOR_COOLDOWN
  MarketStates,    \* the market states that may be evaluated
  Clock,           \* the times the wall clock may show
  MaxEvaluations   \* bound: evaluations

SettingFields ==
  {"price_move", "spread_spike", "stale_data_ms", "event_lag_spike_ms",
   "trade_burst_multiplier", "trade_burst_min_warmup_windows", "quote_stuck_ms",
   "depth_sequence_gap_min_increment"}

\* DetectorSettings::validate, and what the aggregator guarantees of a state
ASSUME DetectorAssumption ==
  /\ Settings \in [SettingFields -> Nat \ {0}]
  /\ TicksPerSecond \in Nat \ {0}
  /\ CooldownSecs \in Nat \ {0}
  /\ Clock \subseteq Nat
  /\ MaxEvaluations \in Nat
  /\ \A m \in MarketStates :
       /\ m.last_event_time \in Nat
       /\ m.last_ingest_time \in Nat
       /\ m.depth_sequence_gap_count \in Nat
       /\ m.trades_per_minute \in Nat \cup {-1}

VARIABLES
  trade_burst_state, quote_stuck_state, depth_sequence_gap_state,
  last_emitted,    \* per symbol and type: the time of the last emission
  evaluated,       \* the evaluations so far: symbol, state and time
  raised,          \* the types the last evaluation raised
  emitted          \* the anomalies emitted so far

engineVars == <<trade_burst_state, quote_stuck_state, depth_sequence_gap_state,
                last_emitted>>
vars == <<engineVars, evaluated, raised, emitted>>

-----------------------------------------------------------------------------
None == -1

AnomalyTypes == {"PriceMove", "SpreadSpike", "StaleData", "EventLagSpike",
                 "TradeBurst", "QuoteStuck", "DepthSequenceGap"}

NewBurst == [sum |-> 0, observation_count |-> 0, last_evaluated |-> None]
NewStuck == [last_signature |-> None, last_changed_at |-> None]

Abs(n) == IF n < 0 THEN -n ELSE n
NonNeg(n) == IF n < 0 THEN 0 ELSE n

\* an anomaly of the type if value reaches threshold, as a set of at most one
Above(type, value, threshold) ==
  IF value < threshold THEN {}
  ELSE {[type |-> type, observed |-> value,
         severity |-> IF value >= 2 * threshold THEN "Critical" ELSE "Warning"]}

PriceMove(m) ==
  IF m.price_change_1m_pct = <<>> THEN {}
  ELSE LET change == m.price_change_1m_pct[1]
       IN  {[a EXCEPT !.observed = change] :
              a \in Above("PriceMove", Abs(change), Settings.price_move)}

SpreadSpike(m) ==
  IF m.spread_pct = <<>> \/ m.spread_pct[1] < Settings.spread_spike THEN {}
  ELSE {[type |-> "SpreadSpike", observed |-> m.spread_pct[1], severity |-> "Warning"]}

StaleData(m, now) ==
  Above("StaleData", NonNeg(now - m.last_event_time), Settings.stale_data_ms)

EventLagSpike(m) ==
  Above("EventLagSpike", NonNeg(m.last_ingest_time - m.last_event_time),
        Settings.event_lag_spike_ms)

-----------------------------------------------------------------------------
(* Trade bursts: the baseline is the average of the rates observed so far; a *)
(* rate is observed when it differs from the one before.                     *)

\* mutant: every evaluation is an observation
BurstObserves_Always(b, m) == m.trades_per_minute # None

\* whether this evaluation looks at the rate at all
BurstObserves(b, m) ==
  m.trades_per_minute # None /\ m.trades_per_minute # b.last_evaluated

\* rate >= baseline * multiplier, once the baseline is warm
TradeBurst(b, m) ==
  IF /\ BurstObserves(b, m)
     /\ b.observation_count > 0
     /\ b.observation_count >= Settings.trade_burst_min_warmup_windows
  THEN {[a EXCEPT !.observed = m.trades_per_minute] :
          a \in Above("TradeBurst", m.trades_per_minute * b.observation_count,
                      Settings.trade_burst_multiplier * b.sum)}
  ELSE {}

BurstNext(b, m) ==
  IF ~BurstObserves(b, m) THEN b
  ELSE [sum |-> b.sum + m.trades_per_minute,
        observation_count |-> b.observation_count + 1,
        last_evaluated |-> m.trades_per_minute]

-----------------------------------------------------------------------------
(* Stuck quotes: how long the top of the book has not changed, by event time *)

QuoteStuck(q, m) ==
  IF m.signature = None \/ q.last_signature # m.signature THEN {}
  ELSE Above("QuoteStuck", NonNeg(m.last_event_time - q.last_changed_at),
             Settings.quote_stuck_ms)

\* mutant: a book without a top does not start over
StuckNext_KeepsOnNone(q, m) ==
  IF m.signature \in {None, q.last_signature} THEN q
  ELSE [last_signature |-> m.signature, last_changed_at |-> m.last_event_time]

StuckNext(q, m) ==
  IF m.signature = None THEN NewStuck
  ELSE IF q.last_signature = m.signature THEN q
  ELSE [last_signature |-> m.signature, last_changed_at |-> m.last_event_time]

-----------------------------------------------------------------------------
(* Depth gaps: by how much the count grew since the last evaluation *)

DepthSequenceGap(seen, m) ==
  LET increment == m.depth_sequence_gap_count - seen
  IN  IF increment <= 0 \/ increment < Settings.depth_sequence_gap_min_increment
      THEN {}
      ELSE {[type |-> "DepthSequenceGap", observed |-> increment,
             severity |-> "Warning"]}

\* mutant: a count that was reported is not remembered
GapNext_OnlyUnreported(seen, m) ==
  IF DepthSequenceGap(seen, m) = {} THEN m.depth_sequence_gap_count ELSE seen

GapNext(seen, m) == m.depth_sequence_gap_count

-----------------------------------------------------------------------------
\* mutant: the time between two emissions counts in either direction
CoolingDown_EitherWay(symbol, type, now) ==
  LET previous == last_emitted[symbol][type]
  IN  previous # None /\ Abs(now - previous) \div TicksPerSecond < CooldownSecs

\* whole seconds since the last emission; a clock that went back counts as none
CoolingDown(symbol, type, now) ==
  LET previous == last_emitted[symbol][type]
  IN  previous # None /\ NonNeg(now - previous) \div TicksPerSecond < CooldownSecs

Raised(symbol, m, now) ==
  PriceMove(m) \cup SpreadSpike(m) \cup StaleData(m, now) \cup EventLagSpike(m)
    \cup TradeBurst(trade_burst_state[symbol], m)
    \cup QuoteStuck(quote_stuck_state[symbol], m)
    \cup DepthSequenceGap(depth_sequence_gap_state[symbol], m)

Init ==
  /\ trade_burst_state = [s \in Symbols |-> NewBurst]
  /\ quote_stuck_state = [s \in Symbols |-> NewStuck]
  /\ depth_sequence_gap_state = [s \in Symbols |-> 0]
  /\ last_emitted = [s \in Symbols |-> [t \in AnomalyTypes |-> None]]
  /\ evaluated = <<>>
  /\ raised = {}
  /\ emitted = {}

\* the evaluations of one symbol so far, by position
EvaluationsOf(symbol) == {i \in DOMAIN evaluated : evaluated[i].symbol = symbol}

\* the aggregator moves neither the time nor the gap count of a symbol back
Follows(symbol, m) ==
  \A i \in EvaluationsOf(symbol) :
    /\ evaluated[i].state.last_event_time <= m.last_event_time
    /\ evaluated[i].state.depth_sequence_gap_count <= m.depth_sequence_gap_count

\* evaluate: every detector's memory moves on, also when its anomaly is held
\* back by the cooldown
Evaluate(symbol, m, now) ==
  LET anomalies == Raised(symbol, m, now)
      passed == {a \in anomalies : ~CoolingDown(symbol, a.type, now)}
  IN  /\ Len(evaluated) < MaxEvaluations
      /\ Follows(symbol, m)
      /\ trade_burst_state' = [trade_burst_state EXCEPT ![symbol] = BurstNext(@, m)]
      /\ quote_stuck_state' = [quote_stuck_state EXCEPT ![symbol] = StuckNext(@, m)]
      /\ depth_sequence_gap_state' =
           [depth_sequence_gap_state EXCEPT ![symbol] = GapNext(@, m)]
      /\ last_emitted' = [last_emitted EXCEPT ![symbol] =
           [t \in AnomalyTypes |-> IF \E a \in passed : a.type = t THEN now ELSE @[t]]]
      /\ evaluated' = Append(evaluated, [symbol |-> symbol, state |-> m, now |-> now])
      /\ raised' = {a.type : a \in anomalies}
      /\ emitted' = emitted \cup
           {[symbol |-> symbol, anomaly |-> a, created_at |-> now,
             position |-> Len(evaluated) + 1] : a \in passed}

Next ==
  \E symbol \in Symbols, m \in MarketStates, now \in Clock : Evaluate(symbol, m, now)

Spec == Init /\ [][Next]_vars

-----------------------------------------------------------------------------
(* What makes the detectors correct *)

\* Two anomalies of the same symbol and type are at least the cooldown apart,
\* and in the order of their times, even when the wall clock steps back.
CooldownSpacing ==
  \A a, b \in emitted :
    a.symbol = b.symbol /\ a.anomaly.type = b.anomaly.type /\ a.position < b.position
      => b.created_at - a.created_at >= CooldownSecs * TicksPerSecond

\* the gap count a report was made at
CountAt(report) == evaluated[report.position].state.depth_sequence_gap_count

\* No gap is reported twice: a report covers the last `observed` gaps of the
\* count it was made at, and none that an earlier report of the symbol covers.
GapsReportedOnce ==
  LET reports == {a \in emitted : a.anomaly.type = "DepthSequenceGap"}
  IN  \A a, b \in reports :
        a.symbol = b.symbol /\ a.position < b.position =>
          CountAt(a) <= CountAt(b) - b.anomaly.observed

\* the last evaluation
Latest == evaluated[Len(evaluated)]

\* A quote is called stuck exactly if the top of the symbol's book was the same
\* in all evaluations over a span of event time that reaches the threshold.
StuckExactly ==
  evaluated # <<>> =>
    LET mine == EvaluationsOf(Latest.symbol)
        Since(i) == {j \in mine : j >= i}
    IN  "QuoteStuck" \in raised <=>
          \E i \in mine :
            /\ Latest.state.signature # None
            /\ \A j \in Since(i) : evaluated[j].state.signature = Latest.state.signature
            /\ Latest.state.last_event_time - evaluated[i].state.last_event_time
                 >= Settings.quote_stuck_ms

\* the evaluations of a symbol that have a rate
Rate(i) == evaluated[i].state.trades_per_minute
Rated(symbol) == {i \in EvaluationsOf(symbol) : Rate(i) # None}

\* those of them with a rate other than that of the one before
Observed(symbol) ==
  {i \in Rated(symbol) :
     \A j \in Rated(symbol) : j < i /\ Rate(j) = Rate(i) =>
       \E k \in Rated(symbol) : j < k /\ k < i /\ Rate(k) # Rate(i)}

\* the sum of the rates of the evaluations at the positions B
SumOfRates(evaluations, B) ==
  MapThenSumSet(LAMBDA i : evaluations[i].state.trades_per_minute, B)

\* A burst is raised exactly if the rate has changed to at least the multiple of
\* the average of the rates observed before, and enough of them were.
BurstExactly ==
  evaluated # <<>> =>
    LET before == Observed(Latest.symbol) \ {Len(evaluated)}
        n == Cardinality(before)
    IN  "TradeBurst" \in raised <=>
          /\ Len(evaluated) \in Observed(Latest.symbol)
          /\ n >= Settings.trade_burst_min_warmup_windows
          /\ Rate(Len(evaluated)) * n
               >= Settings.trade_burst_multiplier * SumOfRates(evaluated, before)

-----------------------------------------------------------------------------
(* The inductive invariant behind the safety theorems *)

Signatures == {None} \cup {m.signature : m \in MarketStates}

\* The variables stay in their domains.
TypeOK ==
  /\ trade_burst_state \in
       [Symbols -> [sum : Nat, observation_count : Nat, last_evaluated : Nat \cup {None}]]
  /\ quote_stuck_state \in
       [Symbols -> [last_signature : Signatures, last_changed_at : Nat \cup {None}]]
  /\ depth_sequence_gap_state \in [Symbols -> Nat]
  /\ last_emitted \in [Symbols -> [AnomalyTypes -> Nat \cup {None}]]
  /\ evaluated \in Seq([symbol : Symbols, state : MarketStates, now : Clock])
  /\ raised \subseteq AnomalyTypes
  /\ \A a \in emitted :
       /\ a.symbol \in Symbols
       /\ a.anomaly.type \in AnomalyTypes
       /\ a.created_at \in Nat
       /\ a.position \in DOMAIN evaluated

\* Of every symbol and type the latest emission is remembered.
EmissionsRemembered ==
  \A a \in emitted :
    /\ evaluated[a.position].symbol = a.symbol
    /\ a.created_at <= last_emitted[a.symbol][a.anomaly.type]

\* Event times and gap counts of a symbol do not go back, and the gap detector
\* has seen all counts so far.
EvaluationsInOrder ==
  \A i \in DOMAIN evaluated :
    LET symbol == evaluated[i].symbol IN
    /\ evaluated[i].state.depth_sequence_gap_count <= depth_sequence_gap_state[symbol]
    /\ \A j \in EvaluationsOf(symbol) : i <= j =>
         evaluated[i].state.last_event_time <= evaluated[j].state.last_event_time

\* i is an evaluation of the symbol since which the top of its book has been x
StuckSince(symbol, i, x) ==
  /\ i \in EvaluationsOf(symbol)
  /\ \A j \in EvaluationsOf(symbol) : j >= i => evaluated[j].state.signature = x

\* What the stuck-quote detector remembers of a symbol: the top of the book at
\* its last evaluation, and since when the book has had it.
StuckMemory ==
  \A symbol \in Symbols :
    LET q == quote_stuck_state[symbol] IN
    /\ \A i \in EvaluationsOf(symbol), x \in Signatures :
         StuckSince(symbol, i, x) =>
           /\ q.last_signature = x
           /\ x # None => q.last_changed_at <= evaluated[i].state.last_event_time
    /\ q.last_signature # None =>
         \E k \in EvaluationsOf(symbol) :
           /\ StuckSince(symbol, k, q.last_signature)
           /\ q.last_changed_at = evaluated[k].state.last_event_time

\* What the burst detector remembers of a symbol: how many rates were observed,
\* their sum, and the last one.
BurstMemory ==
  \A symbol \in Symbols :
    LET b == trade_burst_state[symbol] IN
    /\ b.observation_count = Cardinality(Observed(symbol))
    /\ b.sum = SumOfRates(evaluated, Observed(symbol))
    /\ \/ Rated(symbol) = {} /\ b.last_evaluated = None
       \/ \E i \in Rated(symbol) :
            b.last_evaluated = Rate(i) /\ \A j \in Rated(symbol) : j <= i

DetectorInv ==
  /\ TypeOK
  /\ EmissionsRemembered
  /\ CooldownSpacing
  /\ EvaluationsInOrder
  /\ GapsReportedOnce
  /\ StuckMemory
  /\ StuckExactly
  /\ BurstMemory
  /\ BurstExactly
=============================================================================
