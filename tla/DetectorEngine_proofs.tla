------------------------- MODULE DetectorEngine_proofs -------------------------
(***************************************************************************)
(* Proofs about DetectorEngine, for every set of symbols and market        *)
(* states, every clock, all settings and every number of evaluations.      *)
(***************************************************************************)
EXTENDS DetectorEngine, FiniteSetTheorems, SequenceTheorems, TLAPS

\* Whole seconds: a time that is not shorter than c of them is not shorter than
\* their ticks.
LEMMA WholeSeconds ==
  ASSUME NEW n \in Nat, NEW t \in Nat \ {0}, NEW c \in Nat, ~(n \div t < c)
  PROVE  n >= c * t
<1> DEFINE d == n \div t
<1>1. d \in Nat /\ t * d <= n
  OBVIOUS
<1>2. d >= c
  BY <1>1
<1> HIDE DEF d
<1>3. c * t <= d * t
  BY <1>1, <1>2
<1>4. d * t = t * d
  BY <1>1
<1> QED
  BY <1>1, <1>3, <1>4

\* Above returns an anomaly exactly if the value is not below the threshold.
LEMMA AboveIs ==
  ASSUME NEW type, NEW value \in Int, NEW threshold \in Int
  PROVE  Above(type, value, threshold) # {} <=> value >= threshold
<1>1. CASE value < threshold
  BY <1>1 DEF Above
<1>2. CASE ~(value < threshold)
  <2>1. \E x : Above(type, value, threshold) = {x}
    BY <1>2 DEF Above
  <2> QED
    BY <1>2, <2>1
<1> QED
  BY <1>1, <1>2

\* Every anomaly has one of the seven types, and the stuck quotes, bursts
\* and gaps come from the detectors that bear their names.
LEMMA RaisedTypes ==
  ASSUME NEW symbol \in Symbols, NEW m \in MarketStates, NEW now \in Clock,
         NEW a \in Raised(symbol, m, now)
  PROVE  /\ a.type \in AnomalyTypes
         /\ a.type = "QuoteStuck" <=> a \in QuoteStuck(quote_stuck_state[symbol], m)
         /\ a.type = "TradeBurst" <=> a \in TradeBurst(trade_burst_state[symbol], m)
         /\ a.type = "DepthSequenceGap" <=>
              a \in DepthSequenceGap(depth_sequence_gap_state[symbol], m)
<1>1. \A type, v, th : \A b \in Above(type, v, th) : b.type = type
  BY DEF Above
<1>2. \A b \in PriceMove(m) : b.type = "PriceMove"
  BY DEF PriceMove, Above
<1>3. \A b \in SpreadSpike(m) : b.type = "SpreadSpike"
  BY DEF SpreadSpike
<1>4. \A b \in StaleData(m, now) : b.type = "StaleData"
  BY <1>1 DEF StaleData
<1>5. \A b \in EventLagSpike(m) : b.type = "EventLagSpike"
  BY <1>1 DEF EventLagSpike
<1>6. \A b \in TradeBurst(trade_burst_state[symbol], m) : b.type = "TradeBurst"
  BY DEF TradeBurst, Above
<1>7. \A b \in QuoteStuck(quote_stuck_state[symbol], m) : b.type = "QuoteStuck"
  BY <1>1 DEF QuoteStuck
<1>8. \A b \in DepthSequenceGap(depth_sequence_gap_state[symbol], m) :
         b.type = "DepthSequenceGap"
  BY DEF DepthSequenceGap
<1> QED
  BY <1>2, <1>3, <1>4, <1>5, <1>6, <1>7, <1>8 DEF Raised, AnomalyTypes

-----------------------------------------------------------------------------
(* One evaluation *)

\* An evaluation is recorded behind the others.
LEMMA EvaluatedGrows ==
  ASSUME TypeOK, NEW symbol \in Symbols, NEW m \in MarketStates, NEW now \in Clock,
         Evaluate(symbol, m, now)
  PROVE  LET n == Len(evaluated) + 1 IN
         /\ evaluated' \in Seq([symbol : Symbols, state : MarketStates, now : Clock])
         /\ Len(evaluated') = n
         /\ DOMAIN evaluated' = DOMAIN evaluated \cup {n}
         /\ n \in Nat
         /\ \A i \in DOMAIN evaluated : i \in Nat /\ i < n /\ evaluated'[i] = evaluated[i]
                                        /\ evaluated[i].symbol \in Symbols
                                        /\ evaluated[i].state \in MarketStates
         /\ evaluated'[n].symbol = symbol
         /\ evaluated'[n].state = m
         /\ EvaluationsOf(symbol)' = EvaluationsOf(symbol) \cup {n}
         /\ \A s \in Symbols : s # symbol => EvaluationsOf(s)' = EvaluationsOf(s)
<1> DEFINE n == Len(evaluated) + 1
           Evaluation == [symbol : Symbols, state : MarketStates, now : Clock]
           e == [symbol |-> symbol, state |-> m, now |-> now]
<1>1. evaluated \in Seq(Evaluation) /\ e \in Evaluation /\ evaluated' = Append(evaluated, e)
  BY DEF TypeOK, Evaluate
<1>2. e.symbol = symbol /\ e.state = m
  OBVIOUS
<1> HIDE DEF e, Evaluation
<1>3. /\ evaluated' \in Seq(Evaluation)
      /\ Len(evaluated') = Len(evaluated) + 1
      /\ \A i \in 1 .. Len(evaluated) : evaluated'[i] = evaluated[i]
      /\ evaluated'[Len(evaluated) + 1] = e
  BY <1>1, AppendProperties
<1>4. Len(evaluated) \in Nat /\ DOMAIN evaluated = 1 .. Len(evaluated)
  BY <1>1, LenProperties
<1>5. DOMAIN evaluated' = 1 .. Len(evaluated) + 1
  BY <1>3, LenProperties
<1>6. DOMAIN evaluated' = DOMAIN evaluated \cup {n}
  BY <1>4, <1>5
<1>7. \A i \in DOMAIN evaluated :
        evaluated[i].symbol \in Symbols /\ evaluated[i].state \in MarketStates
  <2>1. \A i \in DOMAIN evaluated : evaluated[i] \in Evaluation
    BY <1>1, <1>4, ElementOfSeq
  <2> QED
    BY <2>1 DEF Evaluation
<1>8. \A i \in DOMAIN evaluated : i \in Nat /\ i < n /\ evaluated'[i] = evaluated[i]
  BY <1>3, <1>4
<1>9. EvaluationsOf(symbol)' = EvaluationsOf(symbol) \cup {n}
  BY <1>2, <1>3, <1>6, <1>8 DEF EvaluationsOf
<1>10. \A s \in Symbols : s # symbol => EvaluationsOf(s)' = EvaluationsOf(s)
  BY <1>2, <1>3, <1>6, <1>8 DEF EvaluationsOf
<1> QED
  BY <1>2, <1>3, <1>4, <1>6, <1>7, <1>8, <1>9, <1>10 DEF Evaluation

\* A new emission is of the symbol evaluated, made now at the new position, of
\* a type that was raised and is not cooling down.
LEMMA EmittedGrows ==
  ASSUME NEW symbol \in Symbols, NEW m \in MarketStates, NEW now \in Clock,
         Evaluate(symbol, m, now), NEW a \in emitted', a \notin emitted
  PROVE  /\ a.symbol = symbol /\ a.created_at = now /\ a.position = Len(evaluated) + 1
         /\ a.anomaly \in Raised(symbol, m, now)
         /\ ~CoolingDown(symbol, a.anomaly.type, now)
         /\ last_emitted' = [last_emitted EXCEPT ![symbol] =
              [t \in AnomalyTypes |->
                 IF \E b \in Raised(symbol, m, now) :
                      ~CoolingDown(symbol, b.type, now) /\ b.type = t
                 THEN now ELSE last_emitted[symbol][t]]]
BY DEF Evaluate

\* No evaluation takes a variable out of its domain.
LEMMA NextTypeOK == TypeOK /\ [Next]_vars => TypeOK'
<1> SUFFICES ASSUME TypeOK, [Next]_vars PROVE TypeOK'
  OBVIOUS
<1>1. CASE UNCHANGED vars
  BY <1>1 DEF TypeOK, vars, engineVars
<1>2. ASSUME NEW symbol \in Symbols, NEW m \in MarketStates, NEW now \in Clock,
             Evaluate(symbol, m, now)
      PROVE  TypeOK'
  <2> USE DetectorAssumption
  <2>1. trade_burst_state' \in
          [Symbols -> [sum : Nat, observation_count : Nat, last_evaluated : Nat \cup {None}]]
    <3>1. BurstNext(trade_burst_state[symbol], m) \in
            [sum : Nat, observation_count : Nat, last_evaluated : Nat \cup {None}]
      BY DEF TypeOK, BurstNext, BurstObserves, None
    <3> QED
      BY <1>2, <3>1 DEF TypeOK, Evaluate
  <2>2. quote_stuck_state' \in
          [Symbols -> [last_signature : Signatures, last_changed_at : Nat \cup {None}]]
    <3>1. StuckNext(quote_stuck_state[symbol], m) \in
            [last_signature : Signatures, last_changed_at : Nat \cup {None}]
      BY DEF TypeOK, StuckNext, NewStuck, Signatures
    <3> QED
      BY <1>2, <3>1 DEF TypeOK, Evaluate
  <2>3. depth_sequence_gap_state' \in [Symbols -> Nat]
    BY <1>2 DEF TypeOK, Evaluate, GapNext
  <2>4. last_emitted' \in [Symbols -> [AnomalyTypes -> Nat \cup {None}]]
    BY <1>2 DEF TypeOK, Evaluate
  <2>5. raised' \subseteq AnomalyTypes
    BY <1>2, RaisedTypes DEF Evaluate
  <2>6. /\ evaluated' \in Seq([symbol : Symbols, state : MarketStates, now : Clock])
        /\ DOMAIN evaluated' = DOMAIN evaluated \cup {Len(evaluated) + 1}
    BY <1>2, EvaluatedGrows
  <2>7. ASSUME NEW a \in emitted'
        PROVE  /\ a.symbol \in Symbols
               /\ a.anomaly.type \in AnomalyTypes
               /\ a.created_at \in Nat
               /\ a.position \in DOMAIN evaluated'
    <3>1. CASE a \in emitted
      BY <2>6, <3>1 DEF TypeOK
    <3>2. CASE a \notin emitted
      BY <1>2, <2>6, <3>2, EmittedGrows, RaisedTypes
    <3> QED
      BY <3>1, <3>2
  <2> QED
    BY <2>1, <2>2, <2>3, <2>4, <2>5, <2>6, <2>7 DEF TypeOK
<1> QED
  BY <1>1, <1>2 DEF Next

-----------------------------------------------------------------------------
(* The cooldown *)

\* A type that was emitted before and is not cooling down was emitted at least
\* the cooldown ago, and the clock has not gone back since.
LEMMA CooledDown ==
  ASSUME TypeOK, NEW symbol \in Symbols, NEW type \in AnomalyTypes, NEW now \in Clock,
         ~CoolingDown(symbol, type, now), last_emitted[symbol][type] # None
  PROVE  /\ CooldownSecs * TicksPerSecond \in Nat \ {0}
         /\ now - last_emitted[symbol][type] >= CooldownSecs * TicksPerSecond
<1> USE DetectorAssumption
<1> DEFINE previous == last_emitted[symbol][type]
           cooldown == CooldownSecs * TicksPerSecond
<1>1. previous \in Nat /\ now \in Nat
  BY DEF TypeOK, None
<1>2. ~(NonNeg(now - previous) \div TicksPerSecond < CooldownSecs)
  BY DEF CoolingDown
<1>3. cooldown \in Nat \ {0}
  OBVIOUS
<1>4. NonNeg(now - previous) \in Nat
  BY <1>1 DEF NonNeg
<1>5. NonNeg(now - previous) >= cooldown
  BY <1>2, <1>4, WholeSeconds
<1> HIDE DEF cooldown, previous
<1>6. now - previous >= cooldown
  BY <1>1, <1>3, <1>5 DEF NonNeg
<1> QED
  BY <1>3, <1>6 DEF cooldown, previous

\* The remembered emissions only move on, and a new one is remembered.
LEMMA MemoryMovesOn ==
  ASSUME TypeOK, NEW symbol \in Symbols, NEW m \in MarketStates, NEW now \in Clock,
         Evaluate(symbol, m, now)
  PROVE  /\ \A s \in Symbols, t \in AnomalyTypes : last_emitted[s][t] <= last_emitted'[s][t]
         /\ \A a \in emitted' : a \notin emitted =>
              last_emitted'[symbol][a.anomaly.type] = now
<1> USE DetectorAssumption
<1> DEFINE Passed(t) == \E b \in Raised(symbol, m, now) :
                          ~CoolingDown(symbol, b.type, now) /\ b.type = t
<1>1. /\ \A s \in Symbols : s # symbol => last_emitted'[s] = last_emitted[s]
      /\ \A t \in AnomalyTypes :
           last_emitted'[symbol][t] = IF Passed(t) THEN now ELSE last_emitted[symbol][t]
  BY DEF Evaluate, TypeOK
<1>2. \A t \in AnomalyTypes : Passed(t) => ~CoolingDown(symbol, t, now)
  OBVIOUS
<1>3. \A a \in emitted' : a \notin emitted =>
        a.anomaly.type \in AnomalyTypes /\ Passed(a.anomaly.type)
  BY EmittedGrows, RaisedTypes
<1> HIDE DEF Passed
<1>4. \A s \in Symbols, t \in AnomalyTypes : last_emitted[s][t] \in Nat \cup {None}
  BY DEF TypeOK
<1>5. ASSUME NEW t \in AnomalyTypes
      PROVE  last_emitted[symbol][t] <= last_emitted'[symbol][t]
  <2>1. CASE Passed(t) /\ last_emitted[symbol][t] # None
    <3> DEFINE cooldown == CooldownSecs * TicksPerSecond
    <3>1. cooldown \in Nat \ {0} /\ now - last_emitted[symbol][t] >= cooldown
      BY <1>2, <2>1, CooledDown
    <3> HIDE DEF cooldown
    <3> QED
      BY <1>1, <1>4, <2>1, <3>1 DEF None
  <2>2. CASE ~Passed(t) \/ last_emitted[symbol][t] = None
    BY <1>1, <1>4, <2>2 DEF None
  <2> QED
    BY <2>1, <2>2
<1>6. \A s \in Symbols, t \in AnomalyTypes : last_emitted[s][t] <= last_emitted[s][t]
  BY <1>4 DEF None
<1> QED
  BY <1>1, <1>3, <1>5, <1>6

\* An evaluation keeps the emissions remembered and apart.
LEMMA EvaluateCooldown ==
  ASSUME TypeOK, EmissionsRemembered, CooldownSpacing,
         NEW symbol \in Symbols, NEW m \in MarketStates, NEW now \in Clock,
         Evaluate(symbol, m, now)
  PROVE  EmissionsRemembered' /\ CooldownSpacing'
<1> USE DetectorAssumption
<1> DEFINE n == Len(evaluated) + 1
           cooldown == CooldownSecs * TicksPerSecond
<1>1. /\ n \in Nat
      /\ \A i \in DOMAIN evaluated : i \in Nat /\ i < n /\ evaluated'[i] = evaluated[i]
      /\ evaluated'[n].symbol = symbol
  BY EvaluatedGrows
<1>2. \A a \in emitted : /\ a.symbol \in Symbols
                         /\ a.anomaly.type \in AnomalyTypes
                         /\ a.created_at \in Nat
                         /\ a.position \in DOMAIN evaluated
                         /\ a.created_at <= last_emitted[a.symbol][a.anomaly.type]
                         /\ evaluated[a.position].symbol = a.symbol
  BY DEF TypeOK, EmissionsRemembered
<1>3. \A a \in emitted' : a \notin emitted =>
        /\ a.symbol = symbol /\ a.created_at = now /\ a.position = n
        /\ a.anomaly.type \in AnomalyTypes
        /\ ~CoolingDown(symbol, a.anomaly.type, now)
        /\ last_emitted'[symbol][a.anomaly.type] = now
  BY EmittedGrows, RaisedTypes, MemoryMovesOn
<1>4. /\ \A s \in Symbols, t \in AnomalyTypes : last_emitted[s][t] <= last_emitted'[s][t]
      /\ \A s \in Symbols, t \in AnomalyTypes : last_emitted[s][t] \in Nat \cup {None}
      /\ \A s \in Symbols, t \in AnomalyTypes : last_emitted'[s][t] \in Nat \cup {None}
  <2>1. TypeOK'
    BY NextTypeOK DEF Next
  <2> QED
    BY <2>1, MemoryMovesOn DEF TypeOK
<1>5. now \in Nat
  OBVIOUS
<1>6. EmissionsRemembered'
  <2> SUFFICES ASSUME NEW a \in emitted'
               PROVE  /\ evaluated'[a.position].symbol = a.symbol
                      /\ a.created_at <= last_emitted'[a.symbol][a.anomaly.type]
    BY DEF EmissionsRemembered
  <2>1. CASE a \in emitted
    <3> DEFINE old == last_emitted[a.symbol][a.anomaly.type]
               new == last_emitted'[a.symbol][a.anomaly.type]
    <3>1. /\ a.created_at \in Nat /\ a.created_at <= old /\ old <= new
          /\ old \in Nat \cup {None} /\ new \in Nat \cup {None}
      BY <1>2, <1>4, <2>1
    <3> HIDE DEF old, new
    <3>2. a.created_at <= new
      BY <3>1 DEF None
    <3>3. evaluated'[a.position].symbol = a.symbol
      BY <1>1, <1>2, <2>1
    <3> QED
      BY <3>2, <3>3 DEF new
  <2>2. CASE a \notin emitted
    BY <1>1, <1>3, <1>5, <2>2
  <2> QED
    BY <2>1, <2>2
<1>7. CooldownSpacing'
  <2> SUFFICES ASSUME NEW a \in emitted', NEW b \in emitted',
                      a.symbol = b.symbol, a.anomaly.type = b.anomaly.type,
                      a.position < b.position
               PROVE  b.created_at - a.created_at >= cooldown
    BY DEF CooldownSpacing
  <2>1. CASE a \in emitted /\ b \in emitted
    BY <2>1 DEF CooldownSpacing
  <2>2. CASE a \notin emitted
    <3>1. b.position \in Nat /\ b.position <= n
      BY <1>1, <1>2, <1>3
    <3> QED
      BY <1>1, <1>3, <2>2, <3>1
  <2>3. CASE a \in emitted /\ b \notin emitted
    <3> DEFINE previous == last_emitted[symbol][a.anomaly.type]
    <3>1. /\ a.symbol = symbol /\ a.anomaly.type \in AnomalyTypes
          /\ ~CoolingDown(symbol, a.anomaly.type, now)
          /\ a.created_at \in Nat /\ a.created_at <= previous /\ b.created_at = now
          /\ previous \in Nat \cup {None}
      BY <1>2, <1>3, <1>4, <2>3
    <3>2. previous # None
      BY <3>1 DEF None
    <3>3. cooldown \in Nat \ {0} /\ now - previous >= cooldown
      BY <3>1, <3>2, CooledDown
    <3> HIDE DEF cooldown, previous
    <3> QED
      BY <1>5, <3>1, <3>2, <3>3
  <2> QED
    BY <2>1, <2>2, <2>3
<1> QED
  BY <1>6, <1>7

-----------------------------------------------------------------------------
(* The depth gaps *)

\* An evaluation keeps the evaluations in order: event times and counts follow
\* those before, and the detector has then seen the count evaluated.
LEMMA EvaluateOrder ==
  ASSUME TypeOK, EvaluationsInOrder,
         NEW symbol \in Symbols, NEW m \in MarketStates, NEW now \in Clock,
         Evaluate(symbol, m, now)
  PROVE  EvaluationsInOrder'
<1> DEFINE n == Len(evaluated) + 1
           Count(i) == evaluated[i].state.depth_sequence_gap_count
           Time(i) == evaluated[i].state.last_event_time
<1>1. /\ n \in Nat
      /\ DOMAIN evaluated' = DOMAIN evaluated \cup {n}
      /\ \A i \in DOMAIN evaluated : i \in Nat /\ i < n /\ evaluated'[i] = evaluated[i]
      /\ evaluated'[n].symbol = symbol /\ evaluated'[n].state = m
  BY EvaluatedGrows
<1>2. /\ m.last_event_time \in Nat /\ m.depth_sequence_gap_count \in Nat
      /\ \A i \in EvaluationsOf(symbol) :
           Count(i) <= m.depth_sequence_gap_count /\ Time(i) <= m.last_event_time
  BY DetectorAssumption DEF Evaluate, Follows
<1>3. /\ depth_sequence_gap_state'[symbol] = m.depth_sequence_gap_count
      /\ \A s \in Symbols : s # symbol =>
           depth_sequence_gap_state'[s] = depth_sequence_gap_state[s]
  BY DEF Evaluate, TypeOK, GapNext
<1>4. \A i \in DOMAIN evaluated : evaluated[i].symbol \in Symbols
  BY EvaluatedGrows
<1> SUFFICES ASSUME NEW i \in DOMAIN evaluated'
             PROVE  /\ evaluated'[i].state.depth_sequence_gap_count
                         <= depth_sequence_gap_state'[evaluated'[i].symbol]
                    /\ \A j \in DOMAIN evaluated' :
                         evaluated'[j].symbol = evaluated'[i].symbol /\ i <= j =>
                           evaluated'[i].state.last_event_time
                             <= evaluated'[j].state.last_event_time
  BY DEF EvaluationsInOrder, EvaluationsOf
<1>5. evaluated'[i].state.depth_sequence_gap_count
        <= depth_sequence_gap_state'[evaluated'[i].symbol]
  BY <1>1, <1>2, <1>3, <1>4 DEF EvaluationsInOrder, EvaluationsOf
<1>6. ASSUME NEW j \in DOMAIN evaluated', evaluated'[j].symbol = evaluated'[i].symbol, i <= j
      PROVE  evaluated'[i].state.last_event_time <= evaluated'[j].state.last_event_time
  <2>1. CASE j \in DOMAIN evaluated
    <3>1. i \in DOMAIN evaluated
      BY <1>1, <1>6, <2>1
    <3> QED
      BY <1>1, <1>6, <2>1, <3>1 DEF EvaluationsInOrder, EvaluationsOf
  <2>2. CASE j = n
    BY <1>1, <1>2, <1>6, <2>2 DEF EvaluationsOf
  <2> QED
    BY <1>1, <2>1, <2>2
<1> QED
  BY <1>5, <1>6

\* An evaluation reports no gap that was reported: it covers the gaps since the
\* count seen last, which is at least the count of every earlier report.
LEMMA EvaluateGaps ==
  ASSUME TypeOK, EmissionsRemembered, EvaluationsInOrder, GapsReportedOnce,
         NEW symbol \in Symbols, NEW m \in MarketStates, NEW now \in Clock,
         Evaluate(symbol, m, now)
  PROVE  GapsReportedOnce'
<1> DEFINE n == Len(evaluated) + 1
           seen == depth_sequence_gap_state[symbol]
<1>1. /\ n \in Nat
      /\ \A i \in DOMAIN evaluated : i \in Nat /\ i < n /\ evaluated'[i] = evaluated[i]
      /\ evaluated'[n].state = m
  BY EvaluatedGrows
<1>2. \A a \in emitted : a.position \in DOMAIN evaluated /\ CountAt(a)' = CountAt(a)
  BY <1>1 DEF TypeOK, CountAt
<1>3. \A a \in emitted' : a \notin emitted =>
        /\ a.symbol = symbol /\ a.position = n
        /\ CountAt(a)' = m.depth_sequence_gap_count
        /\ a.anomaly.type = "DepthSequenceGap" =>
             a.anomaly \in DepthSequenceGap(seen, m)
  BY <1>1, EmittedGrows, RaisedTypes DEF CountAt
<1> SUFFICES ASSUME NEW a \in emitted', NEW b \in emitted',
                    a.anomaly.type = "DepthSequenceGap", b.anomaly.type = "DepthSequenceGap",
                    a.symbol = b.symbol, a.position < b.position
             PROVE  CountAt(a)' <= CountAt(b)' - b.anomaly.observed
  BY DEF GapsReportedOnce, CountAt
<1>4. CASE a \in emitted /\ b \in emitted
  BY <1>2, <1>4 DEF GapsReportedOnce
<1>5. CASE a \notin emitted
  <2>1. b.position \in Nat /\ b.position <= n
    BY <1>1, <1>2, <1>3
  <2> QED
    BY <1>1, <1>3, <1>5, <2>1
<1>6. CASE a \in emitted /\ b \notin emitted
  <2>1. CountAt(a) <= seen
    BY <1>2, <1>3, <1>6 DEF EmissionsRemembered, EvaluationsInOrder, CountAt
  <2>2. b.anomaly.observed = m.depth_sequence_gap_count - seen
    BY <1>3, <1>6 DEF DepthSequenceGap
  <2>3. CountAt(a)' = CountAt(a) /\ CountAt(b)' = m.depth_sequence_gap_count
    BY <1>2, <1>3, <1>6
  <2>4. seen \in Nat /\ m.depth_sequence_gap_count \in Nat
    BY DetectorAssumption DEF TypeOK
  <2>5. CountAt(a) \in Nat
    <3>1. evaluated[a.position].state \in MarketStates
      BY <1>2, <1>6, EvaluatedGrows
    <3> QED
      BY <3>1, DetectorAssumption DEF CountAt
  <2> HIDE DEF seen
  <2> QED
    BY <2>1, <2>2, <2>3, <2>4, <2>5
<1> QED
  BY <1>4, <1>5, <1>6

-----------------------------------------------------------------------------
(* The stuck quotes *)

\* What holds of a symbol's book since an evaluation, after another one.
LEMMA StuckSinceGrows ==
  ASSUME TypeOK, NEW symbol \in Symbols, NEW m \in MarketStates, NEW now \in Clock,
         Evaluate(symbol, m, now), NEW n, n = Len(evaluated) + 1
  PROVE  /\ EvaluationsOf(symbol)' = EvaluationsOf(symbol) \cup {n}
         /\ n \notin EvaluationsOf(symbol)
         /\ \A i \in EvaluationsOf(symbol) : \A x :
              StuckSince(symbol, i, x)' <=> StuckSince(symbol, i, x) /\ m.signature = x
         /\ \A x : StuckSince(symbol, n, x)' <=> m.signature = x
         /\ \A s \in Symbols : s # symbol =>
              /\ EvaluationsOf(s)' = EvaluationsOf(s)
              /\ \A i, x : StuckSince(s, i, x)' <=> StuckSince(s, i, x)
<1>1. /\ n \in Nat
      /\ \A i \in DOMAIN evaluated : i \in Nat /\ i < n /\ evaluated'[i] = evaluated[i]
      /\ evaluated'[n].state = m
      /\ EvaluationsOf(symbol)' = EvaluationsOf(symbol) \cup {n}
      /\ \A s \in Symbols : s # symbol => EvaluationsOf(s)' = EvaluationsOf(s)
  BY EvaluatedGrows
<1>2. \A s : EvaluationsOf(s) \subseteq DOMAIN evaluated
  BY DEF EvaluationsOf
<1>3. n \notin EvaluationsOf(symbol)
  BY <1>1, <1>2
<1>4. \A i \in EvaluationsOf(symbol) : \A x :
        StuckSince(symbol, i, x)' <=> StuckSince(symbol, i, x) /\ m.signature = x
  BY <1>1, <1>2 DEF StuckSince
<1>5. \A x : StuckSince(symbol, n, x)' <=> m.signature = x
  BY <1>1, <1>2 DEF StuckSince
<1>6. ASSUME NEW s \in Symbols, s # symbol, NEW i, NEW x
      PROVE  StuckSince(s, i, x)' <=> StuckSince(s, i, x)
  BY <1>1, <1>2, <1>6 DEF StuckSince
<1> QED
  BY <1>1, <1>3, <1>4, <1>5, <1>6

\* An evaluation keeps what the detector remembers of every symbol.
LEMMA EvaluateStuckMemory ==
  ASSUME TypeOK, StuckMemory,
         NEW symbol \in Symbols, NEW m \in MarketStates, NEW now \in Clock,
         Evaluate(symbol, m, now)
  PROVE  StuckMemory'
<1> DEFINE Part1(s) == \A i \in EvaluationsOf(s), x \in Signatures :
             StuckSince(s, i, x) =>
               /\ quote_stuck_state[s].last_signature = x
               /\ x # None => quote_stuck_state[s].last_changed_at
                               <= evaluated[i].state.last_event_time
           Part2(s) == quote_stuck_state[s].last_signature # None =>
             \E k \in EvaluationsOf(s) :
               /\ StuckSince(s, k, quote_stuck_state[s].last_signature)
               /\ quote_stuck_state[s].last_changed_at = evaluated[k].state.last_event_time
<1>1. PICK n : n = Len(evaluated) + 1
  OBVIOUS
<1>2. /\ \A i \in DOMAIN evaluated : evaluated'[i] = evaluated[i]
      /\ evaluated'[n].state = m
  BY <1>1, EvaluatedGrows
<1>3. /\ EvaluationsOf(symbol)' = EvaluationsOf(symbol) \cup {n}
      /\ \A i \in EvaluationsOf(symbol) : \A x :
           StuckSince(symbol, i, x)' <=> StuckSince(symbol, i, x) /\ m.signature = x
      /\ \A x : StuckSince(symbol, n, x)' <=> m.signature = x
      /\ \A s \in Symbols : s # symbol =>
           /\ EvaluationsOf(s)' = EvaluationsOf(s)
           /\ \A i, x : StuckSince(s, i, x)' <=> StuckSince(s, i, x)
  BY <1>1, StuckSinceGrows
<1>4. /\ quote_stuck_state'[symbol] = StuckNext(quote_stuck_state[symbol], m)
      /\ \A s \in Symbols : s # symbol => quote_stuck_state'[s] = quote_stuck_state[s]
  BY DEF Evaluate, TypeOK
<1>5. \A s : EvaluationsOf(s) \subseteq DOMAIN evaluated
  BY DEF EvaluationsOf
<1>6. \A s \in Symbols : Part1(s) /\ Part2(s)
  BY DEF StuckMemory
<1>7. ASSUME NEW s \in Symbols, s # symbol
      PROVE  Part1(s)' /\ Part2(s)'
  BY <1>2, <1>3, <1>4, <1>5, <1>6, <1>7
<1>8. Part1(symbol)' /\ Part2(symbol)'
  <2> DEFINE q == quote_stuck_state[symbol]
             r == StuckNext(q, m)
  <2>1. /\ m.last_event_time \in Nat
        /\ \A i \in EvaluationsOf(symbol) :
             evaluated[i].state.last_event_time <= m.last_event_time
    BY DetectorAssumption DEF Evaluate, Follows
  <2>2. /\ r.last_signature = m.signature
        /\ m.signature # None /\ q.last_signature = m.signature => r = q
        /\ m.signature # None /\ q.last_signature # m.signature =>
             r.last_changed_at = m.last_event_time
    BY DEF StuckNext, NewStuck
  <2>3. m.signature # None /\ q.last_signature = m.signature =>
          \E k \in EvaluationsOf(symbol) :
            /\ StuckSince(symbol, k, m.signature)
            /\ q.last_changed_at = evaluated[k].state.last_event_time
    BY <1>6
  <2>4. ASSUME NEW i \in EvaluationsOf(symbol), StuckSince(symbol, i, m.signature),
               m.signature # None
        PROVE  /\ q.last_signature = m.signature
               /\ q.last_changed_at <= evaluated[i].state.last_event_time
    BY <1>6, <2>4 DEF Signatures
  <2> HIDE DEF r, Part1, Part2
  <2>5. m.signature # None => r.last_changed_at <= m.last_event_time
    BY <2>1, <2>2, <2>3
  <2>6. ASSUME NEW i \in EvaluationsOf(symbol)', NEW x, StuckSince(symbol, i, x)'
        PROVE  /\ r.last_signature = x
               /\ x # None => r.last_changed_at <= evaluated'[i].state.last_event_time
    <3>1. x = m.signature
      BY <1>3, <2>6
    <3>2. CASE i = n
      BY <1>2, <2>2, <2>5, <3>1, <3>2
    <3>3. CASE i \in EvaluationsOf(symbol)
      BY <1>2, <1>3, <1>5, <2>2, <2>4, <2>6, <3>1, <3>3
    <3> QED
      BY <1>3, <3>2, <3>3
  <2>7. ASSUME m.signature # None
        PROVE  \E k \in EvaluationsOf(symbol)' :
                 /\ StuckSince(symbol, k, m.signature)'
                 /\ r.last_changed_at = evaluated'[k].state.last_event_time
    <3>1. CASE q.last_signature = m.signature
      BY <1>2, <1>3, <1>5, <2>2, <2>3, <2>7, <3>1
    <3>2. CASE q.last_signature # m.signature
      BY <1>2, <1>3, <2>2, <2>7, <3>2
    <3> QED
      BY <3>1, <3>2
  <2> QED
    BY <1>4, <2>2, <2>6, <2>7 DEF r, Part1, Part2
<1> QED
  BY <1>7, <1>8 DEF StuckMemory

\* The detector calls a quote stuck exactly if it should.
LEMMA EvaluateStuck ==
  ASSUME TypeOK, StuckMemory,
         NEW symbol \in Symbols, NEW m \in MarketStates, NEW now \in Clock,
         Evaluate(symbol, m, now)
  PROVE  StuckExactly'
<1> DEFINE q == quote_stuck_state[symbol]
           threshold == Settings.quote_stuck_ms
           stuck == m.last_event_time - q.last_changed_at
<1>1. PICK n : n = Len(evaluated) + 1
  OBVIOUS
<1>2. /\ \A i \in DOMAIN evaluated : evaluated'[i] = evaluated[i]
                                     /\ evaluated[i].state \in MarketStates
      /\ evaluated'[n].state = m /\ evaluated'[n].symbol = symbol
      /\ Len(evaluated') = n
  BY <1>1, EvaluatedGrows
<1>3. /\ EvaluationsOf(symbol)' = EvaluationsOf(symbol) \cup {n}
      /\ \A i \in EvaluationsOf(symbol) : \A x :
           StuckSince(symbol, i, x)' <=> StuckSince(symbol, i, x) /\ m.signature = x
  BY <1>1, StuckSinceGrows
<1>4. EvaluationsOf(symbol) \subseteq DOMAIN evaluated
  BY DEF EvaluationsOf
<1>5. /\ threshold \in Nat \ {0}
      /\ m.last_event_time \in Nat
      /\ \A i \in EvaluationsOf(symbol) : evaluated[i].state.last_event_time \in Nat
  BY <1>2, <1>4, DetectorAssumption DEF SettingFields
<1>6. q.last_changed_at \in Int
  BY DEF TypeOK, None
<1>7. "QuoteStuck" \in raised' <=> QuoteStuck(q, m) # {}
  <2>1. raised' = {a.type : a \in Raised(symbol, m, now)}
    BY DEF Evaluate
  <2>2. QuoteStuck(q, m) \subseteq Raised(symbol, m, now)
    BY DEF Raised
  <2> QED
    BY <2>1, <2>2, RaisedTypes
<1>8. QuoteStuck(q, m) # {} <=>
        m.signature # None /\ q.last_signature = m.signature /\ stuck >= threshold
  <2>1. NonNeg(stuck) \in Int /\ (NonNeg(stuck) >= threshold <=> stuck >= threshold)
    BY <1>5, <1>6 DEF NonNeg
  <2>2. Above("QuoteStuck", NonNeg(stuck), threshold) # {} <=> NonNeg(stuck) >= threshold
    BY <1>5, <2>1, AboveIs
  <2> HIDE DEF threshold
  <2> QED
    BY <2>1, <2>2 DEF QuoteStuck, threshold
<1>9. ASSUME QuoteStuck(q, m) # {}
      PROVE  \E i \in EvaluationsOf(symbol)' :
               /\ StuckSince(symbol, i, m.signature)'
               /\ m.last_event_time - evaluated'[i].state.last_event_time >= threshold
  <2>1. PICK k \in EvaluationsOf(symbol) :
          /\ StuckSince(symbol, k, m.signature)
          /\ q.last_changed_at = evaluated[k].state.last_event_time
    BY <1>8, <1>9 DEF StuckMemory
  <2> QED
    BY <1>2, <1>3, <1>4, <1>8, <1>9, <2>1
<1>10. ASSUME NEW i \in EvaluationsOf(symbol)', m.signature # None,
              StuckSince(symbol, i, m.signature)',
              m.last_event_time - evaluated'[i].state.last_event_time >= threshold
       PROVE  QuoteStuck(q, m) # {}
  <2>1. i # n
    BY <1>2, <1>5, <1>10
  <2>2. i \in EvaluationsOf(symbol) /\ StuckSince(symbol, i, m.signature)
    BY <1>3, <1>10, <2>1
  <2>3. /\ q.last_signature = m.signature
        /\ q.last_changed_at <= evaluated[i].state.last_event_time
    BY <1>10, <2>2 DEF StuckMemory, Signatures
  <2>4. evaluated'[i] = evaluated[i]
    BY <1>2, <1>4, <2>2
  <2>5. stuck >= threshold
    BY <1>5, <1>6, <1>10, <2>2, <2>3, <2>4
  <2> QED
    BY <1>8, <1>10, <2>3, <2>5
<1>11. "QuoteStuck" \in raised' <=>
         \E i \in EvaluationsOf(symbol)' :
           /\ m.signature # None
           /\ StuckSince(symbol, i, m.signature)'
           /\ m.last_event_time - evaluated'[i].state.last_event_time >= threshold
  BY <1>7, <1>8, <1>9, <1>10
<1>12. Latest'.symbol = symbol /\ Latest'.state = m
  BY <1>2 DEF Latest
<1> HIDE DEF threshold
<1> QED
  BY <1>11, <1>12 DEF StuckExactly, StuckSince, threshold

-----------------------------------------------------------------------------
(* Sums *)

\* g gives the sum of f over each subset of S
Sums(S, f, g) ==
  /\ g[{}] = 0
  /\ \A s \in SUBSET S : g[s] \in Int
  /\ \A s \in SUBSET S : \A x \in s : g[s] = f[x] + g[s \ {x}]

\* The strict subsets of a finite set are a well-founded order.
LEMMA SubsetsWellFounded ==
  ASSUME NEW S, IsFiniteSet(S)
  PROVE  IsWellFoundedOn(StrictSubsetOrdering(S), SUBSET S)
<1>1. FiniteSubsetsOf(S) = SUBSET S
  BY FS_FiniteSubsetsOfFinite
<1> QED
  BY <1>1, FS_StrictSubsetOrderingWellFounded

\* One more element extends the sums.
LEMMA SumsExtend ==
  ASSUME NEW T, NEW f, \A x \in T : f[x] \in Int, NEW x \in T, NEW g, Sums(T \ {x}, f, g)
  PROVE  \E h : Sums(T, f, h)
<1> DEFINE U == T \ {x}
           h == [s \in SUBSET T |-> IF x \in s THEN f[x] + g[s \ {x}] ELSE g[s]]
<1>1. \A s \in SUBSET T : s \ {x} \in SUBSET U /\ (x \notin s => s \in SUBSET U)
  OBVIOUS
<1>2. \A s \in SUBSET T : x \in s => h[s] = f[x] + g[s \ {x}]
  OBVIOUS
<1>3. \A s \in SUBSET T : x \notin s => h[s] = g[s]
  OBVIOUS
<1>4. /\ g[{}] = 0
      /\ \A s \in SUBSET U : g[s] \in Int
      /\ \A s \in SUBSET U : \A y \in s : g[s] = f[y] + g[s \ {y}]
  BY DEF Sums
<1> HIDE DEF h, U
<1>5. h[{}] = 0
  BY <1>3, <1>4
<1>6. ASSUME NEW s \in SUBSET T PROVE h[s] \in Int
  <2>1. CASE x \in s
    <3>1. g[s \ {x}] \in Int /\ f[x] \in Int
      BY <1>1, <1>4
    <3> QED
      BY <1>2, <2>1, <3>1
  <2>2. CASE x \notin s
    BY <1>1, <1>3, <1>4, <2>2
  <2> QED
    BY <2>1, <2>2
<1>7. ASSUME NEW s \in SUBSET T, NEW y \in s
      PROVE  h[s] = f[y] + h[s \ {y}]
  <2>1. s \ {y} \in SUBSET T
    OBVIOUS
  <2>2. CASE y = x
    BY <1>2, <1>3, <2>1, <2>2
  <2>3. CASE y # x /\ x \in s
    <3>1. h[s] = f[x] + g[s \ {x}] /\ h[s \ {y}] = f[x] + g[(s \ {y}) \ {x}]
      BY <1>2, <2>1, <2>3
    <3>2. g[s \ {x}] = f[y] + g[(s \ {x}) \ {y}]
      BY <1>1, <1>4, <2>3
    <3>3. (s \ {x}) \ {y} = (s \ {y}) \ {x}
      OBVIOUS
    <3>4. g[(s \ {x}) \ {y}] \in Int /\ f[x] \in Int /\ f[y] \in Int
      BY <1>1, <1>4, <2>1, <3>3
    <3> DEFINE v == g[(s \ {x}) \ {y}]
    <3>5. h[s] = f[x] + (f[y] + v) /\ h[s \ {y}] = f[x] + v
      BY <3>1, <3>2, <3>3
    <3> HIDE DEF v
    <3> QED
      BY <3>4, <3>5 DEF v
  <2>4. CASE y # x /\ x \notin s
    BY <1>1, <1>3, <1>4, <2>1, <2>4
  <2> QED
    BY <2>2, <2>3, <2>4
<1> QED
  BY <1>5, <1>6, <1>7 DEF Sums

\* The numbers of a finite set have sums: induction over its subsets.
LEMMA SumsExist ==
  ASSUME NEW S, IsFiniteSet(S), NEW f, \A x \in S : f[x] \in Int
  PROVE  \E g : Sums(S, f, g)
<1> DEFINE Bad == {T \in SUBSET S : ~\E g : Sums(T, f, g)}
<1> SUFFICES ASSUME Bad # {} PROVE FALSE
  OBVIOUS
<1>1. IsWellFoundedOn(StrictSubsetOrdering(S), SUBSET S)
  BY SubsetsWellFounded
<1>2. Bad \subseteq SUBSET S
  OBVIOUS
<1> HIDE DEF Bad
<1>3. PICK T \in Bad : \A V \in Bad : ~(<<V, T>> \in StrictSubsetOrdering(S))
  BY <1>1, <1>2, WFMin
<1>4. T \in SUBSET S /\ ~\E g : Sums(T, f, g)
  BY DEF Bad
<1>5. T # {}
  <2> DEFINE zero == [s \in {{}} |-> 0]
  <2>1. \A s \in SUBSET {} : zero[s] = 0 /\ s = {}
    OBVIOUS
  <2> HIDE DEF zero
  <2>2. Sums({}, f, zero)
    BY <2>1 DEF Sums
  <2> QED
    BY <1>4, <2>2
<1>6. PICK x \in T : TRUE
  BY <1>5
<1>7. T \ {x} \in SUBSET S /\ T \ {x} \notin Bad
  <2>1. <<T \ {x}, T>> \in StrictSubsetOrdering(S)
    BY <1>4 DEF StrictSubsetOrdering
  <2> QED
    BY <1>3, <1>4, <2>1
<1>8. PICK g : Sums(T \ {x}, f, g)
  BY <1>7 DEF Bad
<1> QED
  BY <1>4, <1>8, SumsExtend

\* g sums f over the subsets of S, taking the elements in the order c chooses
IsSum(S, c, f, g) ==
  \A s \in SUBSET S :
    s # {} => c[s] \in s /\ g[s] = f[c[s]] + g[s \ {c[s]}]

\* Two sums that start alike are equal: induction over the subsets.
LEMMA SumIsUnique ==
  ASSUME NEW S, IsFiniteSet(S), NEW c, NEW f, NEW g, NEW h,
         IsSum(S, c, f, g), IsSum(S, c, f, h), g[{}] = h[{}]
  PROVE  g[S] = h[S]
<1> DEFINE Bad == {T \in SUBSET S : g[T] # h[T]}
<1> SUFFICES ASSUME Bad # {} PROVE FALSE
  OBVIOUS
<1>1. IsWellFoundedOn(StrictSubsetOrdering(S), SUBSET S)
  BY SubsetsWellFounded
<1>2. Bad \subseteq SUBSET S
  OBVIOUS
<1> HIDE DEF Bad
<1>3. PICK T \in Bad : \A V \in Bad : ~(<<V, T>> \in StrictSubsetOrdering(S))
  BY <1>1, <1>2, WFMin
<1>4. T \in SUBSET S /\ T # {} /\ c[T] \in T
  BY DEF Bad, IsSum
<1>5. <<T \ {c[T]}, T>> \in StrictSubsetOrdering(S)
  BY <1>4 DEF StrictSubsetOrdering
<1>6. T \ {c[T]} \in SUBSET S /\ T \ {c[T]} \notin Bad
  BY <1>3, <1>4, <1>5
<1>7. g[T \ {c[T]}] = h[T \ {c[T]}]
  BY <1>6 DEF Bad
<1> QED
  BY <1>4, <1>7 DEF Bad, IsSum

\* The sum of the rates at some positions is what the sums over them give.
LEMMA RatesSum ==
  ASSUME NEW evaluations, NEW B, IsFiniteSet(B), NEW f, NEW g, Sums(B, f, g),
         \A i \in B : f[i] = evaluations[i].state.trades_per_minute
  PROVE  SumOfRates(evaluations, B) = g[B]
<1> DEFINE At(i) == evaluations[i].state.trades_per_minute
           Step(iter) == [s \in SUBSET B |->
                            IF s = {} THEN 0
                            ELSE At(CHOOSE x \in s : TRUE)
                                   + iter[s \ {CHOOSE x \in s : TRUE}]]
           chosen == CHOOSE iter : iter = Step(iter)
           w == [s \in SUBSET B |-> g[s]]
           c == [s \in SUBSET B |-> CHOOSE x \in s : TRUE]
<1>1. SumOfRates(evaluations, B) = chosen[B]
  BY DEF SumOfRates, MapThenSumSet, MapThenFoldSet
<1>2. \A s \in SUBSET B : s # {} => c[s] \in s
  OBVIOUS
<1>3. w[{}] = 0
  BY DEF Sums
<1>4. \A s \in SUBSET B : s # {} => w[s] = f[c[s]] + w[s \ {c[s]}]
  <2> SUFFICES ASSUME NEW s \in SUBSET B, s # {}
               PROVE  w[s] = f[c[s]] + w[s \ {c[s]}]
    OBVIOUS
  <2>1. c[s] \in s /\ s \ {c[s]} \in SUBSET B
    BY <1>2
  <2> HIDE DEF c
  <2> QED
    BY <2>1 DEF Sums
<1>5. \A s \in SUBSET B : s # {} =>
        /\ c[s] = CHOOSE x \in s : TRUE
        /\ f[c[s]] = At(c[s])
  BY <1>2
<1> HIDE DEF At
<1>6. w = Step(w)
  <2>1. \A s \in SUBSET B : w[s] = Step(w)[s]
    <3> SUFFICES ASSUME NEW s \in SUBSET B PROVE w[s] = Step(w)[s]
      OBVIOUS
    <3> HIDE DEF w
    <3>1. CASE s = {}
      BY <1>3, <3>1
    <3>2. CASE s # {}
      <4>1. Step(w)[s] = At(CHOOSE x \in s : TRUE) + w[s \ {CHOOSE x \in s : TRUE}]
        BY <3>2
      <4>2. w[s] = At(c[s]) + w[s \ {c[s]}] /\ c[s] = CHOOSE x \in s : TRUE
        BY <1>4, <1>5, <3>2
      <4> HIDE DEF c, Step
      <4> QED
        BY <4>1, <4>2
    <3> QED
      BY <3>1, <3>2
  <2> QED
    BY <2>1
<1>7. chosen = Step(chosen)
  <2> HIDE DEF Step, w
  <2>1. \E iter : iter = Step(iter)
    BY <1>6
  <2> QED
    BY <2>1, Zenon DEF chosen
<1> HIDE DEF chosen
<1>8. chosen[{}] = 0
  BY <1>7
<1>9. \A s \in SUBSET B : s # {} => chosen[s] = f[c[s]] + chosen[s \ {c[s]}]
  <2> SUFFICES ASSUME NEW s \in SUBSET B, s # {}
               PROVE  chosen[s] = f[c[s]] + chosen[s \ {c[s]}]
    OBVIOUS
  <2>1. c[s] = (CHOOSE x \in s : TRUE) /\ f[c[s]] = At(c[s])
    BY <1>5
  <2>2. chosen[s] = Step(chosen)[s]
    BY <1>7, Zenon
  <2>3. Step(chosen)[s] = At(CHOOSE x \in s : TRUE) + chosen[s \ {CHOOSE x \in s : TRUE}]
    OBVIOUS
  <2> HIDE DEF c, Step
  <2> QED
    BY <2>1, <2>2, <2>3
<1> HIDE DEF w, c
<1>10. IsSum(B, c, f, w) /\ IsSum(B, c, f, chosen)
  BY <1>2, <1>4, <1>9 DEF IsSum
<1>11. chosen[B] = w[B]
  BY <1>3, <1>8, <1>10, SumIsUnique
<1> QED
  BY <1>1, <1>11 DEF w

\* n is a position besides B, and new has the same evaluations as old at B
Grown(old, new, B, n) ==
  /\ IsFiniteSet(B) /\ n \notin B
  /\ \A i \in B : old[i] = new[i]
  /\ \A i \in B \cup {n} : new[i].state.trades_per_minute \in Int

\* The sum of rates at positions that were there before is kept.
LEMMA RatesKept ==
  ASSUME NEW old, NEW new, NEW B, NEW n, Grown(old, new, B, n)
  PROVE  SumOfRates(new, B) = SumOfRates(old, B)
<1> DEFINE f == [i \in B |-> new[i].state.trades_per_minute]
<1>1. \A i \in B : /\ f[i] = new[i].state.trades_per_minute
                   /\ f[i] = old[i].state.trades_per_minute
                   /\ f[i] \in Int
  BY DEF Grown
<1> HIDE DEF f
<1>2. IsFiniteSet(B)
  BY DEF Grown
<1>3. PICK g : Sums(B, f, g)
  BY <1>1, <1>2, SumsExist
<1>4. SumOfRates(new, B) = g[B]
  BY <1>1, <1>2, <1>3, RatesSum
<1>5. SumOfRates(old, B) = g[B]
  BY <1>1, <1>2, <1>3, RatesSum
<1> QED
  BY <1>4, <1>5

\* The sum of rates grows by the rate of a position that is added.
LEMMA RatesGrow ==
  ASSUME NEW old, NEW new, NEW B, NEW n, Grown(old, new, B, n)
  PROVE  SumOfRates(new, B \cup {n}) = SumOfRates(old, B) + new[n].state.trades_per_minute
<1> USE DEF Grown
<1> DEFINE D == B \cup {n}
           f == [i \in D |-> new[i].state.trades_per_minute]
<1>1. IsFiniteSet(D)
  BY FS_AddElement
<1>2. \A i \in D : f[i] = new[i].state.trades_per_minute
  OBVIOUS
<1> HIDE DEF f
<1>3. PICK g : Sums(D, f, g)
  BY <1>1, <1>2, SumsExist
<1>4. Sums(B, f, g)
  BY <1>3 DEF Sums
<1>5. SumOfRates(new, D) = g[D]
  BY <1>1, <1>2, <1>3, RatesSum
<1>6. SumOfRates(new, B) = g[B]
  BY <1>2, <1>4, RatesSum
<1>7. SumOfRates(old, B) = g[B]
  BY <1>6, RatesKept
<1>8. D \ {n} = B /\ n \in D /\ D \in SUBSET D /\ B \in SUBSET B
  OBVIOUS
<1>9. g[D] = f[n] + g[B] /\ g[B] \in Int /\ f[n] \in Int
  BY <1>2, <1>3, <1>4, <1>8 DEF Sums
<1> DEFINE sum == g[B]
           rate == f[n]
<1>10. /\ SumOfRates(old, B) = sum
       /\ SumOfRates(new, D) = rate + sum
       /\ new[n].state.trades_per_minute = rate
  BY <1>2, <1>5, <1>7, <1>8, <1>9
<1> HIDE DEF sum, rate
<1>11. sum \in Int /\ rate \in Int
  BY <1>9 DEF sum, rate
<1> QED
  BY <1>10, <1>11

\* No positions have no rates to sum.
LEMMA NoRates ==
  ASSUME NEW evaluations PROVE SumOfRates(evaluations, {}) = 0
<1>1. PICK g : Sums({}, <<>>, g)
  BY FS_EmptySet, SumsExist
<1>2. SumOfRates(evaluations, {}) = g[{}]
  BY <1>1, FS_EmptySet, RatesSum
<1> QED
  BY <1>1, <1>2 DEF Sums

-----------------------------------------------------------------------------
(* Trade bursts *)

\* The evaluation joins the observed ones exactly if the detector looks at it.
LEMMA ObservedGrows ==
  ASSUME TypeOK, BurstMemory,
         NEW symbol \in Symbols, NEW m \in MarketStates, NEW now \in Clock,
         Evaluate(symbol, m, now)
  PROVE  LET n == Len(evaluated) + 1
             b == trade_burst_state[symbol] IN
         /\ \A s \in Symbols : s # symbol =>
              Rated(s)' = Rated(s) /\ Observed(s)' = Observed(s)
         /\ Rated(symbol)' = IF m.trades_per_minute = None THEN Rated(symbol)
                             ELSE Rated(symbol) \cup {n}
         /\ Observed(symbol)' = IF BurstObserves(b, m) THEN Observed(symbol) \cup {n}
                                ELSE Observed(symbol)
<1>0. PICK n : n = Len(evaluated) + 1
  OBVIOUS
<1> DEFINE b == trade_burst_state[symbol]
           r == m.trades_per_minute
<1>1. /\ n \in Nat
      /\ \A i \in DOMAIN evaluated : i \in Nat /\ i < n /\ evaluated'[i] = evaluated[i]
      /\ evaluated'[n].state = m
      /\ EvaluationsOf(symbol)' = EvaluationsOf(symbol) \cup {n}
      /\ \A s \in Symbols : s # symbol => EvaluationsOf(s)' = EvaluationsOf(s)
  BY <1>0, EvaluatedGrows
<1>2. \A s : EvaluationsOf(s) \subseteq DOMAIN evaluated /\ Rated(s) \subseteq EvaluationsOf(s)
  BY DEF EvaluationsOf, Rated
<1>3. /\ \A i \in DOMAIN evaluated : Rate(i)' = Rate(i)
      /\ Rate(n)' = r
  BY <1>1 DEF Rate
<1> HIDE DEF b, r
<1>4. \A s \in Symbols : s # symbol => Rated(s)' = Rated(s)
  BY <1>1, <1>2, <1>3 DEF Rated
<1>5. Rated(symbol)' = IF r = None THEN Rated(symbol) ELSE Rated(symbol) \cup {n}
  BY <1>1, <1>2, <1>3 DEF Rated
<1>6. \A s \in Symbols : s # symbol => Observed(s)' = Observed(s)
  BY <1>2, <1>3, <1>4 DEF Observed
<1>7. \A i \in Rated(symbol) : i \in Nat /\ i < n /\ Rate(i)' = Rate(i)
  BY <1>1, <1>2, <1>3
<1>8. CASE r = None
  <2>1. Observed(symbol)' = Observed(symbol)
    BY <1>5, <1>7, <1>8 DEF Observed
  <2> QED
    BY <1>0, <1>4, <1>5, <1>6, <1>8, <2>1 DEF BurstObserves, b, r
<1>9. CASE r # None
  <2>1. Rated(symbol)' = Rated(symbol) \cup {n}
    BY <1>5, <1>9
  <2>2. \A i \in Rated(symbol) : i \in Observed(symbol)' <=> i \in Observed(symbol)
    <3> SUFFICES ASSUME NEW i \in Rated(symbol)
                 PROVE  i \in Observed(symbol)' <=> i \in Observed(symbol)
      OBVIOUS
    <3>1. i \in Nat /\ ~(n < i) /\ i \in Rated(symbol)'
      BY <1>1, <1>7, <2>1
    <3>2. ASSUME NEW j \in Rated(symbol)
          PROVE  (\E k \in Rated(symbol)' : j < k /\ k < i /\ Rate(k)' # Rate(i)')
                   <=> (\E k \in Rated(symbol) : j < k /\ k < i /\ Rate(k) # Rate(i))
      BY <1>7, <2>1, <3>1
    <3>3. i \in Observed(symbol)' <=>
            \A j \in Rated(symbol)' : j < i /\ Rate(j)' = Rate(i)' =>
              \E k \in Rated(symbol)' : j < k /\ k < i /\ Rate(k)' # Rate(i)'
      BY <3>1 DEF Observed
    <3>4. i \in Observed(symbol)' <=>
            \A j \in Rated(symbol) : j < i /\ Rate(j) = Rate(i) =>
              \E k \in Rated(symbol)' : j < k /\ k < i /\ Rate(k)' # Rate(i)'
      BY <1>7, <2>1, <3>1, <3>3
    <3> QED
      BY <3>2, <3>4 DEF Observed
  <2>3. n \in Observed(symbol)' <=>
          \A j \in Rated(symbol) : Rate(j) = r =>
            \E k \in Rated(symbol) : j < k /\ Rate(k) # r
    <3>1. n \in Observed(symbol)' <=>
            \A j \in Rated(symbol)' : j < n /\ Rate(j)' = r =>
              \E k \in Rated(symbol)' : j < k /\ k < n /\ Rate(k)' # r
      BY <1>3, <2>1 DEF Observed
    <3>2. ~(n < n)
      BY <1>1
    <3> QED
      BY <1>7, <2>1, <3>1, <3>2
  <2>4. n \in Observed(symbol)' <=> r # b.last_evaluated
    <3>1. CASE Rated(symbol) = {} /\ b.last_evaluated = None
      BY <1>9, <2>3, <3>1
    <3>2. CASE \E i \in Rated(symbol) :
                 b.last_evaluated = Rate(i) /\ \A j \in Rated(symbol) : j <= i
      <4>1. PICK i \in Rated(symbol) :
              b.last_evaluated = Rate(i) /\ \A j \in Rated(symbol) : j <= i
        BY <3>2
      <4>2. \A j \in Rated(symbol) : ~(i < j) /\ (j # i => j < i)
        BY <1>7, <4>1
      <4> QED
        BY <2>3, <4>1, <4>2
    <3> QED
      BY <3>1, <3>2 DEF BurstMemory, b
  <2>5. Observed(symbol)' \subseteq Rated(symbol)' /\ Observed(symbol) \subseteq Rated(symbol)
    BY DEF Observed
  <2>6. BurstObserves(b, m) <=> r # b.last_evaluated
    BY <1>9 DEF BurstObserves, r
  <2>7. Observed(symbol)' = IF BurstObserves(b, m) THEN Observed(symbol) \cup {n}
                            ELSE Observed(symbol)
    BY <2>1, <2>2, <2>4, <2>5, <2>6
  <2> QED
    BY <1>0, <1>4, <1>5, <1>6, <2>7 DEF b, r
<1> QED
  BY <1>8, <1>9

\* The rates of the observed evaluations are numbers, and there are finitely many.
LEMMA ObservedRates ==
  ASSUME TypeOK, NEW symbol
  PROVE  /\ Observed(symbol) \subseteq DOMAIN evaluated
         /\ IsFiniteSet(Observed(symbol)) /\ Cardinality(Observed(symbol)) \in Nat
         /\ \A i \in Observed(symbol) : evaluated[i].state.trades_per_minute \in Nat
<1> DEFINE E == [symbol : Symbols, state : MarketStates, now : Clock]
<1>1. evaluated \in Seq(E)
  BY DEF TypeOK
<1>2. /\ DOMAIN evaluated = 1 .. Len(evaluated) /\ Len(evaluated) \in Nat
      /\ \A i \in 1 .. Len(evaluated) : evaluated[i] \in E
  BY <1>1, LenProperties, ElementOfSeq
<1>3. Observed(symbol) \subseteq DOMAIN evaluated
  BY DEF Observed, Rated, EvaluationsOf
<1>4. IsFiniteSet(DOMAIN evaluated)
  BY <1>2, FS_Interval
<1>5. \A i \in Observed(symbol) : Rate(i) # None
  BY DEF Observed, Rated
<1>6. IsFiniteSet(Observed(symbol)) /\ Cardinality(Observed(symbol)) \in Nat
  BY <1>3, <1>4, FS_Subset, FS_CardinalityType
<1>7. \A i \in Observed(symbol) : evaluated[i].state \in MarketStates
  BY <1>2, <1>3
<1> QED
  BY <1>3, <1>5, <1>6, <1>7, DetectorAssumption DEF Rate, None

\* The detector remembers what it has observed.
LEMMA EvaluateBurstMemory ==
  ASSUME TypeOK, BurstMemory,
         NEW symbol \in Symbols, NEW m \in MarketStates, NEW now \in Clock,
         Evaluate(symbol, m, now)
  PROVE  BurstMemory'
<1>0. PICK n : n = Len(evaluated) + 1
  OBVIOUS
<1> DEFINE b == trade_burst_state[symbol]
           r == m.trades_per_minute
<1>1. /\ n \in Nat /\ n \notin DOMAIN evaluated
      /\ \A i \in DOMAIN evaluated : i \in Nat /\ i < n /\ evaluated'[i] = evaluated[i]
      /\ evaluated'[n].state = m
  BY <1>0, EvaluatedGrows
<1>2. /\ \A s \in Symbols : s # symbol =>
           Rated(s)' = Rated(s) /\ Observed(s)' = Observed(s)
      /\ Rated(symbol)' = IF r = None THEN Rated(symbol) ELSE Rated(symbol) \cup {n}
      /\ Observed(symbol)' = IF BurstObserves(b, m) THEN Observed(symbol) \cup {n}
                             ELSE Observed(symbol)
  BY <1>0, ObservedGrows
<1>3. /\ trade_burst_state' \in [Symbols ->
           [sum : Nat, observation_count : Nat, last_evaluated : Nat \cup {None}]]
      /\ b \in [sum : Nat, observation_count : Nat, last_evaluated : Nat \cup {None}]
      /\ trade_burst_state'[symbol] = BurstNext(b, m)
      /\ \A s \in Symbols : s # symbol => trade_burst_state'[s] = trade_burst_state[s]
  <2>1. TypeOK'
    BY NextTypeOK DEF Next
  <2>2. trade_burst_state' = [trade_burst_state EXCEPT ![symbol] = BurstNext(@, m)]
    BY DEF Evaluate
  <2> QED
    BY <2>1, <2>2 DEF TypeOK
<1>4. r \in Int
  BY DetectorAssumption DEF None
<1>5. \A s \in Symbols : /\ \A i \in Rated(s) : i \in Nat /\ i < n /\ Rate(i)' = Rate(i)
                         /\ SumOfRates(evaluated', Observed(s)) = SumOfRates(evaluated, Observed(s))
  <2> SUFFICES ASSUME NEW s \in Symbols
               PROVE  /\ \A i \in Rated(s) : i \in Nat /\ i < n /\ Rate(i)' = Rate(i)
                      /\ SumOfRates(evaluated', Observed(s)) = SumOfRates(evaluated, Observed(s))
    OBVIOUS
  <2>1. \A i \in Rated(s) : i \in Nat /\ i < n /\ Rate(i)' = Rate(i)
    BY <1>1 DEF Rated, EvaluationsOf, Rate
  <2>2. Grown(evaluated, evaluated', Observed(s), n)
    BY <1>1, <1>4, ObservedRates DEF Grown
  <2>3. SumOfRates(evaluated', Observed(s)) = SumOfRates(evaluated, Observed(s))
    BY <2>2, RatesKept
  <2> QED
    BY <2>1, <2>3
<1> DEFINE Counts(s) ==
             /\ trade_burst_state[s].observation_count = Cardinality(Observed(s))
             /\ trade_burst_state[s].sum = SumOfRates(evaluated, Observed(s))
           Last(s) ==
             \/ Rated(s) = {} /\ trade_burst_state[s].last_evaluated = None
             \/ \E i \in Rated(s) : /\ trade_burst_state[s].last_evaluated = Rate(i)
                                    /\ \A j \in Rated(s) : j <= i
<1>6. \A s \in Symbols : Counts(s) /\ Last(s)
  BY DEF BurstMemory
<1>7. ASSUME NEW s \in Symbols, s # symbol PROVE Counts(s)' /\ Last(s)'
  <2>1. Counts(s)'
    BY <1>2, <1>3, <1>5, <1>6, <1>7
  <2>2. Last(s)'
    BY <1>2, <1>3, <1>5, <1>6, <1>7
  <2> QED
    BY <2>1, <2>2
<1>8. CASE ~BurstObserves(b, m)
  <2>1. /\ trade_burst_state'[symbol] = b /\ Observed(symbol)' = Observed(symbol)
        /\ r = None \/ r = b.last_evaluated
    BY <1>2, <1>3, <1>8 DEF BurstNext, BurstObserves
  <2>2. Counts(symbol)'
    BY <1>5, <1>6, <2>1
  <2>3. CASE r = None
    <3>1. Last(symbol)'
      BY <1>2, <1>5, <1>6, <2>1, <2>3
    <3> QED
      BY <1>7, <2>2, <3>1 DEF BurstMemory
  <2>4. CASE r # None
    <3>1. n \in Rated(symbol)' /\ Rate(n)' = r
      BY <1>1, <1>2, <2>4 DEF Rate
    <3>2. \A j \in Rated(symbol)' : j <= n
      BY <1>1, <1>2, <1>5, <2>4
    <3>3. Last(symbol)'
      BY <2>1, <2>4, <3>1, <3>2
    <3> QED
      BY <1>7, <2>2, <3>3 DEF BurstMemory
  <2> QED
    BY <2>3, <2>4
<1>9. CASE BurstObserves(b, m)
  <2>1. /\ trade_burst_state'[symbol].sum = b.sum + r
        /\ trade_burst_state'[symbol].observation_count = b.observation_count + 1
        /\ trade_burst_state'[symbol].last_evaluated = r
        /\ r # None /\ Observed(symbol)' = Observed(symbol) \cup {n}
    BY <1>2, <1>3, <1>9 DEF BurstNext, BurstObserves
  <2>2. Grown(evaluated, evaluated', Observed(symbol), n)
    BY <1>1, <1>4, ObservedRates DEF Grown
  <2>3. SumOfRates(evaluated', Observed(symbol) \cup {n}) = SumOfRates(evaluated, Observed(symbol)) + r
    BY <1>1, <2>2, RatesGrow
  <2>4. Cardinality(Observed(symbol) \cup {n}) = Cardinality(Observed(symbol)) + 1
    BY <2>2, FS_AddElement DEF Grown
  <2>5. Counts(symbol)'
    BY <1>6, <2>1, <2>3, <2>4
  <2>6. n \in Rated(symbol)' /\ Rate(n)' = r
    BY <1>1, <1>2, <2>1 DEF Rate
  <2>7. \A j \in Rated(symbol)' : j <= n
    BY <1>1, <1>2, <1>5, <2>1
  <2>8. Last(symbol)'
    BY <2>1, <2>6, <2>7
  <2> QED
    BY <1>7, <2>5, <2>8 DEF BurstMemory
<1> QED
  BY <1>8, <1>9

\* The detector raises a burst exactly if it should.
LEMMA EvaluateBurst ==
  ASSUME TypeOK, BurstMemory,
         NEW symbol \in Symbols, NEW m \in MarketStates, NEW now \in Clock,
         Evaluate(symbol, m, now)
  PROVE  BurstExactly'
<1>0. PICK n : n = Len(evaluated) + 1
  OBVIOUS
<1> DEFINE b == trade_burst_state[symbol]
           r == m.trades_per_minute
           before == Observed(symbol)
           warmup == Settings.trade_burst_min_warmup_windows
           multiplier == Settings.trade_burst_multiplier
<1>1. /\ n \in Nat /\ n \notin DOMAIN evaluated
      /\ \A i \in DOMAIN evaluated : evaluated'[i] = evaluated[i]
      /\ evaluated'[n].state = m /\ evaluated'[n].symbol = symbol
      /\ Len(evaluated') = n
  BY <1>0, EvaluatedGrows
<1>2. Observed(symbol)' = IF BurstObserves(b, m) THEN before \cup {n} ELSE before
  BY <1>0, ObservedGrows
<1>3. before \subseteq DOMAIN evaluated
  BY ObservedRates
<1>4. /\ Observed(symbol)' \ {n} = before
      /\ n \in Observed(symbol)' <=> BurstObserves(b, m)
  BY <1>1, <1>2, <1>3
<1>5. /\ b.observation_count = Cardinality(before) /\ b.sum = SumOfRates(evaluated, before)
      /\ b.observation_count \in Nat /\ b.sum \in Nat
  BY DEF BurstMemory, TypeOK
<1>6. /\ warmup \in Nat \ {0} /\ multiplier \in Nat /\ r \in Int
  BY DetectorAssumption DEF SettingFields, None
<1>7. SumOfRates(evaluated', before) = SumOfRates(evaluated, before)
  <2>1. Grown(evaluated, evaluated', before, n)
    BY <1>1, <1>6, ObservedRates DEF Grown
  <2> QED
    BY <2>1, RatesKept
<1>8. "TradeBurst" \in raised' <=> TradeBurst(b, m) # {}
  <2>1. raised' = {a.type : a \in Raised(symbol, m, now)}
    BY DEF Evaluate
  <2>2. TradeBurst(b, m) \subseteq Raised(symbol, m, now)
    BY DEF Raised
  <2> QED
    BY <2>1, <2>2, RaisedTypes
<1>9. TradeBurst(b, m) # {} <=>
        /\ BurstObserves(b, m) /\ b.observation_count >= warmup
        /\ r * b.observation_count >= multiplier * b.sum
  <2> DEFINE value == r * b.observation_count
             threshold == multiplier * b.sum
  <2>1. value \in Int /\ threshold \in Int
    BY <1>5, <1>6
  <2>2. Above("TradeBurst", value, threshold) # {} <=> value >= threshold
    BY <2>1, AboveIs
  <2>3. TradeBurst(b, m) =
          IF BurstObserves(b, m) /\ b.observation_count > 0 /\ b.observation_count >= warmup
          THEN {[a EXCEPT !.observed = r] : a \in Above("TradeBurst", value, threshold)}
          ELSE {}
    BY DEF TradeBurst
  <2>4. b.observation_count >= warmup => b.observation_count > 0
    BY <1>5, <1>6
  <2> HIDE DEF value, threshold, b, r, warmup
  <2> QED
    <3>1. CASE BurstObserves(b, m) /\ b.observation_count >= warmup
      <4>1. TradeBurst(b, m) = {[a EXCEPT !.observed = r] :
                                  a \in Above("TradeBurst", value, threshold)}
        BY <2>3, <2>4, <3>1
      <4>2. TradeBurst(b, m) # {} <=> Above("TradeBurst", value, threshold) # {}
        BY <4>1
      <4> QED
        BY <2>2, <3>1, <4>2 DEF value, threshold
    <3>2. CASE ~(BurstObserves(b, m) /\ b.observation_count >= warmup)
      BY <2>3, <3>2
    <3> QED
      BY <3>1, <3>2
<1>10. Latest'.symbol = symbol /\ Rate(n)' = r
  BY <1>1 DEF Latest, Rate
<1> HIDE DEF b, r, before, warmup, multiplier
<1>11. "TradeBurst" \in raised' <=>
         /\ n \in Observed(symbol)'
         /\ Cardinality(Observed(symbol)' \ {n}) >= warmup
         /\ Rate(n)' * Cardinality(Observed(symbol)' \ {n})
              >= multiplier * SumOfRates(evaluated', Observed(symbol)' \ {n})
  BY <1>4, <1>5, <1>7, <1>8, <1>9, <1>10
<1> QED
  BY <1>1, <1>10, <1>11 DEF BurstExactly, warmup, multiplier

-----------------------------------------------------------------------------
(* The theorems *)

\* The invariant holds at the start.
LEMMA InitDetector == Init => DetectorInv
<1> SUFFICES ASSUME Init PROVE DetectorInv
  OBVIOUS
<1>1. evaluated = <<>> /\ emitted = {} /\ DOMAIN evaluated = {}
  BY DEF Init
<1>2. TypeOK
  <2>1. NewBurst \in [sum : Nat, observation_count : Nat, last_evaluated : Nat \cup {None}]
    BY DEF NewBurst
  <2>2. NewStuck \in [last_signature : Signatures, last_changed_at : Nat \cup {None}]
    BY DEF NewStuck, Signatures
  <2> QED
    BY <1>1, <2>1, <2>2 DEF Init, TypeOK
<1>3. StuckMemory
  BY <1>1 DEF Init, StuckMemory, EvaluationsOf, NewStuck
<1>4. BurstMemory
  <2>1. \A s : Rated(s) = {} /\ Observed(s) = {}
    BY <1>1 DEF EvaluationsOf, Rated, Observed
  <2> QED
    BY <2>1, NoRates, FS_EmptySet DEF Init, BurstMemory, NewBurst
<1> QED
  BY <1>1, <1>2, <1>3, <1>4 DEF DetectorInv, BurstExactly, EmissionsRemembered, CooldownSpacing,
     EvaluationsInOrder, GapsReportedOnce, StuckExactly

\* Every evaluation, from whichever state, keeps the invariant.
LEMMA NextDetector == DetectorInv /\ [Next]_vars => DetectorInv'
<1> SUFFICES ASSUME DetectorInv, [Next]_vars PROVE DetectorInv'
  OBVIOUS
<1>1. TypeOK'
  BY NextTypeOK DEF DetectorInv
<1>2. CASE UNCHANGED vars
  <2>1. BurstMemory' /\ BurstExactly'
    <3>1. UNCHANGED <<trade_burst_state, evaluated, raised>>
      BY <1>2 DEF vars, engineVars
    <3>2. \A i : Rate(i)' = Rate(i)
      BY <3>1 DEF Rate
    <3>3. \A s : Rated(s)' = Rated(s)
      BY <3>1, <3>2 DEF Rated, EvaluationsOf
    <3>4. \A s : Observed(s)' = Observed(s)
      BY <3>2, <3>3 DEF Observed
    <3>5. BurstMemory'
      BY <3>1, <3>2, <3>3, <3>4 DEF DetectorInv, BurstMemory
    <3>6. BurstExactly'
      <4>1. Latest' = Latest
        BY <3>1 DEF Latest
      <4>2. Observed(Latest.symbol)' = Observed(Latest.symbol)
        BY <3>1 DEF Latest, Observed, Rated, EvaluationsOf, Rate
      <4>3. Rate(Len(evaluated))' = Rate(Len(evaluated))
        BY <3>1 DEF Rate
      <4> QED
        BY <3>1, <4>2, <4>3 DEF DetectorInv, BurstExactly
    <3> QED
      BY <3>5, <3>6
  <2> QED
    BY <1>1, <1>2, <2>1 DEF DetectorInv, vars, engineVars, EmissionsRemembered,
       CooldownSpacing, EvaluationsInOrder, GapsReportedOnce, StuckMemory, StuckExactly,
       StuckSince, EvaluationsOf, CountAt, Latest
<1>3. ASSUME NEW symbol \in Symbols, NEW m \in MarketStates, NEW now \in Clock,
             Evaluate(symbol, m, now)
      PROVE  DetectorInv'
  BY <1>1, <1>3, EvaluateCooldown, EvaluateOrder, EvaluateGaps, EvaluateStuckMemory,
     EvaluateStuck, EvaluateBurstMemory, EvaluateBurst DEF DetectorInv
<1> QED
  BY <1>2, <1>3 DEF Next

\* The inductive invariant of the detectors holds in every state.
THEOREM DetectorInvariant == Spec => []DetectorInv
BY InitDetector, NextDetector, PTL DEF Spec

\* Two anomalies of a symbol and type are at least the cooldown apart, whatever
\* the wall clock does.
THEOREM CooldownHolds == Spec => []CooldownSpacing
<1>1. DetectorInv => CooldownSpacing
  BY DEF DetectorInv
<1> QED
  BY <1>1, DetectorInvariant, PTL

\* No depth gap is reported twice.
THEOREM GapsOnce == Spec => []GapsReportedOnce
<1>1. DetectorInv => GapsReportedOnce
  BY DEF DetectorInv
<1> QED
  BY <1>1, DetectorInvariant, PTL

\* A quote is called stuck exactly if the top of its book has been the same for
\* the threshold.
THEOREM StuckIsExact == Spec => []StuckExactly
<1>1. DetectorInv => StuckExactly
  BY DEF DetectorInv
<1> QED
  BY <1>1, DetectorInvariant, PTL

\* A burst is raised exactly if the rate has changed to the multiple of the
\* average of those observed before.
THEOREM BurstIsExact == Spec => []BurstExactly
<1>1. DetectorInv => BurstExactly
  BY DEF DetectorInv
<1> QED
  BY <1>1, DetectorInvariant, PTL

=============================================================================
