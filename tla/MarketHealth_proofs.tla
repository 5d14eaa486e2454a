------------------------- MODULE MarketHealth_proofs -------------------------
(***************************************************************************)
(* Proofs about MarketHealth: what a health answer says is true of the     *)
(* state it shows, of the moment of the request and of all anomalies.      *)
(***************************************************************************)
EXTENDS MarketHealth, FiniteSetTheorems, SequenceTheorems, TLAPS

\* Two integers have a maximum and a minimum.
LEMMA MaxMinOfTwo ==
  ASSUME NEW a \in Int, NEW b \in Int
  PROVE  /\ Max({a, b}) = IF a >= b THEN a ELSE b
         /\ Min({a, b}) = IF a <= b THEN a ELSE b
<1>1. Max({a, b}) = CHOOSE x \in {a, b} : \A y \in {a, b} : x >= y
  BY DEF Max
<1>2. Min({a, b}) = CHOOSE x \in {a, b} : \A y \in {a, b} : x =< y
  BY DEF Min
<1> QED
  BY <1>1, <1>2

\* What get_recent_anomalies returns are stored anomalies.
LEMMA RecentAreStored ==
  ASSUME NEW rows, NEW limit, NEW S \in GetRecentAnomalies(rows, limit)
  PROVE  S \subseteq rows
BY DEF GetRecentAnomalies

\* A single anomaly makes a sequence.
LEMMA SingleRow ==
  ASSUME NEW S, NEW x \in S
  PROVE  <<x>> \in Seq(S)
OBVIOUS

\* At the start there is nothing to be wrong about.
LEMMA InitHealth == Init => HealthInv
<1> SUFFICES ASSUME Init PROVE HealthInv
  OBVIOUS
<1>1. <<>> \in Seq(Rows) /\ DOMAIN <<>> = {}
  BY EmptySeq, LenProperties
<1>2. TypeOK
  BY <1>1, FS_EmptySet DEF Init, TypeOK, PipelineTypeOK, RequestTypeOK, NoEvent, NoRequest
<1>3. StatesInOrder
  BY DEF Init, StatesInOrder, Seen, NoEvent, NoRequest
<1>4. Found = {}
  BY <1>1 DEF Found, Init, NoEvent
<1>5. AnomaliesInOrder
  BY <1>4 DEF Init, AnomaliesInOrder, NoEvent
<1> QED
  BY <1>2, <1>3, <1>5 DEF HealthInv

\* The types of what the pipeline has.
LEMMA NextPipelineTypeOK == PipelineTypeOK /\ [Next]_vars => PipelineTypeOK'
<1> SUFFICES ASSUME PipelineTypeOK, [Next]_vars PROVE PipelineTypeOK'
  OBVIOUS
<1> USE DEF PipelineTypeOK
<1>0. <<>> \in Seq(Rows)
  BY EmptySeq
<1>1. ASSUME NEW s \in Symbols, NEW d \in Delays, d <= now, Receive(s, now - d)
      PROVE  PipelineTypeOK'
  <2>1. now - d \in Nat
    BY <1>1, HealthAssumption
  <2> DEFINE newest == IF aggregate[s] = None THEN now - d ELSE Max({now - d, aggregate[s]})
  <2>2. newest \in Nat
    <3>1. aggregate[s] # None => aggregate[s] \in Nat
      OBVIOUS
    <3> QED
      BY <2>1, <3>1, MaxMinOfTwo
  <2> HIDE DEF newest
  <2>3. /\ aggregate' = [aggregate EXCEPT ![s] = newest]
        /\ pipe' = [NoEvent EXCEPT !.pc = "cache", !.symbol = s,
                      !.state = [time |-> newest, event |-> event_no + 1, run |-> run]]
        /\ event_no' = event_no + 1
        /\ UNCHANGED <<now, run, cache, anomalies>>
    BY <1>1 DEF Receive, newest
  <2>4. pipe' = [pc |-> "cache", symbol |-> s, cached |-> FALSE, pending |-> <<>>,
                 state |-> [time |-> newest, event |-> event_no + 1, run |-> run]]
    BY <2>3 DEF NoEvent
  <2>5. pipe'.state \in States
    BY <2>2, <2>3, <2>4 DEF States
  <2>6. /\ pipe' \in [pc : {"recv", "cache", "detect", "insert"}, symbol : Symbols \cup {None},
                       state : States \cup {None}, cached : BOOLEAN, pending : Seq(Rows)]
        /\ pipe'.pc = "cache" /\ pipe'.symbol \in Symbols /\ pipe'.pending = <<>>
    BY <1>0, <2>4, <2>5
  <2>7. aggregate' \in [Symbols -> Nat \cup {None}]
    BY <2>2, <2>3
  <2>8. event_no' \in Nat /\ run' \in 1 .. event_no' + 1
    BY <2>3
  <2> QED
    BY <2>3, <2>5, <2>6, <2>7, <2>8
<1>2. CASE UpdateCache
  BY <1>2 DEF UpdateCache
<1>3. CASE Detect
  <2>1. \A type \in {"StaleData", "PriceMove"}, v \in {"Warning", "Critical"} :
          Raised(type, v) \in Rows
    BY <1>3 DEF Detect, Raised, Rows, States
  <2> DEFINE severity == IF LastEventAge(pipe.state, now) >= 2 * StaleAfter
                         THEN "Critical" ELSE "Warning"
  <2>2. PICK others \in {<<>>} \cup {<<Raised("PriceMove", v)>> : v \in {"Warning", "Critical"}},
             rest \in {<<>>} \cup {<<Raised("StaleData", severity)>>} :
          pipe' = IF others \o rest = <<>> THEN NoEvent
                  ELSE [pipe EXCEPT !.pc = "insert", !.pending = others \o rest]
    BY <1>3, Zenon DEF Detect
  <2>3. severity \in {"Warning", "Critical"}
    OBVIOUS
  <2> HIDE DEF severity
  <2>4. others \in Seq(Rows)
    <3>1. \A v \in {"Warning", "Critical"} : <<Raised("PriceMove", v)>> \in Seq(Rows)
      BY <2>1, SingleRow
    <3> QED
      BY <1>0, <3>1
  <2>5. rest \in Seq(Rows)
    <3>1. <<Raised("StaleData", severity)>> \in Seq(Rows)
      BY <2>1, <2>3, SingleRow
    <3> QED
      BY <1>0, <3>1
  <2>6. others \o rest \in Seq(Rows)
    BY <2>4, <2>5, ConcatProperties
  <2> QED
    BY <1>0, <1>3, <2>2, <2>6 DEF Detect, NoEvent
<1>4. CASE InsertAnomaly
  <2>0. pipe.pending \in Seq(Rows) /\ pipe.pending # <<>>
    BY <1>4 DEF InsertAnomaly
  <2>1. Head(pipe.pending) \in Rows /\ Tail(pipe.pending) \in Seq(Rows)
    BY <2>0, HeadTailProperties
  <2>2. Len(pipe.pending) # 1 => Tail(pipe.pending) # <<>>
    <3>1. Len(Tail(pipe.pending)) = Len(pipe.pending) - 1 /\ Len(pipe.pending) \in Nat
      BY <2>0, HeadTailProperties, LenProperties
    <3>2. Len(<<>>) = 0
      OBVIOUS
    <3>3. Tail(pipe.pending) = <<>> => Len(Tail(pipe.pending)) = 0
      BY <3>2, Zenon
    <3> DEFINE n == Len(Tail(pipe.pending))
    <3> HIDE DEF n
    <3>4. n = Len(pipe.pending) - 1 /\ (Tail(pipe.pending) = <<>> => n = 0)
      BY <3>1, <3>3 DEF n
    <3> QED
      BY <3>1, <3>4
  <2>3. IsFiniteSet(anomalies') /\ anomalies' \subseteq Rows
    BY <1>4, <2>1, FS_AddElement DEF InsertAnomaly
  <2> QED
    BY <1>0, <1>4, <2>1, <2>2, <2>3 DEF InsertAnomaly, NoEvent
<1>5. ASSUME NEW reset_state \in BOOLEAN, NEW reset_storage \in BOOLEAN,
             Switch(reset_state, reset_storage)
      PROVE  PipelineTypeOK'
  BY <1>5, FS_EmptySet DEF Switch
<1>6. ASSUME UNCHANGED <<now, pipeline>> PROVE PipelineTypeOK'
  BY <1>6 DEF pipeline
<1>7. CASE \E s \in Symbols : MarketHealth(s)
  BY <1>6, <1>7 DEF MarketHealth
<1>8. CASE LoadMarketState \/ AnswerHealth \/ DashboardStates \/ DashboardAnomalies
             \/ AnswerDashboard
  BY <1>6, <1>8 DEF LoadMarketState, AnswerHealth, DashboardStates, DashboardAnomalies,
                    AnswerDashboard
<1>9. CASE Tick
  BY <1>9 DEF Tick, pipeline
<1>10. CASE UNCHANGED vars
  BY <1>6, <1>10 DEF vars
<1> QED
  BY <1>1, <1>2, <1>3, <1>4, <1>5, <1>7, <1>8, <1>9, <1>10 DEF Next

\* The types of what the request has.
LEMMA NextRequestTypeOK == TypeOK /\ [Next]_vars => RequestTypeOK'
<1> SUFFICES ASSUME TypeOK, [Next]_vars PROVE RequestTypeOK'
  OBVIOUS
<1> USE DEF TypeOK, RequestTypeOK
<1>0. now \in Nat /\ cache \in [Symbols -> States \cup {None}]
      /\ anomalies \subseteq Rows /\ IsFiniteSet(anomalies)
  BY DEF PipelineTypeOK
<1>1. ASSUME UNCHANGED <<now, request>> PROVE RequestTypeOK'
  BY <1>1
<1>2. ASSUME request' = NoRequest PROVE RequestTypeOK'
  BY <1>2 DEF NoRequest
<1>3. CASE \E s \in Symbols, d \in Delays : d <= now /\ Receive(s, now - d)
  BY <1>1, <1>3 DEF Receive
<1>4. CASE UpdateCache \/ Detect \/ InsertAnomaly
  BY <1>1, <1>4 DEF UpdateCache, Detect, InsertAnomaly
<1>5. CASE \E reset_state, reset_storage \in BOOLEAN : Switch(reset_state, reset_storage)
  BY <1>1, <1>5 DEF Switch
<1>6. ASSUME NEW s \in Symbols, MarketHealth(s) PROVE RequestTypeOK'
  <2>1. /\ request' = [pc |-> "state", symbol |-> s, at |-> now, states |-> None, rows |-> {},
                       cut |-> FALSE, arrived |-> cache[s]]
        /\ now' = now
    BY <1>6 DEF MarketHealth, NoRequest
  <2> QED
    BY <1>0, <2>1
<1>7. CASE LoadMarketState
  <2>1. CASE request' = NoRequest
    BY <1>2, <2>1
  <2>2. CASE /\ cache[request.symbol] # None
             /\ request' = [request EXCEPT !.pc = "anomalies",
                              !.states = Only(request.symbol, cache[request.symbol])]
    <3>1. request.symbol \in Symbols /\ now' = now
      BY <1>7 DEF LoadMarketState
    <3>2. Only(request.symbol, cache[request.symbol])[request.symbol] \in States
      BY <1>0, <2>2, <3>1 DEF Only
    <3> QED
      BY <1>7, <2>2, <3>1, <3>2 DEF LoadMarketState
  <2> QED
    BY <1>7, <2>1, <2>2 DEF LoadMarketState, Fail, Reply
<1>8. CASE AnswerHealth
  BY <1>2, <1>8 DEF AnswerHealth, Fail, Reply
<1>9. CASE DashboardStates
  <2>1. CASE request' = NoRequest
    BY <1>2, <2>1
  <2>2. CASE request' = [NoRequest EXCEPT !.pc = "recent", !.states = cache]
    BY <1>0, <2>2 DEF NoRequest
  <2> QED
    BY <1>9, <2>1, <2>2 DEF DashboardStates, Fail, Reply
<1>10. CASE DashboardAnomalies
  <2>1. CASE request' = NoRequest
    BY <1>2, <2>1
  <2>2. ASSUME NEW rows \in GetRecentAnomalies(anomalies, DashboardLimit),
               request' = [request EXCEPT !.pc = "evaluate", !.rows = rows,
                             !.cut = rows # anomalies]
        PROVE  RequestTypeOK'
    <3>1. rows \subseteq Rows /\ IsFiniteSet(rows)
      BY <1>0, RecentAreStored, FS_Subset
    <3> QED
      BY <1>10, <2>2, <3>1 DEF DashboardAnomalies
  <2> QED
    BY <1>10, <2>1, <2>2 DEF DashboardAnomalies, Fail, Reply
<1>11. CASE AnswerDashboard
  BY <1>2, <1>11 DEF AnswerDashboard, Reply
<1>12. CASE Tick
  BY <1>0, <1>12 DEF Tick
<1>13. CASE UNCHANGED vars
  BY <1>1, <1>13 DEF vars
<1> QED
  BY <1>3, <1>4, <1>5, <1>6, <1>7, <1>8, <1>9, <1>10, <1>11, <1>12, <1>13 DEF Next

\* The dashboard's reads leave the pipeline and market_health's states alone.
LEMMA DashboardReads ==
  ASSUME RequestTypeOK, DashboardStates \/ DashboardAnomalies
  PROVE  UNCHANGED pipeline /\ request'.pc \in {"idle", "recent", "evaluate"}
<1>1. request \in [pc : {"idle", "state", "anomalies", "recent", "evaluate"},
                  symbol : Symbols \cup {None}, at : Nat, states : {request.states},
                  rows : {request.rows}, cut : BOOLEAN, arrived : States \cup {None}]
  BY DEF RequestTypeOK
<1>2. NoRequest.pc = "idle"
  BY DEF NoRequest
<1>3. ASSUME request' = NoRequest PROVE request'.pc = "idle"
  BY <1>2, <1>3
<1>4. ASSUME request' = [NoRequest EXCEPT !.pc = "recent", !.states = cache]
      PROVE  request'.pc = "recent"
  BY <1>4 DEF NoRequest
<1>5. ASSUME NEW rows, NEW cut,
             request' = [request EXCEPT !.pc = "evaluate", !.rows = rows, !.cut = cut]
      PROVE  request'.pc = "evaluate"
  <2> HIDE DEF RequestTypeOK
  <2> QED
    BY <1>1, <1>5
<1>6. \/ request' = NoRequest
      \/ request' = [NoRequest EXCEPT !.pc = "recent", !.states = cache]
      \/ \E rows, cut : request' = [request EXCEPT !.pc = "evaluate", !.rows = rows, !.cut = cut]
  BY Zenon DEF DashboardStates, DashboardAnomalies, Fail, Reply
<1>7. request'.pc \in {"idle", "recent", "evaluate"}
  BY <1>3, <1>4, <1>5, <1>6, Zenon
<1>8. UNCHANGED pipeline
  BY DEF DashboardStates, DashboardAnomalies
<1> QED
  BY <1>7, <1>8

\* Within a run the states of a symbol follow each other by event time.
LEMMA NextStates == HealthInv /\ [Next]_vars => StatesInOrder'
<1> SUFFICES ASSUME HealthInv, [Next]_vars PROVE StatesInOrder'
  OBVIOUS
<1>0. /\ now \in Nat /\ event_no \in Nat /\ run \in 1 .. event_no + 1
      /\ cache \in [Symbols -> States \cup {None}]
      /\ aggregate \in [Symbols -> Nat \cup {None}]
      /\ None \notin States /\ None \notin Nat
      /\ \A x \in States : x.time \in Nat /\ x.event \in Nat /\ x.run \in Nat
  BY HealthAssumption DEF HealthInv, TypeOK, PipelineTypeOK, States
<1>1. StatesInOrder
  BY DEF HealthInv
<1> USE DEF StatesInOrder
<1>2. ASSUME UNCHANGED <<aggregate, event_no, run, pipe, cache, request>>
      PROVE  StatesInOrder'
  BY <1>1, <1>2 DEF Seen, NoNewer
<1>3. ASSUME UNCHANGED pipeline, request'.pc \notin {"state", "anomalies"}
      PROVE  StatesInOrder'
  BY <1>1, <1>3 DEF Seen, NoNewer, pipeline
<1>4. ASSUME NEW s \in Symbols, NEW d \in Delays, d <= now, Receive(s, now - d)
      PROVE  StatesInOrder'
  <2> DEFINE newest == IF aggregate[s] = None THEN now - d ELSE Max({now - d, aggregate[s]})
  <2>1. newest \in Nat /\ (aggregate[s] # None => aggregate[s] <= newest)
    <3>1. now - d \in Nat
      BY <1>0, <1>4, HealthAssumption
    <3>2. aggregate[s] # None => aggregate[s] \in Nat
      BY <1>0
    <3> QED
      BY <3>1, <3>2, MaxMinOfTwo
  <2> HIDE DEF newest
  <2>2. /\ aggregate' = [aggregate EXCEPT ![s] = newest]
        /\ pipe' = [NoEvent EXCEPT !.pc = "cache", !.symbol = s,
                      !.state = [time |-> newest, event |-> event_no + 1, run |-> run]]
        /\ event_no' = event_no + 1
        /\ UNCHANGED <<run, cache, request>>
    BY <1>4 DEF Receive, newest
  <2>3. \A q \in Symbols : \A x \in States \cup {None} : Seen(q, x) => Seen(q, x)'
    BY <1>0, <2>1, <2>2 DEF Seen
  <2>4. /\ pipe'.symbol = s /\ pipe'.state = [time |-> newest, event |-> event_no + 1, run |-> run]
        /\ pipe'.state \in States
    BY <1>0, <2>1, <2>2 DEF NoEvent, States
  <2>6. aggregate'[s] = newest
    BY <1>0, <2>2
  <2>5. Seen(pipe.symbol, pipe.state)'
    BY <1>0, <2>1, <2>2, <2>4, <2>6 DEF Seen
  <2>7. \A q \in Symbols : Seen(q, cache[q])'
    BY <1>0, <1>1, <2>2, <2>3
  <2>8. request'.pc = "state" => Seen(request.symbol, request.arrived)'
    BY <1>1, <2>2, <2>3 DEF HealthInv, TypeOK, RequestTypeOK
  <2> QED
    BY <1>1, <2>2, <2>4, <2>5, <2>6, <2>7, <2>8 DEF NoNewer
<1>5. CASE UpdateCache
  <2>1. CASE cache' = cache
    <3>1. /\ pipe'.symbol = pipe.symbol /\ pipe'.state = pipe.state /\ pipe.pc = "cache"
          /\ UNCHANGED <<aggregate, event_no, run, request>>
      BY <1>5, <2>1 DEF UpdateCache, HealthInv, TypeOK, PipelineTypeOK
    <3> QED
      BY <1>1, <2>1, <3>1 DEF Seen, NoNewer
  <2>2. CASE cache' = [cache EXCEPT ![pipe.symbol] = pipe.state]
    <3>1. /\ pipe'.symbol = pipe.symbol /\ pipe'.state = pipe.state /\ pipe.pc = "cache"
          /\ pipe.symbol \in Symbols /\ pipe.state \in States
          /\ UNCHANGED <<aggregate, event_no, run, request>>
      BY <1>5 DEF UpdateCache, HealthInv, TypeOK, PipelineTypeOK
    <3>2. \A q : \A x : Seen(q, x)' <=> Seen(q, x)
      BY <3>1 DEF Seen
    <3>3. \A q \in Symbols : cache'[q] = IF q = pipe.symbol THEN pipe.state ELSE cache[q]
      BY <1>0, <2>2, <3>1
    <3>4. \A q \in Symbols : Seen(q, cache'[q])
      BY <1>1, <3>1, <3>3
    <3>5. request.pc = "state" => NoNewer(request.arrived, cache'[request.symbol])
      <4>1. CASE request.pc = "state" /\ request.symbol = pipe.symbol
        BY <1>1, <3>1, <3>3, <4>1 DEF NoNewer, Seen
      <4>2. CASE request.pc = "state" /\ request.symbol # pipe.symbol
        BY <1>1, <3>3, <4>2 DEF HealthInv, TypeOK, RequestTypeOK
      <4> QED
        BY <4>1, <4>2
    <3> QED
      BY <1>1, <3>1, <3>2, <3>4, <3>5 DEF NoNewer
  <2> QED
    BY <1>5, <2>1, <2>2 DEF UpdateCache
<1>6. CASE Detect \/ InsertAnomaly
  <2>1. /\ pipe'.pc # "recv" =>
             pipe'.symbol = pipe.symbol /\ pipe'.state = pipe.state /\ pipe.pc # "recv"
        /\ UNCHANGED <<aggregate, event_no, run, cache, request>>
    <3>1. pipe \in [pc : {"recv", "cache", "detect", "insert"}, symbol : Symbols \cup {None},
                    state : States \cup {None}, cached : BOOLEAN, pending : Seq(Rows)]
      BY DEF HealthInv, TypeOK, PipelineTypeOK
    <3>2. \/ pipe' = NoEvent
          \/ \E found : pipe' = [pipe EXCEPT !.pc = "insert", !.pending = found]
          \/ pipe' = [pipe EXCEPT !.pending = Tail(pipe.pending)]
      BY <1>6, Zenon DEF Detect, InsertAnomaly
    <3>3. pipe.pc # "recv" /\ UNCHANGED <<aggregate, event_no, run, cache, request>>
      BY <1>6 DEF Detect, InsertAnomaly
    <3>4. CASE pipe' = NoEvent
      BY <3>3, <3>4 DEF NoEvent
    <3>5. ASSUME NEW found, pipe' = [pipe EXCEPT !.pc = "insert", !.pending = found]
          PROVE  pipe'.symbol = pipe.symbol /\ pipe'.state = pipe.state
      BY <3>1, <3>5
    <3>6. CASE pipe' = [pipe EXCEPT !.pending = Tail(pipe.pending)]
      BY <3>1, <3>3, <3>6
    <3> QED
      BY <3>2, <3>3, <3>4, <3>5, <3>6
  <2> QED
    BY <1>1, <2>1 DEF Seen, NoNewer
<1>7. ASSUME NEW reset_state \in BOOLEAN, NEW reset_storage \in BOOLEAN,
             Switch(reset_state, reset_storage)
      PROVE  StatesInOrder'
  <2>1. /\ run' = event_no + 1 /\ pipe'.pc = "recv" /\ UNCHANGED <<event_no, request>>
        /\ \A q \in Symbols : cache'[q] \in {None, cache[q]}
    BY <1>0, <1>7 DEF Switch
  <2>2. \A q \in Symbols : \A x \in States \cup {None} : Seen(q, x) => Seen(q, x)'
    BY <1>0, <2>1 DEF Seen
  <2>3. \A q \in Symbols : Seen(q, cache[q])'
    BY <1>0, <1>1, <2>1, <2>2 DEF Seen
  <2>4. request'.pc = "state" =>
          /\ Seen(request.symbol, request.arrived)'
          /\ NoNewer(request.arrived, cache[request.symbol])'
    BY <1>1, <2>1, <2>2 DEF HealthInv, TypeOK, RequestTypeOK, NoNewer
  <2> QED
    BY <1>1, <2>1, <2>3, <2>4 DEF NoNewer
<1>8. ASSUME NEW s \in Symbols, MarketHealth(s) PROVE StatesInOrder'
  <2>1. /\ request'.pc = "state" /\ request'.symbol = s /\ request'.arrived = cache[s]
        /\ UNCHANGED <<aggregate, event_no, run, pipe, cache>>
    BY <1>8 DEF MarketHealth, NoRequest, pipeline
  <2>2. NoNewer(cache[s], cache[s])
    BY <1>0 DEF NoNewer
  <2> QED
    BY <1>1, <2>1, <2>2 DEF Seen, NoNewer
<1>9. CASE LoadMarketState
  <2>1. UNCHANGED pipeline
    BY <1>9 DEF LoadMarketState
  <2>2. CASE request' = NoRequest
    BY <1>3, <2>1, <2>2 DEF NoRequest
  <2>3. CASE request' = [request EXCEPT !.pc = "anomalies",
                           !.states = Only(request.symbol, cache[request.symbol])]
    <3>1. /\ request.pc = "state" /\ request.symbol \in Symbols
          /\ request'.pc = "anomalies" /\ request'.symbol = request.symbol
          /\ request'.arrived = request.arrived
          /\ request'.states[request.symbol] = cache[request.symbol]
      BY <1>9, <2>3 DEF LoadMarketState, HealthInv, TypeOK, RequestTypeOK, Only
    <3> QED
      BY <1>1, <2>1, <3>1 DEF pipeline, Seen, NoNewer
  <2> QED
    BY <1>9, <2>2, <2>3 DEF LoadMarketState, Fail, Reply
<1>10. CASE AnswerHealth \/ AnswerDashboard
  BY <1>3, <1>10 DEF AnswerHealth, AnswerDashboard, Fail, Reply, NoRequest
<1>11. RequestTypeOK
  BY DEF HealthInv, TypeOK
<1>12. CASE DashboardStates \/ DashboardAnomalies
  BY <1>3, <1>11, <1>12, DashboardReads
<1>13. CASE Tick
  BY <1>2, <1>13 DEF Tick, pipeline
<1>14. CASE UNCHANGED vars
  BY <1>2, <1>14 DEF vars, pipeline
<1> QED
  BY <1>4, <1>5, <1>6, <1>7, <1>8, <1>9, <1>10, <1>12, <1>13, <1>14 DEF Next

\* Anomalies do not run ahead of the states they were raised about.
LEMMA NextAnomalies == HealthInv /\ [Next]_vars => AnomaliesInOrder'
<1> SUFFICES ASSUME HealthInv, [Next]_vars PROVE AnomaliesInOrder'
  OBVIOUS
<1>0. /\ now \in Nat /\ event_no \in Nat
      /\ cache \in [Symbols -> States \cup {None}]
      /\ None \notin States
      /\ \A x \in States : x.event \in Nat
      /\ pipe \in [pc : {"recv", "cache", "detect", "insert"}, symbol : Symbols \cup {None},
                   state : States \cup {None}, cached : BOOLEAN, pending : Seq(Rows)]
      /\ pipe.pc # "recv" => pipe.symbol \in Symbols /\ pipe.state \in States
  BY HealthAssumption DEF HealthInv, TypeOK, PipelineTypeOK, States
<1>1. AnomaliesInOrder /\ StatesInOrder
  BY DEF HealthInv
<1>2. \A r \in Found : r \in Rows /\ r.symbol \in Symbols /\ r.event \in Nat /\ r.created \in Nat
  <2>1. anomalies \subseteq Rows /\ pipe.pending \in Seq(Rows)
    BY <1>0 DEF HealthInv, TypeOK, PipelineTypeOK
  <2>2. \A i \in DOMAIN pipe.pending : pipe.pending[i] \in Rows
    BY <2>1, ElementOfSeq, LenProperties
  <2>3. Found \subseteq Rows
    BY <2>1, <2>2 DEF Found
  <2> QED
    BY <2>3 DEF Rows
<1> USE DEF AnomaliesInOrder
<1>3. ASSUME UNCHANGED <<event_no, pipe, cache, anomalies, request>>
      PROVE  AnomaliesInOrder'
  BY <1>1, <1>3 DEF Found
<1>4. ASSUME UNCHANGED pipeline, request'.pc # "anomalies"
      PROVE  AnomaliesInOrder'
  BY <1>1, <1>4 DEF Found, pipeline
<1>5. ASSUME NEW s \in Symbols, NEW d \in Delays, d <= now, Receive(s, now - d)
      PROVE  AnomaliesInOrder'
  <2>1. /\ pipe'.pc = "cache" /\ ~pipe'.cached /\ pipe'.pending = <<>>
        /\ event_no' = event_no + 1
        /\ UNCHANGED <<cache, anomalies, request>>
    BY <1>5 DEF Receive, NoEvent
  <2>2. Found' \subseteq Found
    BY <2>1 DEF Found
  <2> QED
    BY <1>0, <1>1, <1>2, <2>1, <2>2
<1>6. CASE UpdateCache
  <2>1. /\ pipe.pc = "cache" /\ pipe'.pc = "detect" /\ pipe'.pending = pipe.pending
        /\ pipe'.symbol = pipe.symbol /\ pipe'.state = pipe.state
        /\ UNCHANGED <<event_no, anomalies, request>>
    BY <1>0, <1>6 DEF UpdateCache
  <2>2. Found' = Found
    BY <2>1 DEF Found
  <2>3. CASE cache' = [cache EXCEPT ![pipe.symbol] = pipe.state]
    <3>1. \A q \in Symbols : cache'[q] = IF q = pipe.symbol THEN pipe.state ELSE cache[q]
      BY <1>0, <2>3
    <3>2. pipe.state.event = event_no
      BY <1>1, <2>1 DEF StatesInOrder
    <3> QED
      BY <1>0, <1>1, <1>2, <2>1, <2>2, <3>1, <3>2
  <2>4. CASE cache' = cache /\ pipe'.cached = pipe.cached
    BY <1>1, <2>1, <2>2, <2>4
  <2> QED
    BY <1>0, <1>6, <2>3, <2>4 DEF UpdateCache
<1>7. CASE Detect
  <2>1. /\ pipe.pc = "detect" /\ UNCHANGED <<now, event_no, cache, anomalies, request>>
    BY <1>7 DEF Detect
  <2>2. CASE pipe' = NoEvent
    <3>1. Found' \subseteq Found
      BY <2>1, <2>2 DEF Found, NoEvent
    <3> QED
      BY <1>1, <2>1, <2>2, <3>1 DEF NoEvent
  <2> DEFINE severity == IF LastEventAge(pipe.state, now) >= 2 * StaleAfter
                         THEN "Critical" ELSE "Warning"
             OfState(r) == /\ r.event = pipe.state.event /\ r.cached = pipe.cached
                           /\ r.symbol = pipe.symbol /\ r.created = now
  <2>3. ASSUME NEW others \in {<<>>} \cup {<<Raised("PriceMove", v)>> : v \in {"Warning", "Critical"}},
               NEW rest \in {<<>>} \cup {<<Raised("StaleData", severity)>>},
               pipe' = [pipe EXCEPT !.pc = "insert", !.pending = others \o rest]
        PROVE  AnomaliesInOrder'
    <3>1. \A type, v : OfState(Raised(type, v))
      BY DEF Raised
    <3> HIDE DEF severity, OfState
    <3>2. \A i \in DOMAIN (others \o rest) : OfState((others \o rest)[i])
      BY <3>1
    <3>3. \A r \in Found' : r \in Found \/ OfState(r)
      BY <1>0, <2>1, <2>3, <3>2 DEF Found
    <3>4. /\ pipe'.pc = "insert" /\ pipe'.symbol = pipe.symbol /\ pipe'.state = pipe.state
          /\ pipe'.cached = pipe.cached
      BY <1>0, <2>3
    <3>5. pipe.state.event = event_no
      BY <1>1, <2>1 DEF StatesInOrder
    <3>6. request.pc = "anomalies" => request.at \in Nat /\ request.at <= now
      BY DEF HealthInv, TypeOK, RequestTypeOK
    <3> QED
      BY <1>0, <1>1, <1>2, <2>1, <3>3, <3>4, <3>5, <3>6 DEF OfState
  <2>4. \/ pipe' = NoEvent
        \/ \E others \in {<<>>} \cup {<<Raised("PriceMove", v)>> : v \in {"Warning", "Critical"}},
              rest \in {<<>>} \cup {<<Raised("StaleData", severity)>>} :
             pipe' = [pipe EXCEPT !.pc = "insert", !.pending = others \o rest]
    BY <1>7, Zenon DEF Detect
  <2> QED
    BY <2>2, <2>3, <2>4
<1>8. CASE InsertAnomaly
  <2>0. pipe.pc = "insert" /\ pipe.pending \in Seq(Rows) /\ pipe.pending # <<>>
    BY <1>8 DEF InsertAnomaly, HealthInv, TypeOK, PipelineTypeOK
  <2>1. Head(pipe.pending) \in Found
    BY <2>0, HeadTailProperties, LenProperties, EmptySeq DEF Found
  <2>2. \A i \in DOMAIN Tail(pipe.pending) : Tail(pipe.pending)[i] \in Found
    <3>1. /\ Len(Tail(pipe.pending)) = Len(pipe.pending) - 1 /\ Len(pipe.pending) \in Nat
          /\ Tail(pipe.pending) \in Seq(Rows)
          /\ \A i \in 1 .. Len(pipe.pending) - 1 : Tail(pipe.pending)[i] = pipe.pending[i + 1]
      BY <2>0, HeadTailProperties, LenProperties
    <3>2. \A i \in 1 .. Len(pipe.pending) - 1 : i + 1 \in 1 .. Len(pipe.pending)
      BY <3>1
    <3>3. DOMAIN pipe.pending = 1 .. Len(pipe.pending)
          /\ DOMAIN Tail(pipe.pending) = 1 .. Len(pipe.pending) - 1
      BY <2>0, <3>1, LenProperties
    <3> QED
      BY <3>1, <3>2, <3>3 DEF Found
  <2>3. \/ pipe' = NoEvent
        \/ pipe' = [pipe EXCEPT !.pending = Tail(pipe.pending)]
    BY <1>8 DEF InsertAnomaly
  <2>4. Found' \subseteq Found
    <3>1. anomalies' \subseteq Found
      BY <1>8, <2>1 DEF InsertAnomaly, Found
    <3>2. \A i \in DOMAIN pipe'.pending : pipe'.pending[i] \in Found
      <4>1. CASE pipe' = NoEvent
        BY <4>1 DEF NoEvent
      <4>2. CASE pipe' = [pipe EXCEPT !.pending = Tail(pipe.pending)]
        <5>1. pipe'.pending = Tail(pipe.pending)
          BY <1>0, <4>2
        <5> QED
          BY <2>2, <5>1
      <4> QED
        BY <2>3, <4>1, <4>2
    <3> QED
      BY <3>1, <3>2 DEF Found
  <2>5. UNCHANGED <<event_no, cache, request>>
    BY <1>8 DEF InsertAnomaly
  <2> QED
    BY <1>0, <1>1, <2>0, <2>3, <2>4, <2>5 DEF NoEvent
<1>9. ASSUME NEW reset_state \in BOOLEAN, NEW reset_storage \in BOOLEAN,
             Switch(reset_state, reset_storage)
      PROVE  AnomaliesInOrder'
  <2>1. /\ pipe.pc = "recv" /\ UNCHANGED <<event_no, pipe, request>>
        /\ \A q \in Symbols : cache'[q] \in {None, cache[q]}
        /\ anomalies' \subseteq anomalies
    BY <1>0, <1>9 DEF Switch
  <2>2. Found' \subseteq Found
    BY <2>1 DEF Found
  <2> QED
    BY <1>1, <1>2, <2>1, <2>2
<1>10. CASE \E s \in Symbols : MarketHealth(s)
  BY <1>4, <1>10 DEF MarketHealth, NoRequest
<1>11. CASE LoadMarketState
  <2>1. UNCHANGED pipeline
    BY <1>11 DEF LoadMarketState
  <2>2. CASE request' = NoRequest
    BY <1>4, <2>1, <2>2 DEF NoRequest
  <2>3. CASE /\ cache[request.symbol] # None
             /\ request' = [request EXCEPT !.pc = "anomalies",
                              !.states = Only(request.symbol, cache[request.symbol])]
    <3>1. /\ request.symbol \in Symbols /\ request'.symbol = request.symbol
          /\ request'.states[request.symbol] = cache[request.symbol]
      BY <1>11, <2>3 DEF LoadMarketState, HealthInv, TypeOK, RequestTypeOK, Only
    <3>2. Found' = Found
      BY <2>1 DEF Found, pipeline
    <3> QED
      BY <1>1, <2>1, <2>3, <3>1, <3>2 DEF pipeline
  <2> QED
    BY <1>11, <2>2, <2>3 DEF LoadMarketState, Fail, Reply
<1>12. CASE AnswerHealth \/ AnswerDashboard
  BY <1>4, <1>12 DEF AnswerHealth, AnswerDashboard, Fail, Reply, NoRequest
<1>13. RequestTypeOK
  BY DEF HealthInv, TypeOK
<1>14. CASE DashboardStates \/ DashboardAnomalies
  BY <1>4, <1>13, <1>14, DashboardReads
<1>15. CASE Tick
  BY <1>3, <1>15 DEF Tick, pipeline
<1>16. CASE UNCHANGED vars
  BY <1>3, <1>16 DEF vars, pipeline
<1> QED
  BY <1>5, <1>6, <1>7, <1>8, <1>9, <1>10, <1>11, <1>12, <1>14, <1>15, <1>16 DEF Next

\* The invariant of the pipeline, the cache and the request.
THEOREM HealthInvariant == Spec => []HealthInv
<1>1. HealthInv /\ [Next]_vars => HealthInv'
  BY NextPipelineTypeOK, NextRequestTypeOK, NextStates, NextAnomalies DEF HealthInv, TypeOK
<1> QED
  BY <1>1, InitHealth, PTL DEF Spec

\* A market_health answer is an evaluation of the state that was read, as of the
\* time of the request.
LEMMA HealthAnswer ==
  ASSUME TypeOK, Next, HealthAnswered
  PROVE  /\ request.symbol \in Symbols /\ request.at \in Nat
         /\ request.states[request.symbol] \in States
         /\ \E rows \in GetRecentAnomalies(RowsOf(request.symbol), HealthLimit) :
              answer'.health[request.symbol] =
                EvaluateHealth(request.states[request.symbol], rows, request.at)
<1>1. request.pc = "anomalies" /\ answer' # None /\ answer'.outcome = "ok"
  BY DEF HealthAnswered
<1>2. /\ request.symbol \in Symbols /\ request.at \in Nat
      /\ request.states[request.symbol] \in States
  BY <1>1 DEF TypeOK, RequestTypeOK
<1>3. AnswerHealth
  BY <1>1 DEF Next, Receive, UpdateCache, Detect, InsertAnomaly, Switch, MarketHealth,
              LoadMarketState, DashboardStates, DashboardAnomalies, AnswerDashboard, Tick
<1>4. ~Fail(request.symbol, "internal")
  BY <1>1 DEF Fail, Reply
<1>5. PICK rows \in GetRecentAnomalies(RowsOf(request.symbol), HealthLimit) :
        answer' = [symbol |-> request.symbol, outcome |-> "ok", health |->
                     Only(request.symbol,
                       EvaluateHealth(request.states[request.symbol], rows, request.at))]
  BY <1>3, <1>4, Zenon DEF AnswerHealth, Reply
<1>6. answer'.health[request.symbol] =
        EvaluateHealth(request.states[request.symbol], rows, request.at)
  BY <1>2, <1>5 DEF Only
<1> QED
  BY <1>2, <1>6

\* The parts of an evaluation.
LEMMA EvaluationParts ==
  ASSUME NEW state, NEW rows, NEW t, NEW h, h = EvaluateHealth(state, rows, t)
  PROVE  /\ h.score = ComputeScore(TotalPenalty(state, rows, t))
         /\ h.evaluated_at = t /\ h.state = state
         /\ h.counted = RecentAnomalies(rows, t)
         /\ h.state_penalty = AddsStatePenalty(state, rows, t)
BY DEF EvaluateHealth

\* market_health counts no anomaly of a later state than the one it shows.
THEOREM PenaltiesFit == Spec => PenaltiesFitState
<1>1. HealthInv /\ [Next]_vars => [FittingAnswer]_vars
  <2> SUFFICES ASSUME HealthInv, Next, HealthAnswered
               PROVE  LET h == answer'.health[request.symbol]
                      IN  \A r \in h.counted :
                            r.cached /\ r.created # h.evaluated_at => r.event <= h.state.event
    BY DEF FittingAnswer
  <2> DEFINE h == answer'.health[request.symbol]
             state == request.states[request.symbol]
  <2>1. PICK rows \in GetRecentAnomalies(RowsOf(request.symbol), HealthLimit) :
          h = EvaluateHealth(state, rows, request.at)
    BY HealthAnswer DEF HealthInv
  <2>2. request.at \in Nat
    BY HealthAnswer DEF HealthInv
  <2> HIDE DEF h, state
  <2>3. h.evaluated_at = request.at /\ h.state = state
        /\ h.counted = RecentAnomalies(rows, request.at)
    BY <2>1, EvaluationParts
  <2>4. ASSUME NEW r \in h.counted, r.cached, r.created # h.evaluated_at
        PROVE  r.event <= h.state.event
    <3>1. r \in anomalies /\ r.symbol = request.symbol /\ r.created <= request.at
      BY <2>3, <2>4, RecentAreStored DEF RecentAnomalies, RowsOf
    <3>2. r.created \in Nat /\ r \in Found
      BY <3>1 DEF HealthInv, TypeOK, PipelineTypeOK, Rows, Found
    <3>3. r.created < request.at
      BY <2>2, <2>3, <2>4, <3>1, <3>2
    <3> QED
      BY <2>3, <2>4, <3>1, <3>2, <3>3
         DEF HealthInv, AnomaliesInOrder, HealthAnswered, state
  <2> QED
    BY <2>4 DEF h
<1> QED
  BY <1>1, HealthInvariant, PTL DEF Spec, PenaltiesFitState

\* market_health calls no state stale that was fresh when the request arrived.
THEOREM StaleReal == Spec => StaleIsReal
<1>1. HealthInv /\ [Next]_vars => [RealAnswer]_vars
  <2> SUFFICES ASSUME HealthInv, Next, HealthAnswered
               PROVE  LET h == answer'.health[request.symbol]
                      IN  /\ h.state_penalty
                          /\ request.arrived # None
                          /\ request.arrived.run = h.state.run
                          => IsStale(request.arrived, request.at)
    BY DEF RealAnswer
  <2> DEFINE h == answer'.health[request.symbol]
             state == request.states[request.symbol]
  <2>1. PICK rows \in GetRecentAnomalies(RowsOf(request.symbol), HealthLimit) :
          h = EvaluateHealth(state, rows, request.at)
    BY HealthAnswer DEF HealthInv
  <2>2. request.at \in Nat /\ state \in States
    BY HealthAnswer DEF HealthInv
  <2>3. request.arrived # None =>
          request.arrived \in States /\ (request.arrived.run = state.run =>
                                            request.arrived.time <= state.time)
    BY <2>2, HealthAssumption
       DEF HealthInv, StatesInOrder, NoNewer, TypeOK, RequestTypeOK, HealthAnswered, States
  <2> HIDE DEF h, state
  <2>4. h.state = state /\ h.state_penalty = AddsStatePenalty(state, rows, request.at)
    BY <2>1, EvaluationParts
  <2>5. ASSUME h.state_penalty, request.arrived # None, request.arrived.run = h.state.run
        PROVE  IsStale(request.arrived, request.at)
    <3>1. IsStale(state, request.at)
      BY <2>4, <2>5 DEF AddsStatePenalty
    <3>2. /\ state.time \in Nat /\ request.arrived.time \in Nat
          /\ request.arrived.time <= state.time /\ StaleAfter \in Nat
      BY <2>2, <2>3, <2>4, <2>5, HealthAssumption DEF States
    <3> QED
      BY <2>2, <3>1, <3>2 DEF IsStale, LastEventAge
  <2> QED
    BY <2>5 DEF h
<1> QED
  BY <1>1, HealthInvariant, PTL DEF Spec, StaleIsReal

-----------------------------------------------------------------------------
(* The scores *)

StaleOf(R) == {r \in R : r.type = "StaleData"}
WarningsOf(R) == {r \in R : r.type # "StaleData" /\ r.severity = "Warning"}
CriticalsOf(R) == {r \in R : r.type # "StaleData" /\ r.severity = "Critical"}

\* the penalties of the anomalies R, counted by kind
Weighted(R) ==
  Cardinality(WarningsOf(R)) * WarningPenalty + Cardinality(CriticalsOf(R)) * CriticalPenalty
    + Cardinality(StaleOf(R)) * StalePenalty

\* Multiplication in small steps.
LEMMA Times ==
  ASSUME NEW a \in Int, NEW b \in Int, NEW p \in Nat
  PROVE  /\ (a - 1) * p = a * p - p
         /\ a <= b => a * p <= b * p
         /\ a >= 0 => a * p >= 0
<1>1. (a - 1) * p = a * p - p
  OBVIOUS
<1>2. ASSUME NEW c \in Int, c >= 0 PROVE c * p >= 0
  BY <1>2
<1>3. (b - a) * p = b * p - a * p
  OBVIOUS
<1>4. b - a >= 0 => (b - a) * p >= 0
  BY <1>2
<1>5. a * p \in Int /\ b * p \in Int
  OBVIOUS
<1> QED
  BY <1>1, <1>2, <1>3, <1>4, <1>5

\* The kinds of a finite set of anomalies.
LEMMA Kinds ==
  ASSUME NEW R, R \subseteq Rows, IsFiniteSet(R)
  PROVE  /\ IsFiniteSet(StaleOf(R)) /\ IsFiniteSet(WarningsOf(R)) /\ IsFiniteSet(CriticalsOf(R))
         /\ Cardinality(StaleOf(R)) \in Nat /\ Cardinality(WarningsOf(R)) \in Nat
         /\ Cardinality(CriticalsOf(R)) \in Nat /\ Weighted(R) \in Int
<1>1. IsFiniteSet(StaleOf(R)) /\ IsFiniteSet(WarningsOf(R)) /\ IsFiniteSet(CriticalsOf(R))
  BY FS_Subset DEF StaleOf, WarningsOf, CriticalsOf
<1>2. /\ Cardinality(StaleOf(R)) \in Nat /\ Cardinality(WarningsOf(R)) \in Nat
      /\ Cardinality(CriticalsOf(R)) \in Nat
  BY <1>1, FS_CardinalityType
<1>3. StalePenalty \in Nat /\ WarningPenalty \in Nat /\ CriticalPenalty \in Nat
  BY HealthAssumption DEF ValidHealthSettings
<1> QED
  BY <1>1, <1>2, <1>3 DEF Weighted

\* Taking an anomaly out of a set takes its penalty out of the sum.
LEMMA WeightedStep ==
  ASSUME NEW R, R \subseteq Rows, IsFiniteSet(R), NEW x \in R
  PROVE  AnomalyPenalty(x) \in Nat /\ Weighted(R) = AnomalyPenalty(x) + Weighted(R \ {x})
<1>1. StalePenalty \in Nat /\ WarningPenalty \in Nat /\ CriticalPenalty \in Nat
  BY HealthAssumption DEF ValidHealthSettings
<1> DEFINE s == Cardinality(StaleOf(R))
           w == Cardinality(WarningsOf(R))
           c == Cardinality(CriticalsOf(R))
           s1 == Cardinality(StaleOf(R \ {x}))
           w1 == Cardinality(WarningsOf(R \ {x}))
           c1 == Cardinality(CriticalsOf(R \ {x}))
<1>2. /\ IsFiniteSet(StaleOf(R)) /\ IsFiniteSet(WarningsOf(R)) /\ IsFiniteSet(CriticalsOf(R))
      /\ s \in Nat /\ w \in Nat /\ c \in Nat
  BY Kinds
<1>3. /\ StaleOf(R \ {x}) = StaleOf(R) \ {x} /\ WarningsOf(R \ {x}) = WarningsOf(R) \ {x}
      /\ CriticalsOf(R \ {x}) = CriticalsOf(R) \ {x}
  BY DEF StaleOf, WarningsOf, CriticalsOf
<1>4. /\ s1 = IF x \in StaleOf(R) THEN s - 1 ELSE s
      /\ w1 = IF x \in WarningsOf(R) THEN w - 1 ELSE w
      /\ c1 = IF x \in CriticalsOf(R) THEN c - 1 ELSE c
  BY <1>2, <1>3, FS_RemoveElement
<1>5. /\ Weighted(R) = w * WarningPenalty + c * CriticalPenalty + s * StalePenalty
      /\ Weighted(R \ {x}) = w1 * WarningPenalty + c1 * CriticalPenalty + s1 * StalePenalty
  BY DEF Weighted
<1> HIDE DEF s, w, c, s1, w1, c1
<1>6. /\ (s - 1) * StalePenalty = s * StalePenalty - StalePenalty
      /\ (w - 1) * WarningPenalty = w * WarningPenalty - WarningPenalty
      /\ (c - 1) * CriticalPenalty = c * CriticalPenalty - CriticalPenalty
      /\ s * StalePenalty \in Int /\ w * WarningPenalty \in Int /\ c * CriticalPenalty \in Int
  BY <1>1, <1>2, Times
<1>7. CASE x.type = "StaleData"
  <2>1. AnomalyPenalty(x) = StalePenalty /\ s1 = s - 1 /\ w1 = w /\ c1 = c
    BY <1>4, <1>7 DEF AnomalyPenalty, StaleOf, WarningsOf, CriticalsOf
  <2> QED
    BY <1>1, <1>5, <1>6, <2>1
<1>8. CASE x.type # "StaleData" /\ x.severity = "Warning"
  <2>1. AnomalyPenalty(x) = WarningPenalty /\ s1 = s /\ w1 = w - 1 /\ c1 = c
    BY <1>4, <1>8 DEF AnomalyPenalty, SeverityPenalty, StaleOf, WarningsOf, CriticalsOf
  <2> QED
    BY <1>1, <1>5, <1>6, <2>1
<1>9. CASE x.type # "StaleData" /\ x.severity = "Critical"
  <2>1. AnomalyPenalty(x) = CriticalPenalty /\ s1 = s /\ w1 = w /\ c1 = c - 1
    BY <1>4, <1>9 DEF AnomalyPenalty, SeverityPenalty, StaleOf, WarningsOf, CriticalsOf
  <2> QED
    BY <1>1, <1>5, <1>6, <2>1
<1> QED
  BY <1>7, <1>8, <1>9 DEF Rows

\* The strict subsets of a finite set are a well-founded order.
LEMMA SubsetsWellFounded ==
  ASSUME NEW S, IsFiniteSet(S)
  PROVE  IsWellFoundedOn(StrictSubsetOrdering(S), SUBSET S)
<1>1. FiniteSubsetsOf(S) = SUBSET S
  BY FS_FiniteSubsetsOfFinite
<1> QED
  BY <1>1, FS_StrictSubsetOrderingWellFounded

\* g sums f over the subsets of S, taking the elements in the order c chooses
IsSum(S, c, f, g) ==
  \A s \in SUBSET S :
    s # {} => c[s] \in s /\ g[s] = f[c[s]] + g[s \ {c[s]}]

\* Two sums that start alike are equal: induction over the subsets.
LEMMA SumIsUnique ==
  ASSUME NEW S, IsFiniteSet(S), NEW c, NEW f, NEW g, NEW h,
         IsSum(S, c, f, g), IsSum(S, c, f, h), g[{}] = h[{}]
  PROVE  g[S] = h[S]
<1> DEFINE Bad == {T \in SUBSET S : g[T] # h[T]}
<1> SUFFICES ASSUME Bad # {} PROVE FALSE
  OBVIOUS
<1>1. IsWellFoundedOn(StrictSubsetOrdering(S), SUBSET S)
  BY SubsetsWellFounded
<1>2. Bad \subseteq SUBSET S
  OBVIOUS
<1> HIDE DEF Bad
<1>3. PICK T \in Bad : \A V \in Bad : ~(<<V, T>> \in StrictSubsetOrdering(S))
  BY <1>1, <1>2, WFMin
<1>4. T \in SUBSET S /\ T # {} /\ c[T] \in T
  BY DEF Bad, IsSum
<1>5. <<T \ {c[T]}, T>> \in StrictSubsetOrdering(S)
  BY <1>4 DEF StrictSubsetOrdering
<1>6. T \ {c[T]} \in SUBSET S /\ T \ {c[T]} \notin Bad
  BY <1>3, <1>4, <1>5
<1>7. g[T \ {c[T]}] = h[T \ {c[T]}]
  BY <1>6 DEF Bad
<1> QED
  BY <1>4, <1>7 DEF Bad, IsSum

\* The sum of the penalties of a set of anomalies is its anomalies counted by kind.
LEMMA PenaltySum ==
  ASSUME NEW S, S \subseteq Rows, IsFiniteSet(S)
  PROVE  MapThenSumSet(AnomalyPenalty, S) = Weighted(S)
<1> DEFINE Step(iter) == [s \in SUBSET S |->
                            IF s = {} THEN 0
                            ELSE AnomalyPenalty(CHOOSE x \in s : TRUE)
                                   + iter[s \ {CHOOSE x \in s : TRUE}]]
           chosen == CHOOSE iter : iter = Step(iter)
           w == [s \in SUBSET S |-> Weighted(s)]
           c == [s \in SUBSET S |-> CHOOSE x \in s : TRUE]
           f == [x \in S |-> AnomalyPenalty(x)]
<1>1. MapThenSumSet(AnomalyPenalty, S) = chosen[S]
  BY DEF MapThenSumSet, MapThenFoldSet
<1>2. \A s \in SUBSET S : s # {} => c[s] \in s
  OBVIOUS
<1>3. w[{}] = 0
  BY FS_EmptySet, HealthAssumption
     DEF Weighted, StaleOf, WarningsOf, CriticalsOf, ValidHealthSettings
<1>4. \A s \in SUBSET S : s # {} => w[s] = f[c[s]] + w[s \ {c[s]}]
  <2> SUFFICES ASSUME NEW s \in SUBSET S, s # {}
               PROVE  w[s] = f[c[s]] + w[s \ {c[s]}]
    OBVIOUS
  <2>1. s \subseteq Rows /\ IsFiniteSet(s) /\ c[s] \in s /\ s \ {c[s]} \in SUBSET S
    BY <1>2, FS_Subset
  <2> HIDE DEF c
  <2> QED
    BY <2>1, WeightedStep
<1>5. w = Step(w)
  <2>1. \A s \in SUBSET S : w[s] = Step(w)[s]
    <3> SUFFICES ASSUME NEW s \in SUBSET S PROVE w[s] = Step(w)[s]
      OBVIOUS
    <3>1. CASE s = {}
      BY <1>3, <3>1
    <3>2. CASE s # {}
      <4>1. c[s] = CHOOSE x \in s : TRUE
        OBVIOUS
      <4>2. f[c[s]] = AnomalyPenalty(c[s])
        BY <1>2, <3>2
      <4> HIDE DEF w, f
      <4>3. Step(w)[s] = AnomalyPenalty(CHOOSE x \in s : TRUE)
                           + w[s \ {CHOOSE x \in s : TRUE}]
        BY <3>2
      <4>4. w[s] = AnomalyPenalty(c[s]) + w[s \ {c[s]}]
        BY <1>4, <3>2, <4>2
      <4> HIDE DEF c, Step
      <4> QED
        BY <4>1, <4>3, <4>4
    <3> QED
      BY <3>1, <3>2
  <2> QED
    BY <2>1
<1>6. chosen = Step(chosen)
  <2> HIDE DEF Step, w
  <2>1. \E iter : iter = Step(iter)
    BY <1>5
  <2> QED
    BY <2>1, Zenon DEF chosen
<1> HIDE DEF chosen
<1>7. chosen[{}] = 0
  BY <1>6
<1>8. \A s \in SUBSET S : s # {} => chosen[s] = f[c[s]] + chosen[s \ {c[s]}]
  <2> SUFFICES ASSUME NEW s \in SUBSET S, s # {}
               PROVE  chosen[s] = f[c[s]] + chosen[s \ {c[s]}]
    OBVIOUS
  <2>1. c[s] = CHOOSE x \in s : TRUE
    OBVIOUS
  <2>2. f[c[s]] = AnomalyPenalty(c[s])
    BY <1>2
  <2>3. chosen[s] = Step(chosen)[s]
    BY <1>6, Zenon
  <2>4. Step(chosen)[s] = AnomalyPenalty(CHOOSE x \in s : TRUE)
                            + chosen[s \ {CHOOSE x \in s : TRUE}]
    OBVIOUS
  <2> HIDE DEF f, c, Step
  <2> QED
    BY <2>1, <2>2, <2>3, <2>4
<1> HIDE DEF w, c, f
<1>9. chosen[S] = w[S]
  <2>1. IsSum(S, c, f, w) /\ IsSum(S, c, f, chosen)
    BY <1>2, <1>4, <1>8 DEF IsSum
  <2> QED
    BY <1>3, <1>7, <2>1, SumIsUnique
<1> QED
  BY <1>1, <1>9 DEF w

\* the StaleData anomalies of R, a stale state counting as one if there is none
StatePenalties(R, stale) == Max({Cardinality(StaleOf(R)), IF stale THEN 1 ELSE 0})

\* all penalties of the anomalies R and of a state that is stale or not
AllPenalties(R, stale) ==
  Cardinality(WarningsOf(R)) * WarningPenalty + Cardinality(CriticalsOf(R)) * CriticalPenalty
    + StatePenalties(R, stale) * StalePenalty

\* A stale state counts as one StaleData anomaly if there is none.
LEMMA PenaltiesBySorts ==
  ASSUME NEW S, S \subseteq Rows, IsFiniteSet(S), NEW state \in States, NEW t \in Nat
  PROVE  /\ TotalPenalty(state, S, t) = AllPenalties(RecentAnomalies(S, t), IsStale(state, t))
         /\ AllPenalties(RecentAnomalies(S, t), IsStale(state, t)) \in Int
         /\ Weighted(RecentAnomalies(S, t)) <= AllPenalties(RecentAnomalies(S, t), IsStale(state, t))
<1> DEFINE R == RecentAnomalies(S, t)
           stale == IsStale(state, t)
           n == Cardinality(StaleOf(R))
           w == Cardinality(WarningsOf(R)) * WarningPenalty
           c == Cardinality(CriticalsOf(R)) * CriticalPenalty
           m == StatePenalties(R, stale)
<1>1. R \subseteq S /\ R \subseteq Rows /\ IsFiniteSet(R)
  BY FS_Subset DEF RecentAnomalies
<1>2. StalePenalty \in Nat /\ WarningPenalty \in Nat /\ CriticalPenalty \in Nat
  BY HealthAssumption DEF ValidHealthSettings
<1>3. MapThenSumSet(AnomalyPenalty, R) = Weighted(R)
  BY <1>1, PenaltySum
<1>4. n \in Nat /\ w \in Int /\ c \in Int
  BY <1>1, <1>2, Kinds
<1>5. n = 0 <=> \A r \in R : r.type # "StaleData"
  BY <1>1, Kinds, FS_EmptySet DEF StaleOf
<1>6. m = IF stale /\ n = 0 THEN 1 ELSE n
  BY <1>4, MaxMinOfTwo DEF StatePenalties
<1>7. Weighted(R) = w + c + n * StalePenalty /\ AllPenalties(R, stale) = w + c + m * StalePenalty
  BY DEF Weighted, AllPenalties
<1>8. TotalPenalty(state, S, t) =
        Weighted(R) + (IF stale /\ n = 0 THEN StalePenalty ELSE 0)
  BY <1>3, <1>5 DEF TotalPenalty, AddsStatePenalty
<1> HIDE DEF R, stale, n, w, c, m
<1>9. 1 * StalePenalty = StalePenalty /\ 0 * StalePenalty = 0 /\ n * StalePenalty \in Int
  BY <1>2, <1>4
<1>10. CASE stale /\ n = 0
  <2>1. /\ Weighted(R) = w + c /\ AllPenalties(R, stale) = w + c + StalePenalty
        /\ TotalPenalty(state, S, t) = w + c + StalePenalty
    BY <1>2, <1>4, <1>6, <1>7, <1>8, <1>9, <1>10
  <2> QED
    BY <1>2, <1>4, <2>1 DEF R, stale
<1>11. CASE ~(stale /\ n = 0)
  <2>1. /\ Weighted(R) = w + c + n * StalePenalty
        /\ AllPenalties(R, stale) = w + c + n * StalePenalty
        /\ TotalPenalty(state, S, t) = w + c + n * StalePenalty
    BY <1>4, <1>6, <1>7, <1>8, <1>9, <1>11
  <2> QED
    BY <1>4, <1>9, <2>1 DEF R, stale
<1> QED
  BY <1>10, <1>11

\* The reference score is the base score less all penalties, and no less than 0.
LEMMA ReferenceByKinds ==
  ASSUME NEW S, S \subseteq Rows, IsFiniteSet(S), NEW state \in States, NEW t \in Nat
  PROVE  ReferenceScore(S, state, t) =
           ComputeScore(AllPenalties(RecentAnomalies(S, t), IsStale(state, t)))
<1> DEFINE R == RecentAnomalies(S, t)
           stale == IsStale(state, t)
           w == Cardinality(WarningsOf(R)) * WarningPenalty
           c == Cardinality(CriticalsOf(R)) * CriticalPenalty
           m == StatePenalties(R, stale) * StalePenalty
<1>1. R \subseteq Rows /\ IsFiniteSet(R)
  BY FS_Subset DEF RecentAnomalies
<1>2. /\ StalePenalty \in Nat /\ WarningPenalty \in Nat /\ CriticalPenalty \in Nat
      /\ BaseScore \in Nat /\ StaleAfter \in Nat \ {0} /\ Window \in Nat
  BY HealthAssumption DEF ValidHealthSettings
<1>3. \A r \in S : r.created \in (t - Window)..t <=> t <= r.created + Window /\ r.created <= t
  BY <1>2 DEF Rows
<1>4. /\ {r \in S : r.created \in (t - Window)..t /\ r.type = "StaleData"} = StaleOf(R)
      /\ {r \in S : r.created \in (t - Window)..t /\ r.type # "StaleData" /\ r.severity = "Warning"}
           = WarningsOf(R)
      /\ {r \in S : r.created \in (t - Window)..t /\ r.type # "StaleData" /\ r.severity = "Critical"}
           = CriticalsOf(R)
  BY <1>3 DEF RecentAnomalies, StaleOf, WarningsOf, CriticalsOf
<1>5. (t - state.time >= StaleAfter) <=> stale
  BY <1>2 DEF IsStale, LastEventAge, States
<1>6. ReferenceScore(S, state, t) = Max({0, BaseScore - w - c - m})
  BY <1>4, <1>5 DEF ReferenceScore, StatePenalties
<1>7. w \in Int /\ c \in Int /\ m \in Int
  <2>1. /\ Cardinality(StaleOf(R)) \in Nat /\ Cardinality(WarningsOf(R)) \in Nat
        /\ Cardinality(CriticalsOf(R)) \in Nat
    BY <1>1, Kinds
  <2>2. StatePenalties(R, stale) \in Nat
    BY <2>1, MaxMinOfTwo DEF StatePenalties
  <2> QED
    BY <1>2, <2>1, <2>2
<1>8. AllPenalties(R, stale) = w + c + m
  BY DEF AllPenalties
<1> HIDE DEF w, c, m
<1>9. Max({0, BaseScore - w - c - m}) = IF 0 >= BaseScore - w - c - m THEN 0 ELSE BaseScore - w - c - m
  BY <1>2, <1>7, MaxMinOfTwo
<1> QED
  BY <1>2, <1>6, <1>7, <1>8, <1>9 DEF ComputeScore

\* What was read is scored as the reference scores it.
LEMMA ScoreOfRows ==
  ASSUME NEW S, S \subseteq Rows, IsFiniteSet(S), NEW state \in States, NEW t \in Nat
  PROVE  ComputeScore(TotalPenalty(state, S, t)) = ReferenceScore(S, state, t)
BY PenaltiesBySorts, ReferenceByKinds

\* More anomalies cost no less, and every anomaly costs the least penalty.
LEMMA WeightedBounds ==
  ASSUME NEW R, R \subseteq Rows, IsFiniteSet(R), NEW Q \in SUBSET R
  PROVE  /\ Weighted(Q) <= Weighted(R)
         /\ Cardinality(Q) * LeastPenalty <= Weighted(Q)
         /\ LeastPenalty \in Nat
<1>1. StalePenalty \in Nat /\ WarningPenalty \in Nat /\ CriticalPenalty \in Nat
      /\ WarningPenalty <= CriticalPenalty
  BY HealthAssumption DEF ValidHealthSettings
<1>2. Q \subseteq Rows /\ IsFiniteSet(Q)
  BY FS_Subset
<1>3. LeastPenalty \in Nat /\ LeastPenalty <= StalePenalty /\ LeastPenalty <= WarningPenalty
  <2>1. LeastPenalty = IF WarningPenalty <= StalePenalty THEN WarningPenalty ELSE StalePenalty
    <3>1. WarningPenalty \in Int /\ StalePenalty \in Int
      BY <1>1
    <3> QED
      BY <3>1, MaxMinOfTwo, Zenon DEF LeastPenalty
  <2> QED
    BY <1>1, <2>1
<1> DEFINE s == Cardinality(StaleOf(R))
           w == Cardinality(WarningsOf(R))
           c == Cardinality(CriticalsOf(R))
           s1 == Cardinality(StaleOf(Q))
           w1 == Cardinality(WarningsOf(Q))
           c1 == Cardinality(CriticalsOf(Q))
<1>4. s \in Nat /\ w \in Nat /\ c \in Nat /\ s1 \in Nat /\ w1 \in Nat /\ c1 \in Nat
  BY <1>2, Kinds
<1>5. s1 <= s /\ w1 <= w /\ c1 <= c
  <2>1. StaleOf(Q) \in SUBSET StaleOf(R) /\ WarningsOf(Q) \in SUBSET WarningsOf(R)
        /\ CriticalsOf(Q) \in SUBSET CriticalsOf(R)
    BY DEF StaleOf, WarningsOf, CriticalsOf
  <2> QED
    BY <2>1, Kinds, FS_Subset
<1>6. Cardinality(Q) = s1 + w1 + c1
  <2>1. Q = StaleOf(Q) \cup (WarningsOf(Q) \cup CriticalsOf(Q))
    BY <1>2 DEF StaleOf, WarningsOf, CriticalsOf, Rows
  <2>2. StaleOf(Q) \cap (WarningsOf(Q) \cup CriticalsOf(Q)) = {}
        /\ WarningsOf(Q) \cap CriticalsOf(Q) = {}
    BY DEF StaleOf, WarningsOf, CriticalsOf
  <2>3. IsFiniteSet(WarningsOf(Q) \cup CriticalsOf(Q))
        /\ Cardinality(WarningsOf(Q) \cup CriticalsOf(Q)) = w1 + c1 - Cardinality({})
    BY <1>2, <2>2, Kinds, FS_Union
  <2>4. Cardinality(Q) = s1 + Cardinality(WarningsOf(Q) \cup CriticalsOf(Q)) - Cardinality({})
    BY <1>2, <2>1, <2>2, <2>3, Kinds, FS_Union
  <2> QED
    BY <1>4, <2>3, <2>4, FS_EmptySet
<1>7. /\ Weighted(R) = w * WarningPenalty + c * CriticalPenalty + s * StalePenalty
      /\ Weighted(Q) = w1 * WarningPenalty + c1 * CriticalPenalty + s1 * StalePenalty
  BY DEF Weighted
<1> HIDE DEF s, w, c, s1, w1, c1
<1>8. /\ w1 * WarningPenalty <= w * WarningPenalty /\ c1 * CriticalPenalty <= c * CriticalPenalty
      /\ s1 * StalePenalty <= s * StalePenalty
  BY <1>1, <1>4, <1>5, Times
<1>9. /\ w1 * WarningPenalty \in Int /\ c1 * CriticalPenalty \in Int /\ s1 * StalePenalty \in Int
      /\ w * WarningPenalty \in Int /\ c * CriticalPenalty \in Int /\ s * StalePenalty \in Int
      /\ w1 * LeastPenalty \in Int /\ c1 * LeastPenalty \in Int /\ s1 * LeastPenalty \in Int
  BY <1>1, <1>3, <1>4
<1>10. Weighted(Q) <= Weighted(R)
  BY <1>7, <1>8, <1>9
<1>11. (s1 + w1 + c1) * LeastPenalty = s1 * LeastPenalty + w1 * LeastPenalty + c1 * LeastPenalty
  BY <1>3, <1>4
<1>12. /\ LeastPenalty * w1 <= WarningPenalty * w1 /\ LeastPenalty * c1 <= CriticalPenalty * c1
       /\ LeastPenalty * s1 <= StalePenalty * s1
  BY <1>1, <1>3, <1>4, Times
<1>13. /\ w1 * LeastPenalty <= w1 * WarningPenalty /\ c1 * LeastPenalty <= c1 * CriticalPenalty
       /\ s1 * LeastPenalty <= s1 * StalePenalty
  BY <1>1, <1>3, <1>4, <1>12
<1> QED
  BY <1>3, <1>6, <1>7, <1>9, <1>10, <1>11, <1>13

\* If enough of the limit is left for anomalies of the window, what the limit
\* cuts off does not change the score.
LEMMA LimitIsHarmless ==
  ASSUME NEW rows, rows \subseteq Rows, IsFiniteSet(rows), NEW state \in States, NEW t \in Nat,
         NEW S \in GetRecentAnomalies(rows, HealthLimit),
         \/ Cardinality(rows) <= HealthLimit
         \/ (HealthLimit - Cardinality({r \in rows : r.created > t})) * LeastPenalty >= BaseScore
  PROVE  ComputeScore(TotalPenalty(state, S, t)) = ReferenceScore(rows, state, t)
<1> DEFINE All == RecentAnomalies(rows, t)
           Read == RecentAnomalies(S, t)
           Newer == {r \in rows : r.created > t}
           stale == IsStale(state, t)
<1>1. S \subseteq rows /\ S \subseteq Rows /\ IsFiniteSet(S) /\ Cardinality(S) \in Nat
      /\ Cardinality(rows) \in Nat
  BY RecentAreStored, FS_Subset, FS_CardinalityType
<1>2. HealthLimit \in Nat /\ BaseScore \in Nat /\ Window \in Nat
  BY HealthAssumption DEF ValidHealthSettings
<1>3. /\ Cardinality(S) = IF HealthLimit <= Cardinality(rows) THEN HealthLimit ELSE Cardinality(rows)
      /\ \A r \in S, q \in rows \ S : r.created >= q.created
  <2>1. /\ Cardinality(S) = Min({HealthLimit, Cardinality(rows)})
        /\ \A r \in S, q \in rows \ S : r.created >= q.created
    BY DEF GetRecentAnomalies
  <2>2. HealthLimit \in Int /\ Cardinality(rows) \in Int
    BY <1>1, <1>2
  <2>3. Min({HealthLimit, Cardinality(rows)}) =
          IF HealthLimit <= Cardinality(rows) THEN HealthLimit ELSE Cardinality(rows)
    BY <2>2, MaxMinOfTwo, Zenon
  <2> QED
    BY <2>1, <2>3, Zenon
<1>4. ComputeScore(TotalPenalty(state, S, t)) = ComputeScore(AllPenalties(Read, stale))
      /\ ReferenceScore(rows, state, t) = ComputeScore(AllPenalties(All, stale))
  BY <1>1, PenaltiesBySorts, ReferenceByKinds
<1>5. CASE Cardinality(rows) <= HealthLimit
  <2>1. Cardinality(S) = Cardinality(rows)
    BY <1>1, <1>2, <1>3, <1>5
  <2>2. S = rows
    BY <1>1, <2>1, FS_Subset
  <2> QED
    BY <1>4, <2>2
<1>6. CASE All \subseteq S
  <2>1. All = Read
    BY <1>1, <1>6 DEF RecentAnomalies
  <2> QED
    BY <1>4, <2>1
<1>7. CASE ~(Cardinality(rows) <= HealthLimit) /\ ~(All \subseteq S)
  <2>1. PICK q \in All : q \notin S
    BY <1>7
  <2>2. q \in rows /\ q.created \in Nat /\ t <= q.created + Window
    BY <2>1 DEF RecentAnomalies, Rows
  <2>3. \A r \in S : r \in Read \/ r \in Newer
    <3> SUFFICES ASSUME NEW r \in S PROVE r \in Read \/ r \in Newer
      OBVIOUS
    <3>1. r \in rows /\ r.created \in Nat /\ r.created >= q.created
      BY <1>1, <1>3, <2>1, <2>2 DEF Rows
    <3> QED
      BY <1>2, <2>2, <3>1 DEF RecentAnomalies
  <2>4. Read \subseteq S /\ Read \in SUBSET All /\ IsFiniteSet(Read) /\ Cardinality(Read) \in Nat
        /\ All \subseteq rows /\ IsFiniteSet(All) /\ All \subseteq Rows /\ Read \subseteq Rows
    BY <1>1, FS_Subset, FS_CardinalityType DEF RecentAnomalies
  <2>5. IsFiniteSet(Newer) /\ Cardinality(Newer) \in Nat
    BY FS_Subset, FS_CardinalityType
  <2>6. Cardinality(S) <= Cardinality(Read) + Cardinality(Newer)
    <3> HIDE DEF Read, Newer
    <3>1. S \in SUBSET (Read \cup Newer)
      BY <2>3
    <3>2. IsFiniteSet(Read \cup Newer) /\ Cardinality(Read \cup Newer) =
            Cardinality(Read) + Cardinality(Newer) - Cardinality(Read \cap Newer)
      BY <2>4, <2>5, FS_Union
    <3>3. Cardinality(Read \cap Newer) \in Nat
      BY <2>4, FS_Intersection, FS_CardinalityType
    <3>4. Cardinality(S) <= Cardinality(Read \cup Newer)
      BY <3>1, <3>2, FS_Subset
    <3> QED
      BY <1>1, <2>4, <2>5, <3>2, <3>3, <3>4
  <2>7. HealthLimit - Cardinality(Newer) <= Cardinality(Read)
    BY <1>1, <1>2, <1>3, <1>7, <2>4, <2>5, <2>6
  <2>8. Weighted(Read) <= Weighted(All) /\ Cardinality(Read) * LeastPenalty <= Weighted(Read)
        /\ LeastPenalty \in Nat /\ Weighted(Read) \in Int /\ Weighted(All) \in Int
    BY <2>4, WeightedBounds, Kinds
  <2>9. (HealthLimit - Cardinality(Newer)) * LeastPenalty <= Cardinality(Read) * LeastPenalty
    BY <1>2, <2>4, <2>5, <2>7, <2>8, Times
  <2>10. /\ AllPenalties(Read, stale) \in Int /\ Weighted(Read) <= AllPenalties(Read, stale)
         /\ AllPenalties(All, stale) \in Int /\ Weighted(All) <= AllPenalties(All, stale)
    BY <1>1, PenaltiesBySorts
  <2>11. (HealthLimit - Cardinality(Newer)) * LeastPenalty >= BaseScore
    BY <1>7
  <2> HIDE DEF Read, All, Newer, stale
  <2>12. (HealthLimit - Cardinality(Newer)) * LeastPenalty \in Int
         /\ Cardinality(Read) * LeastPenalty \in Int
    BY <1>2, <2>4, <2>5, <2>8
  <2>13. AllPenalties(Read, stale) >= BaseScore /\ AllPenalties(All, stale) >= BaseScore
    BY <1>2, <2>8, <2>9, <2>10, <2>11, <2>12
  <2>14. ComputeScore(AllPenalties(Read, stale)) = 0 /\ ComputeScore(AllPenalties(All, stale)) = 0
    BY <1>2, <2>10, <2>13 DEF ComputeScore
  <2> QED
    BY <1>4, <2>14
<1> QED
  BY <1>5, <1>6, <1>7

\* The scores are those of all anomalies, the ones behind the limit included.
THEOREM ScoreExact == Spec => ScoreIsExact
<1>1. HealthInv /\ [Next]_vars => [ExactAnswer]_vars
  <2> SUFFICES ASSUME HealthInv, Next PROVE ExactAnswer
    OBVIOUS
  <2>1. ASSUME HealthAnswered
        PROVE  LET rows == RowsOf(request.symbol)
                   h == answer'.health[request.symbol]
                   newer == Cardinality({r \in rows : r.created > h.evaluated_at})
               IN  \/ Cardinality(rows) <= HealthLimit
                   \/ (HealthLimit - newer) * LeastPenalty >= BaseScore
                   => h.score = ReferenceScore(rows, h.state, h.evaluated_at)
    <3> DEFINE h == answer'.health[request.symbol]
               state == request.states[request.symbol]
               rows == RowsOf(request.symbol)
    <3>1. PICK S \in GetRecentAnomalies(rows, HealthLimit) :
            h = EvaluateHealth(state, S, request.at)
      BY <2>1, HealthAnswer DEF HealthInv
    <3>2. request.at \in Nat /\ state \in States
      BY <2>1, HealthAnswer DEF HealthInv
    <3>3. rows \subseteq Rows /\ IsFiniteSet(rows)
      BY FS_Subset DEF HealthInv, TypeOK, PipelineTypeOK, RowsOf
    <3> HIDE DEF h, state, rows
    <3>4. /\ h.evaluated_at = request.at /\ h.state = state
          /\ h.score = ComputeScore(TotalPenalty(state, S, request.at))
      BY <3>1, EvaluationParts
    <3>5. ASSUME \/ Cardinality(rows) <= HealthLimit
                 \/ (HealthLimit - Cardinality({r \in rows : r.created > request.at}))
                       * LeastPenalty >= BaseScore
          PROVE  h.score = ReferenceScore(rows, state, request.at)
      BY <3>1, <3>2, <3>3, <3>4, <3>5, LimitIsHarmless
    <3> QED
      BY <3>4, <3>5 DEF h, rows
  <2>2. ASSUME DashboardAnswered, NEW s \in Symbols, answer'.health[s] # None
        PROVE  answer'.health[s].score =
                 ReferenceScore({r \in request.rows : r.symbol = s},
                                answer'.health[s].state, answer'.health[s].evaluated_at)
    <3> DEFINE h == answer'.health[s]
               rows == {r \in request.rows : r.symbol = s}
    <3>1. request.pc = "evaluate" /\ request'.pc = "idle" /\ now \in Nat
          /\ request.states \in [Symbols -> States \cup {None}]
          /\ request.rows \subseteq Rows /\ IsFiniteSet(request.rows)
      BY <2>2 DEF DashboardAnswered, HealthInv, TypeOK, RequestTypeOK, PipelineTypeOK
    <3>2. AnswerDashboard
      BY <3>1 DEF Next, Receive, UpdateCache, Detect, InsertAnomaly, Switch, MarketHealth,
                  LoadMarketState, AnswerHealth, DashboardStates, DashboardAnomalies, Tick
    <3>3. h = IF request.states[s] = None THEN None
              ELSE EvaluateHealth(request.states[s], rows, now)
      BY <3>2 DEF AnswerDashboard, Reply
    <3>4. rows \subseteq Rows /\ IsFiniteSet(rows) /\ request.states[s] \in States
          /\ h = EvaluateHealth(request.states[s], rows, now)
      BY <2>2, <3>1, <3>3, FS_Subset
    <3> HIDE DEF h, rows
    <3>5. /\ h.evaluated_at = now /\ h.state = request.states[s]
          /\ h.score = ComputeScore(TotalPenalty(request.states[s], rows, now))
      BY <3>4, EvaluationParts
    <3>6. h.score = ReferenceScore(rows, h.state, h.evaluated_at)
      BY <3>1, <3>4, <3>5, ScoreOfRows
    <3> QED
      BY <3>6 DEF h, rows
  <2> QED
    BY <2>1, <2>2 DEF ExactAnswer
<1> QED
  BY <1>1, HealthInvariant, PTL DEF Spec, ScoreIsExact
=============================================================================
