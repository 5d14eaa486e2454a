------------------------------ MODULE DemoData ------------------------------
(***************************************************************************)
(* The fixed data set of mode=demo (src/src/api/demo_data.rs).  Times are  *)
(* the seconds of the demo's minute; prices, quantities and texts are left *)
(* out, for the answers are told apart by their rows and ages only.        *)
(***************************************************************************)
EXTENDS Integers, Sequences, SequencesExt, FiniteSetsExt

DemoNow == 59

DemoMarkets ==
  <<"BTCUSDT", "ETHUSDT", "SOLUSDT", "XRPUSDT", "BNBUSDT", "ADAUSDT", "DOGEUSDT">>

DemoSummaryTrades ==
  [BTCUSDT |-> <<50, 51, 52, 53, 54, 55>>, ETHUSDT |-> <<51, 52, 53, 54, 55, 56>>,
   SOLUSDT |-> <<55, 58>>, XRPUSDT |-> <<55, 58>>, BNBUSDT |-> <<55, 58>>,
   ADAUSDT |-> <<49, 50>>, DOGEUSDT |-> <<55, 58>>]

DemoQuotes ==
  [BTCUSDT |-> 56, ETHUSDT |-> 57, SOLUSDT |-> 58, XRPUSDT |-> 58, BNBUSDT |-> 58,
   ADAUSDT |-> 50, DOGEUSDT |-> 58]

\* ids 100-101 and 103-104: the demo's book has a gap
DemoDepth == [BTCUSDT |-> <<57, 58>>]

DemoAnomalies ==
  <<[symbol |-> "DOGEUSDT", type |-> "PriceMove", severity |-> "Critical", time |-> 58],
    [symbol |-> "BTCUSDT", type |-> "SpreadSpike", severity |-> "Warning", time |-> 58],
    [symbol |-> "ADAUSDT", type |-> "StaleData", severity |-> "Info", time |-> 58]>>

\* only two markets have a timeline
DemoTimelineTrades(s) ==
  IF s \in {"BTCUSDT", "ETHUSDT"} THEN DemoSummaryTrades[s] ELSE <<>>

\* build_demo_dataset: what the aggregator makes of the events of a market
DemoLastEvent(s) ==
  Max(ToSet(DemoSummaryTrades[s]) \cup {DemoQuotes[s]}
        \cup IF s \in DOMAIN DemoDepth THEN ToSet(DemoDepth[s]) ELSE {})

DemoAnomaliesOf(s) == SelectSeq(DemoAnomalies, LAMBDA a : a.symbol = s)

\* market_timeline: a market without points shows no anomalies either
DemoTimeline(s) ==
  LET points == DemoTimelineTrades(s)
  IN  [points |-> [i \in DOMAIN points |->
                     [time |-> points[i], age |-> DemoNow - points[i]]],
       anomalies |-> IF points = <<>> THEN <<>> ELSE DemoAnomaliesOf(s)]

\* dashboard_summary: every market is observed, the pipeline a healthy one
DemoDashboard ==
  [pipeline |-> [status |-> "healthy", last_message_age |-> 1, parse_errors |-> 0,
                 reconnect_attempts |-> 0, storage_errors |-> 0, cache_errors |-> 0],
   symbols |-> [s \in ToSet(DemoMarkets) |->
                  [availability |-> "observed",
                   state |-> [time |-> DemoLastEvent(s), age |-> DemoNow - DemoLastEvent(s)],
                   health |-> DemoAnomaliesOf(s)]],
   recent_anomalies |-> DemoAnomalies]
=============================================================================
