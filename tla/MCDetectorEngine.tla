-------------------------- MODULE MCDetectorEngine --------------------------
(* Market states for the detectors: quotes, gaps, trade bursts, and the states *)
(* that the detectors without memory look at.                                  *)
EXTENDS DetectorEngine, TLC

MCSettings ==
  [price_move |-> 2, spread_spike |-> 2, stale_data_ms |-> 4,
   trade_burst_multiplier |-> 2, trade_burst_min_warmup_windows |-> 2,
   quote_stuck_ms |-> 2, event_lag_spike_ms |-> 2,
   depth_sequence_gap_min_increment |-> 1]

\* the tops of a book over time, and gap counts
QuoteStates ==
  [price_change_1m_pct : {<<>>}, spread_pct : {<<>>}, trades_per_minute : {None},
   signature : {None, 1, 2}, depth_sequence_gap_count : {0},
   last_event_time : {0, 1, 3}, last_ingest_time : {0}]
GapStates ==
  [price_change_1m_pct : {<<>>}, spread_pct : {<<>>}, trades_per_minute : {None},
   signature : {1}, depth_sequence_gap_count : {1, 2},
   last_event_time : {3}, last_ingest_time : {0}]

\* the rates alone, and one state that raises everything else
BurstStates ==
  [price_change_1m_pct : {<<>>}, spread_pct : {<<1>>},
   trades_per_minute : {1, 2, 4}, signature : {None},
   depth_sequence_gap_count : {0}, last_event_time : {0}, last_ingest_time : {1}]
  \cup
  [price_change_1m_pct : {<<-3>>}, spread_pct : {<<2>>},
   trades_per_minute : {4}, signature : {None},
   depth_sequence_gap_count : {0}, last_event_time : {0}, last_ingest_time : {4}]

MCMarketStates == QuoteStates \cup GapStates \cup BurstStates

SymbolSymmetry == Permutations(Symbols)
=============================================================================
