----------------------------- MODULE TradeWindow -----------------------------
(***************************************************************************)
(* The sliding window of trades (src/src/state/window.rs): a sequence of   *)
(* samples sorted by event time, and the latest event time seen.           *)
(***************************************************************************)
EXTENDS Integers, Sequences, SequencesExt

CONSTANT WindowSize   \* TRADE_WINDOW_SECONDS

ASSUME TradeWindowAssumption == WindowSize \in Nat

NewWindow == [samples |-> <<>>, latest_event_time |-> {}]

\* the first position whose sample satisfies Test, one past the end if none
Position(samples, Test(_)) ==
  LET i == SelectInSeq(samples, Test) IN IF i = 0 THEN Len(samples) + 1 ELSE i

\* a sample goes behind those of the same time
InsertSample(samples, sample) ==
  InsertAt(samples,
           Position(samples, LAMBDA s : s.event_time > sample.event_time), sample)

\* mutant: the sample at the window's edge is evicted as well
EvictBefore_Inclusive(samples, cutoff) ==
  SubSeq(samples, Position(samples, LAMBDA s : s.event_time > cutoff), Len(samples))

\* samples leave at the front until one is young enough
EvictBefore(samples, cutoff) ==
  SubSeq(samples, Position(samples, LAMBDA s : s.event_time >= cutoff), Len(samples))

\* latest_event_time is a set of at most one time
Later(latest, time) ==
  IF \E t \in latest : t > time THEN latest ELSE {time}

\* push: insert, then evict what is older than the latest time by the window
Push(window, sample) ==
  LET latest == Later(window.latest_event_time, sample.event_time)
      cutoff == (CHOOSE t \in latest : TRUE) - WindowSize
  IN  [samples |-> EvictBefore(InsertSample(window.samples, sample), cutoff),
       latest_event_time |-> latest]
=============================================================================
