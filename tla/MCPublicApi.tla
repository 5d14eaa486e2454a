---------------------------- MODULE MCPublicApi ----------------------------
(* PublicApi with two markets, one of which the demo has no timeline for. *)
EXTENDS PublicApi

MCSymbols == {"BTCUSDT", "ADAUSDT"}

\* absent, not a number, and around the bounds
MCLimits == {None, -1, 0, 1, 2, 3}

\* every way a market may be available: configured or not, in each kind of run
MCRuntimeSnapshots ==
  {[mode |-> "Live", status |-> "Starting", symbols |-> {"BTCUSDT"}],
   [mode |-> "Live", status |-> "Failed", symbols |-> {"BTCUSDT"}],
   [mode |-> "Replay", status |-> "Completed", symbols |-> {"ADAUSDT"}]}

\* mostly counting, mostly writing, and some of each with a failure
MCBudgets ==
  {[counting |-> 3, writing |-> 0, faults |-> 0],
   [counting |-> 2, writing |-> 0, faults |-> 1],
   [counting |-> 0, writing |-> 3, faults |-> 0],
   [counting |-> 1, writing |-> 1, faults |-> 1]}
=============================================================================
