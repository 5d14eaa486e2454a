------------------------- MODULE MCRuntimeSupervisor -------------------------
(***************************************************************************)
(* Instances of RuntimeSupervisor for TLC: two clients, the commands that  *)
(* reach every outcome of resolve_switch_request and every reset policy,   *)
(* and three or four run ids, so that a run is superseded twice.           *)
(***************************************************************************)
EXTENDS RuntimeSupervisor

CONSTANTS btc, eth, bad

MCSymbols == {btc, eth}
MCStartSymbols == {btc}

\* a plain replay, a destructive live switch, and the rejected ones: unknown
\* mode, empty list, invalid symbol
ReplayCommand == [mode |-> "replay", symbols |-> {},
                  reset_state |-> "none", reset_storage |-> "false"]
LiveCommand == [mode |-> "live", symbols |-> {{eth}},
                reset_state |-> "true", reset_storage |-> "true"]
UnknownMode == [ReplayCommand EXCEPT !.mode = "other"]
EmptyList == [LiveCommand EXCEPT !.symbols = {{}}]
BadSymbol == [LiveCommand EXCEPT !.symbols = {{eth, bad}}]

MCCommands == {ReplayCommand, LiveCommand, UnknownMode, EmptyList, BadSymbol}

\* the refused commands leave no trace but the answer: one of them will do
\* where the state space is large
MCValidCommands == {ReplayCommand, LiveCommand}
=============================================================================
