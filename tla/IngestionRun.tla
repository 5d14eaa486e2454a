----------------------------- MODULE IngestionRun -----------------------------
(***************************************************************************)
(* One ingestion run, replay or live: the source (src/src/ingestion/       *)
(* replay.rs, live.rs), the bounded channel (ingestion/mod.rs) and the     *)
(* event pipeline (ingestion/pipeline.rs), joined at the end by            *)
(* run_replay_ingestion or run_live_ingestion.                             *)
(*                                                                         *)
(* The source and the pipeline are two tasks; a step is what one of them   *)
(* does between two awaits.  What a line, a payload or a message holds is  *)
(* abstracted to what becomes of it: an event of some kind, nothing, or a  *)
(* parse error.  The market state an event leads to is abstracted to the   *)
(* event itself: for each symbol the cache holds the state as of an event. *)
(***************************************************************************)
EXTENDS Integers, Sequences, FiniteSets, SequencesExt

CONSTANTS
  Sources,      \* the kinds of runs: "Replay", "Live"
  Symbols,      \* the symbols the events are about
  Contents,     \* the events the source may produce: the kind and the symbol
  Capacity,     \* event_channel_capacity
  MinBackoff,   \* reconnect_min_backoff_ms
  MaxBackoff,   \* reconnect_max_backoff_ms
  MaxInput,     \* bound: lines of the fixture, or messages the exchange sends
  MaxReconnects,\* bound: reconnect attempts
  MaxAnomalies  \* bound: anomalies one event leads to

Kinds == {"trade", "quote", "depth"}

ASSUME IngestionAssumption ==
  /\ Sources \subseteq {"Replay", "Live"}
  /\ Contents \subseteq [kind : Kinds, symbol : Symbols]
  /\ Capacity \in Nat \ {0}
  /\ MinBackoff \in Nat \ {0}
  /\ MaxBackoff \in Nat /\ MinBackoff <= MaxBackoff
  /\ MaxInput \in Nat
  /\ MaxReconnects \in Nat
  /\ MaxAnomalies \in Nat

VARIABLES
  source,          \* the kind of this run
  source_pc,       \* where the source stands; "ended" once its sender is dropped
  source_result,   \* what run_replay_source or run_live_source returned
  inputs,          \* lines or messages taken so far
  pending,         \* the event the source is sending: a sequence of at most one
  emitted,         \* every event sent into the channel, in order
  shutdown,        \* the value of the watch channel
  reconnect_attempt, backoff,
  channel,
  pipe_pc,         \* where the pipeline stands
  applied,         \* every event applied to the aggregator, in order
  rows,            \* the events with a row in PostgreSQL, in the order of insertion
  cached,          \* for each symbol, the position in applied of the event whose state
                   \* is in Redis, 0 when it has none of this run
  counters,        \* the error counters
  run_result       \* what the joined run returned

sourceVars == <<source, source_pc, source_result, inputs, pending, reconnect_attempt, backoff>>
pipeVars == <<pipe_pc, applied, rows, cached>>
vars == <<sourceVars, emitted, shutdown, channel, pipeVars, counters, run_result>>

-----------------------------------------------------------------------------
\* the events with a table of their own
Persisted == {"trade", "quote"}

Event == [id : 1 .. MaxInput, kind : Kinds, symbol : Symbols]

Counters == [parse_errors : Nat, storage_errors : Nat, cache_errors : Nat,
             reconnect_attempts : Nat]

SourcePcs == {"open", "read", "loop", "connect", "stream", "send", "backoff", "ended"}
PipePcs == {"recv", "persist", "cache", "detect", "ended", "panicked"}

Count(counter) == counters' = [counters EXCEPT ![counter] = @ + 1]

ReconnectBackoff(attempt) ==
  LET shift == IF attempt < 16 THEN attempt ELSE 16
      delay == MinBackoff * 2 ^ shift
  IN  IF delay < MaxBackoff THEN delay ELSE MaxBackoff

ReceiverDropped == pipe_pc \in {"ended", "panicked"}

Init ==
  /\ source \in Sources
  /\ source_pc = "open"
  /\ source_result = "none"
  /\ inputs = 0
  /\ pending = <<>>
  /\ emitted = <<>>
  /\ shutdown = FALSE
  /\ reconnect_attempt = 0
  /\ backoff = 0
  /\ channel = <<>>
  /\ pipe_pc = "recv"
  /\ applied = <<>>
  /\ rows = <<>>
  /\ cached = [s \in Symbols |-> 0]
  /\ counters = [parse_errors |-> 0, storage_errors |-> 0, cache_errors |-> 0,
                 reconnect_attempts |-> 0]
  /\ run_result = "none"

-----------------------------------------------------------------------------
(* The source *)

\* the source function returns and its sender goes with it
EndSource(result) ==
  /\ source_pc' = "ended"
  /\ source_result' = result

\* a line or payload with this content is an event to send
TakeEvent(content) ==
  /\ pending' = <<[id |-> inputs + 1, kind |-> content.kind, symbol |-> content.symbol]>>
  /\ source_pc' = "send"
  /\ UNCHANGED <<source_result, counters>>

\* the fixture is opened, or the stream's URL is built
Open ==
  /\ source_pc = "open"
  /\ \/ /\ source_pc' = IF source = "Replay" THEN "read" ELSE "loop"
        /\ UNCHANGED source_result
     \/ EndSource("err")
  /\ UNCHANGED <<source, inputs, pending, reconnect_attempt, backoff, emitted, shutdown,
                 channel, pipeVars, counters, run_result>>

\* one line of the fixture: an event, a blank line, or a fatal parse error
ReadLine ==
  /\ source_pc = "read"
  /\ inputs < MaxInput
  /\ inputs' = inputs + 1
  /\ \/ \E content \in Contents : TakeEvent(content)
     \/ UNCHANGED <<source_pc, source_result, pending, counters>>
     \/ EndSource("err") /\ Count("parse_errors") /\ UNCHANGED pending
  /\ UNCHANGED <<source, reconnect_attempt, backoff, emitted, shutdown, channel, pipeVars,
                 run_result>>

\* the end of the fixture, or a read error
ReadEnd ==
  /\ source_pc = "read"
  /\ \E result \in {"ok", "err"} : EndSource(result)
  /\ UNCHANGED <<source, inputs, pending, reconnect_attempt, backoff, emitted, shutdown,
                 channel, pipeVars, counters, run_result>>

\* mutant: try_send, which drops the event when the channel is full
Send_TrySend ==
  /\ source_pc = "send"
  /\ ~ReceiverDropped
  /\ channel' = IF Len(channel) < Capacity THEN channel \o pending ELSE channel
  /\ emitted' = emitted \o pending
  /\ pending' = <<>>
  /\ source_pc' = IF source = "Replay" THEN "read" ELSE "stream"
  /\ UNCHANGED <<source, source_result, inputs, reconnect_attempt, backoff, shutdown,
                 pipeVars, counters, run_result>>

\* sender.send().await: waits for room, fails when the receiver is gone
Send ==
  /\ source_pc = "send"
  /\ ~ReceiverDropped
  /\ Len(channel) < Capacity
  /\ channel' = channel \o pending
  /\ emitted' = emitted \o pending
  /\ pending' = <<>>
  /\ source_pc' = IF source = "Replay" THEN "read" ELSE "stream"
  /\ UNCHANGED <<source, source_result, inputs, reconnect_attempt, backoff, shutdown,
                 pipeVars, counters, run_result>>

SendFails ==
  /\ source_pc = "send"
  /\ ReceiverDropped
  /\ EndSource("err")
  /\ pending' = <<>>
  /\ UNCHANGED <<source, inputs, reconnect_attempt, backoff, emitted, shutdown, channel,
                 pipeVars, counters, run_result>>

\* the head of run_live_source's loop
LiveLoop ==
  /\ source_pc = "loop"
  /\ IF shutdown THEN EndSource("ok")
                 ELSE source_pc' = "connect" /\ UNCHANGED source_result
  /\ UNCHANGED <<source, inputs, pending, reconnect_attempt, backoff, emitted, shutdown,
                 channel, pipeVars, counters, run_result>>

Connected ==
  /\ source_pc = "connect"
  /\ reconnect_attempt' = 0
  /\ source_pc' = "stream"
  /\ UNCHANGED <<source, source_result, inputs, pending, backoff, emitted, shutdown,
                 channel, pipeVars, counters, run_result>>

\* connect_async failed, or the stream closed, failed or ended
Retry ==
  /\ source_pc \in {"connect", "stream"}
  /\ counters.reconnect_attempts < MaxReconnects
  /\ backoff' = ReconnectBackoff(reconnect_attempt)
  /\ reconnect_attempt' = reconnect_attempt + 1
  /\ Count("reconnect_attempts")
  /\ source_pc' = "backoff"
  /\ UNCHANGED <<source, source_result, inputs, pending, emitted, shutdown, channel,
                 pipeVars, run_result>>

\* mutant: a payload that does not parse ends the run
StreamMessage_Fatal ==
  /\ source_pc = "stream"
  /\ inputs < MaxInput
  /\ inputs' = inputs + 1
  /\ \/ \E content \in Contents : TakeEvent(content)
     \/ Count("parse_errors") /\ EndSource("err") /\ UNCHANGED pending
  /\ UNCHANGED <<source, reconnect_attempt, backoff, emitted, shutdown, channel, pipeVars,
                 run_result>>

\* one message of the stream: an event, one that is ignored, or a parse error,
\* which is counted and survived
StreamMessage ==
  /\ source_pc = "stream"
  /\ inputs < MaxInput
  /\ inputs' = inputs + 1
  /\ \/ \E content \in Contents : TakeEvent(content)
     \/ UNCHANGED <<source_pc, source_result, pending, counters>>
     \/ Count("parse_errors") /\ UNCHANGED <<source_pc, source_result, pending>>
  /\ UNCHANGED <<source, reconnect_attempt, backoff, emitted, shutdown, channel, pipeVars,
                 run_result>>

\* mutant: only the backoff listens for the shutdown
StopLive_BackoffOnly ==
  /\ source_pc = "backoff"
  /\ shutdown
  /\ EndSource("ok")
  /\ UNCHANGED <<source, inputs, pending, reconnect_attempt, backoff, emitted, shutdown,
                 channel, pipeVars, counters, run_result>>

\* shutdown.changed() wins the select, while streaming or backing off
StopLive ==
  /\ source_pc \in {"stream", "backoff"}
  /\ shutdown
  /\ EndSource("ok")
  /\ UNCHANGED <<source, inputs, pending, reconnect_attempt, backoff, emitted, shutdown,
                 channel, pipeVars, counters, run_result>>

BackoffElapsed ==
  /\ source_pc = "backoff"
  /\ source_pc' = "loop"
  /\ UNCHANGED <<source, source_result, inputs, pending, reconnect_attempt, backoff,
                 emitted, shutdown, channel, pipeVars, counters, run_result>>

\* the supervisor sends true on the watch channel of a live run
RequestShutdown ==
  /\ source = "Live"
  /\ ~shutdown
  /\ shutdown' = TRUE
  /\ UNCHANGED <<sourceVars, emitted, channel, pipeVars, counters, run_result>>

-----------------------------------------------------------------------------
(* The pipeline *)

\* recv and apply: the next event updates the aggregator
Receive ==
  /\ pipe_pc = "recv"
  /\ channel # <<>>
  /\ channel' = Tail(channel)
  /\ applied' = Append(applied, Head(channel))
  /\ pipe_pc' = "persist"
  /\ UNCHANGED <<sourceVars, emitted, shutdown, rows, cached, counters, run_result>>

\* the channel is empty and its sender dropped
PipelineEnds ==
  /\ pipe_pc = "recv"
  /\ channel = <<>>
  /\ source_pc = "ended"
  /\ pipe_pc' = "ended"
  /\ UNCHANGED <<sourceVars, emitted, shutdown, channel, applied, rows, cached,
                 counters, run_result>>

\* mutant: quotes that cannot be inserted are not counted
Persist_Uncounted ==
  /\ pipe_pc = "persist"
  /\ \/ Last(applied).kind # "trade" /\ UNCHANGED rows
     \/ Last(applied).kind \in Persisted /\ rows' = Append(rows, Last(applied))
  /\ pipe_pc' = "cache"
  /\ UNCHANGED <<sourceVars, emitted, shutdown, channel, applied, cached,
                 counters, run_result>>

\* insert_trade or insert_quote; an error is counted and passed over
Persist ==
  /\ pipe_pc = "persist"
  /\ \/ /\ Last(applied).kind \notin Persisted
        /\ UNCHANGED <<rows, counters>>
     \/ /\ Last(applied).kind \in Persisted
        /\ rows' = Append(rows, Last(applied))
        /\ UNCHANGED counters
     \/ /\ Last(applied).kind \in Persisted
        /\ Count("storage_errors")
        /\ UNCHANGED rows
  /\ pipe_pc' = "cache"
  /\ UNCHANGED <<sourceVars, emitted, shutdown, channel, applied, cached, run_result>>

\* mutant: a cache error is passed over in silence
CacheState_Uncounted ==
  /\ pipe_pc = "cache"
  /\ \/ cached' = [cached EXCEPT ![Last(applied).symbol] = Len(applied)]
     \/ UNCHANGED cached
  /\ pipe_pc' = "detect"
  /\ UNCHANGED <<sourceVars, emitted, shutdown, channel, applied, rows, counters,
                 run_result>>

\* set_market_state, for the symbol of the event only; an error is counted and
\* passed over
CacheState ==
  /\ pipe_pc = "cache"
  /\ \/ /\ cached' = [cached EXCEPT ![Last(applied).symbol] = Len(applied)]
        /\ UNCHANGED counters
     \/ Count("cache_errors") /\ UNCHANGED cached
  /\ pipe_pc' = "detect"
  /\ UNCHANGED <<sourceVars, emitted, shutdown, channel, applied, rows, run_result>>

\* the detectors run and their anomalies are inserted; any insert may fail
Detect ==
  /\ pipe_pc = "detect"
  /\ \E failed \in 0 .. MaxAnomalies :
        counters' = [counters EXCEPT !.storage_errors = @ + failed]
  /\ pipe_pc' = "recv"
  /\ UNCHANGED <<sourceVars, emitted, shutdown, channel, applied, rows, cached,
                 run_result>>

\* the pipeline task dies: the receiver and what is queued go with it
PipelinePanics ==
  /\ ~ReceiverDropped
  /\ pipe_pc' = "panicked"
  /\ channel' = <<>>
  /\ UNCHANGED <<sourceVars, emitted, shutdown, applied, rows, cached, counters,
                 run_result>>

-----------------------------------------------------------------------------
\* the source has returned and the pipeline is joined
JoinRun ==
  /\ run_result = "none"
  /\ source_pc = "ended"
  /\ ReceiverDropped
  /\ run_result' = IF pipe_pc = "panicked" THEN "err" ELSE source_result
  /\ UNCHANGED <<sourceVars, emitted, shutdown, channel, pipeVars, counters>>

ReplayStep == ReadLine \/ ReadEnd
LiveStep == LiveLoop \/ Connected \/ Retry \/ StreamMessage \/ BackoffElapsed
PipelineStep == Receive \/ PipelineEnds \/ Persist \/ CacheState \/ Detect

Next ==
  \/ Open
  \/ ReplayStep
  \/ Send
  \/ SendFails
  \/ LiveStep
  \/ StopLive
  \/ RequestShutdown
  \/ PipelineStep
  \/ PipelinePanics
  \/ JoinRun

\* Both tasks are polled while they are ready; a fixture is finite.  A select
\* with both arms ready picks one at random, so that shutdown wins in the end:
\* strong fairness of StopLive.
Fairness ==
  /\ WF_vars(Open)
  /\ WF_vars(ReplayStep)
  /\ WF_vars(Send \/ SendFails)
  /\ WF_vars(LiveStep)
  /\ SF_vars(StopLive)
  /\ WF_vars(PipelineStep)
  /\ WF_vars(JoinRun)

Spec == Init /\ [][Next]_vars

FairSpec == Spec /\ Fairness

-----------------------------------------------------------------------------
(* What makes a run correct *)

\* The variables stay in their domains and the channel within its capacity.
TypeOK ==
  /\ source \in Sources
  /\ source_pc \in SourcePcs
  /\ source_result \in {"none", "ok", "err"}
  /\ inputs \in 0 .. MaxInput
  /\ pending \in Seq(Event) /\ Len(pending) <= 1
  /\ emitted \in Seq(Event)
  /\ shutdown \in BOOLEAN
  /\ reconnect_attempt \in Nat
  /\ backoff \in 0 .. MaxBackoff
  /\ channel \in Seq(Event) /\ Len(channel) <= Capacity
  /\ pipe_pc \in PipePcs
  /\ applied \in Seq(Event)
  /\ rows \in Seq(Event)
  /\ cached \in [Symbols -> Nat]
  /\ counters \in Counters
  /\ run_result \in {"none", "ok", "err"}

\* Backpressure, not loss: as long as the pipeline lives, the events applied
\* and those queued are exactly the events sent, in the order they were sent.
\* A run is joined only after everything it took in has been processed, with
\* nothing queued or half done; the supervisor relies on it when it resets the
\* stores after the join.
NothingLostOrReordered ==
  pipe_pc # "panicked" =>
    /\ applied \o channel = emitted
    /\ run_result # "none" => channel = <<>> /\ pipe_pc = "ended"

\* the positions of the events whose insert has been tried, of those that have
\* a table
Tried ==
  {i \in DOMAIN applied :
     applied[i].kind \in Persisted /\ (pipe_pc = "persist" => i < Len(applied))}

\* Rows are inserted in the order of the events and no insert is skipped: an
\* event without a row was counted as a storage error.
RowsOrCounted ==
  /\ \A i, j \in DOMAIN rows : i < j => rows[i].id < rows[j].id
  /\ pipe_pc # "panicked" =>
       Cardinality(Tried) <= Len(rows) + counters.storage_errors

\* the positions of the events whose state was to be written to Redis, and
\* neither that state is there nor a later one of the same symbol
Lagging ==
  {i \in DOMAIN applied :
     /\ i > cached[applied[i].symbol]
     /\ pipe_pc \in {"persist", "cache"} => i < Len(applied)}

\* A cache that lags behind the aggregator is never silent, for no symbol: the
\* state of an event is in Redis, or that of a later event of the same symbol,
\* or a cache error was counted for it.  A write that succeeds catches up with
\* the earlier failures of its own symbol; those of another stay.
CacheLagIsCounted ==
  pipe_pc # "panicked" => Cardinality(Lagging) <= counters.cache_errors

\* A live run survives bad payloads and lost connections: it fails only if its
\* URL cannot be built or its pipeline died, and if it returns successfully it
\* was told to stop.  Between two attempts it waits within its bounds, and the
\* least after a connection that had worked.
LiveOutlivesFaults ==
  source = "Live" =>
    /\ source_result = "err" =>
         pipe_pc = "panicked" \/ (inputs = 0 /\ counters.reconnect_attempts = 0)
    /\ run_result = "ok" => shutdown
    /\ source_pc = "backoff" =>
         /\ backoff \in MinBackoff .. MaxBackoff
         /\ reconnect_attempt = 1 => backoff = MinBackoff

\* A replay always ends, and a live run ends once it is told to, even when it
\* is blocked on a full channel at that moment.
RunEnds == (source = "Replay" \/ shutdown) ~> run_result # "none"

-----------------------------------------------------------------------------
(* The inductive invariant behind the safety theorems *)

\* What the two tasks know of each other: a sender or receiver that is gone,
\* and a run that is joined.
TasksProtocol ==
  /\ source = "Live" => source_pc # "read"
  /\ source_pc = "open" => inputs = 0 /\ counters.reconnect_attempts = 0
  /\ source_pc # "ended" => source_result = "none"
  /\ pipe_pc = "ended" => source_pc = "ended" /\ channel = <<>>
  /\ pipe_pc \in {"persist", "cache"} => applied # <<>>
  /\ run_result # "none" => source_pc = "ended" /\ ReceiverDropped

\* The events are numbered in the order they are sent, the one being sent last.
EventsInOrder ==
  /\ \A i, j \in DOMAIN emitted : i < j => emitted[i].id < emitted[j].id
  /\ \A i \in DOMAIN emitted : emitted[i].id <= inputs
  /\ pending # <<>> =>
       /\ source_pc = "send"
       /\ pending[1].id = inputs
       /\ \A i \in DOMAIN emitted : emitted[i].id < inputs

\* The rows are those of events already applied.
RowsAreBehind ==
  \A i \in DOMAIN rows :
    /\ applied # <<>>
    /\ rows[i].id <= Last(applied).id
    /\ pipe_pc = "persist" => rows[i].id < Last(applied).id

\* A live source returns successfully only when it was told to stop.
LiveStopsWhenTold == source = "Live" /\ source_result = "ok" => shutdown

IngestionInv ==
  /\ TypeOK
  /\ TasksProtocol
  /\ EventsInOrder
  /\ NothingLostOrReordered
  /\ RowsAreBehind
  /\ RowsOrCounted
  /\ CacheLagIsCounted
  /\ LiveStopsWhenTold
  /\ LiveOutlivesFaults
=============================================================================
