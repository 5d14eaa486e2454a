-------------------------- MODULE IngestionRun_proofs --------------------------
(***************************************************************************)
(* Proofs about IngestionRun, for every channel capacity, every length of  *)
(* the input, every number of reconnects and every backoff.                *)
(***************************************************************************)
EXTENDS IngestionRun, SequenceTheorems, FiniteSetTheorems, TLAPS

USE DEF sourceVars, pipeVars

\* Handing the head of one sequence over to the end of another keeps what the
\* two hold together.
LEMMA HandOver ==
  ASSUME NEW S, NEW s \in Seq(S), NEW t \in Seq(S), t # <<>>
  PROVE  /\ Append(s, Head(t)) \in Seq(S)
         /\ Append(s, Head(t)) \o Tail(t) = s \o t
<1>1. /\ Head(t) \in S /\ Tail(t) \in Seq(S) /\ t = <<Head(t)>> \o Tail(t)
  <2>1. Head(t) \in S /\ Tail(t) \in Seq(S) /\ Len(Tail(t)) = Len(t) - 1
        /\ \A i \in 1 .. Len(Tail(t)) : Tail(t)[i] = t[i + 1]
    BY HeadTailProperties
  <2>2. <<Head(t)>> \in Seq(S) /\ Len(<<Head(t)>>) = 1 /\ <<Head(t)>>[1] = t[1]
    BY <2>1
  <2>3. Len(t) \in Nat \ {0}
    BY EmptySeq
  <2>4. /\ <<Head(t)>> \o Tail(t) \in Seq(S)
        /\ Len(<<Head(t)>> \o Tail(t)) = Len(t)
        /\ \A i \in 1 .. Len(t) : (<<Head(t)>> \o Tail(t))[i] = t[i]
    BY <2>1, <2>2, <2>3, ConcatProperties
  <2>5. <<Head(t)>> \o Tail(t) = t
    BY <2>4, SeqEqual
  <2> QED
    BY <2>1, <2>5
<1>2. Append(s, Head(t)) = s \o <<Head(t)>> /\ Append(s, Head(t)) \in Seq(S)
  BY <1>1, AppendIsConcat, AppendProperties
<1>3. <<Head(t)>> \in Seq(S)
  BY <1>1
<1>4. (s \o <<Head(t)>>) \o Tail(t) = s \o (<<Head(t)>> \o Tail(t))
  BY <1>1, <1>3, ConcatAssociative
<1> QED
  BY <1>1, <1>2, <1>4

\* The positions and the elements of a sequence of events.
LEMMA EventSeq ==
  ASSUME NEW s \in Seq(Event)
  PROVE  /\ Len(s) \in Nat
         /\ DOMAIN s = 1 .. Len(s)
         /\ \A i \in DOMAIN s : s[i] \in Event /\ s[i].id \in Nat
         /\ s # <<>> => Len(s) > 0
<1>1. Len(s) \in Nat /\ DOMAIN s = 1 .. Len(s)
  BY LenProperties
<1>2. \A i \in DOMAIN s : s[i] \in Event
  BY <1>1, ElementOfSeq
<1>3. \A e \in Event : e.id \in Nat
  BY IngestionAssumption DEF Event
<1>4. s # <<>> => Len(s) > 0
  BY <1>1, EmptySeq
<1> QED
  BY <1>1, <1>2, <1>3, <1>4

\* A sequence with one event more.
LEMMA EventSeqAppend ==
  ASSUME NEW s \in Seq(Event), NEW e \in Event
  PROVE  /\ Append(s, e) \in Seq(Event)
         /\ DOMAIN Append(s, e) = DOMAIN s \cup {Len(s) + 1}
         /\ Len(Append(s, e)) = Len(s) + 1
         /\ \A i \in DOMAIN s : Append(s, e)[i] = s[i] /\ i < Len(s) + 1
         /\ Append(s, e)[Len(s) + 1] = e
         /\ s \o <<e>> = Append(s, e)
<1>1. /\ Append(s, e) \in Seq(Event)
      /\ Len(Append(s, e)) = Len(s) + 1
      /\ \A i \in 1 .. Len(s) : Append(s, e)[i] = s[i]
      /\ Append(s, e)[Len(s) + 1] = e
      /\ s \o <<e>> = Append(s, e)
  BY AppendProperties, AppendIsConcat
<1>2. Len(s) \in Nat /\ DOMAIN s = 1 .. Len(s)
  BY EventSeq
<1>3. DOMAIN Append(s, e) = 1 .. Len(s) + 1
  BY <1>1, EventSeq
<1> QED
  BY <1>1, <1>2, <1>3

\* reconnect_backoff stays within its bounds and starts with the least.
LEMMA BackoffBounds ==
  ASSUME NEW attempt \in Nat
  PROVE  /\ ReconnectBackoff(attempt) \in MinBackoff .. MaxBackoff
         /\ attempt = 0 => ReconnectBackoff(attempt) = MinBackoff
<1> DEFINE shift == IF attempt < 16 THEN attempt ELSE 16
           delay == MinBackoff * 2 ^ shift
<1>1. \/ shift = 0 \/ shift = 1 \/ shift = 2 \/ shift = 3 \/ shift = 4 \/ shift = 5
      \/ shift = 6 \/ shift = 7 \/ shift = 8 \/ shift = 9 \/ shift = 10 \/ shift = 11
      \/ shift = 12 \/ shift = 13 \/ shift = 14 \/ shift = 15 \/ shift = 16
  OBVIOUS
<1> HIDE DEF shift
<1>2. /\ \/ 2^shift = 2^0 \/ 2^shift = 2^1 \/ 2^shift = 2^2 \/ 2^shift = 2^3
         \/ 2^shift = 2^4 \/ 2^shift = 2^5 \/ 2^shift = 2^6 \/ 2^shift = 2^7
         \/ 2^shift = 2^8 \/ 2^shift = 2^9 \/ 2^shift = 2^10 \/ 2^shift = 2^11
         \/ 2^shift = 2^12 \/ 2^shift = 2^13 \/ 2^shift = 2^14 \/ 2^shift = 2^15
         \/ 2^shift = 2^16
      /\ shift = 0 => 2^shift = 2^0
  BY <1>1, Zenon
<1>3. 2 ^ shift \in Nat \ {0} /\ (attempt = 0 => 2 ^ shift = 1)
  <2>1. attempt = 0 => shift = 0
    BY DEF shift
  <2>2. 2 ^ shift \in Nat \ {0}
    BY <1>2
  <2>3. shift = 0 => 2 ^ shift = 1
    BY <1>2
  <2> QED
    BY <2>1, <2>2, <2>3
<1>4. delay >= MinBackoff /\ delay \in Nat /\ (attempt = 0 => delay = MinBackoff)
  <2>1. ASSUME NEW x \in Nat \ {0}
        PROVE  MinBackoff * x \in Nat /\ MinBackoff * x >= MinBackoff
               /\ (x = 1 => MinBackoff * x = MinBackoff)
    BY <2>1, IngestionAssumption
  <2> QED
    BY <1>3, <2>1
<1>5. ReconnectBackoff(attempt) = IF delay < MaxBackoff THEN delay ELSE MaxBackoff
  BY DEF ReconnectBackoff, shift
<1> QED
  <2> HIDE DEF delay
  <2> QED
    BY <1>4, <1>5, IngestionAssumption

-----------------------------------------------------------------------------
(* The invariant *)

\* Counting adds one to a counter and leaves the others alone.
LEMMA CountCounts ==
  ASSUME counters \in Counters, NEW x \in {"parse_errors", "storage_errors",
         "cache_errors", "reconnect_attempts"}, Count(x)
  PROVE  /\ counters' \in Counters
         /\ counters'[x] = counters[x] + 1
         /\ \A y \in {"parse_errors", "storage_errors", "cache_errors",
                      "reconnect_attempts"} : y # x => counters'[y] = counters[y]
BY DEF Counters, Count

\* A run that has only been created meets the invariant.
LEMMA InitIngestion == Init => IngestionInv
<1> SUFFICES ASSUME Init PROVE IngestionInv
  OBVIOUS
<1> USE IngestionAssumption DEF Init
<1>1. TypeOK
  <2>1. counters \in Counters
    BY DEF Counters
  <2>2. <<>> \in Seq(Event) /\ Len(<<>>) = 0
    BY EmptySeq
  <2> QED
    <3>1. /\ inputs \in 0 .. MaxInput /\ backoff \in 0 .. MaxBackoff
          /\ reconnect_attempt \in Nat /\ cached \in [Symbols -> Nat]
          /\ Len(pending) <= 1 /\ Len(channel) <= Capacity
      BY <2>2
    <3>2. shutdown \in BOOLEAN /\ source_pc \in SourcePcs /\ pipe_pc \in PipePcs
          /\ source_result \in {"none", "ok", "err"} /\ run_result \in {"none", "ok", "err"}
      BY DEF SourcePcs, PipePcs
    <3> QED
      BY <2>1, <2>2, <3>1, <3>2 DEF TypeOK
<1>2. TasksProtocol /\ EventsInOrder /\ LiveStopsWhenTold
  BY DEF TasksProtocol, EventsInOrder, LiveStopsWhenTold
<1>3. NothingLostOrReordered
  BY ConcatEmptySeq, EmptySeq DEF NothingLostOrReordered
<1>4. DOMAIN rows = {} /\ DOMAIN applied = {} /\ Len(rows) = 0 /\ Len(applied) = 0
  BY EmptySeq
<1>5. RowsAreBehind /\ RowsOrCounted
  <2>1. Cardinality(Tried) = 0
    BY <1>4, FS_EmptySet DEF Tried
  <2> QED
    BY <1>4, <2>1 DEF RowsAreBehind, RowsOrCounted
<1>6. CacheLagIsCounted /\ LiveOutlivesFaults
  <2>1. Cardinality(Lagging) = 0
    BY <1>4, FS_EmptySet DEF Lagging
  <2> QED
    BY <2>1 DEF CacheLagIsCounted, LiveOutlivesFaults
<1> QED
  BY <1>1, <1>2, <1>3, <1>5, <1>6 DEF IngestionInv

\* No action takes a variable out of its domain; a sender waits for room, so
\* that the channel stays within its capacity.
LEMMA NextTypeOK == TypeOK /\ TasksProtocol /\ [Next]_vars => TypeOK'
<1> SUFFICES ASSUME TypeOK, TasksProtocol, [Next]_vars PROVE TypeOK'
  OBVIOUS
<1> USE IngestionAssumption DEF TypeOK
<1>0. ASSUME NEW content \in Contents, inputs < MaxInput, TakeEvent(content)
      PROVE  pending' \in Seq(Event) /\ Len(pending') <= 1
  BY <1>0 DEF TakeEvent, Event
<1>1. CASE Open
  BY <1>1 DEF Open, EndSource, SourcePcs
<1>2. CASE ReadLine
  BY <1>0, <1>2, CountCounts DEF ReadLine, TakeEvent, EndSource, SourcePcs
<1>3. CASE ReadEnd
  BY <1>3 DEF ReadEnd, EndSource, SourcePcs
<1>4. CASE Send
  <2>1. /\ channel \o pending \in Seq(Event) /\ emitted \o pending \in Seq(Event)
        /\ Len(channel \o pending) = Len(channel) + Len(pending)
    BY ConcatProperties
  <2>2. Len(channel') <= Capacity
    BY <1>4, <2>1 DEF Send
  <2>3. <<>> \in Seq(Event) /\ Len(<<>>) = 0
    BY EmptySeq
  <2> QED
    BY <1>4, <2>1, <2>2, <2>3 DEF Send, SourcePcs
<1>5. CASE SendFails
  <2>1. <<>> \in Seq(Event) /\ Len(<<>>) = 0
    BY EmptySeq
  <2> QED
    BY <1>5, <2>1 DEF SendFails, EndSource, SourcePcs
<1>6. CASE LiveLoop
  BY <1>6 DEF LiveLoop, EndSource, SourcePcs
<1>7. CASE Connected \/ BackoffElapsed
  BY <1>7 DEF Connected, BackoffElapsed, SourcePcs
<1>8. CASE Retry
  <2>1. backoff' \in 0 .. MaxBackoff
    BY <1>8, BackoffBounds DEF Retry
  <2> QED
    BY <1>8, <2>1, CountCounts DEF Retry, SourcePcs
<1>9. CASE StreamMessage
  BY <1>0, <1>9, CountCounts DEF StreamMessage, TakeEvent, SourcePcs
<1>10. CASE StopLive
  BY <1>10 DEF StopLive, EndSource, SourcePcs
<1>11. CASE RequestShutdown
  BY <1>11 DEF RequestShutdown
<1>12. CASE Receive
  <2>1. /\ Append(applied, Head(channel)) \in Seq(Event) /\ Tail(channel) \in Seq(Event)
        /\ Len(Tail(channel)) = Len(channel) - 1
    BY <1>12, HeadTailProperties, AppendProperties DEF Receive
  <2>2. Len(channel') <= Capacity
    BY <1>12, <2>1 DEF Receive
  <2> QED
    BY <1>12, <2>1, <2>2 DEF Receive, PipePcs
<1>13. CASE PipelineEnds
  BY <1>13 DEF PipelineEnds, PipePcs
<1>14. CASE Persist
  <2>1. Last(applied) \in Event
    BY <1>14, EmptySeq, ElementOfSeq DEF Persist, TasksProtocol, Last
  <2>2. rows' \in Seq(Event)
    <3>1. Append(rows, Last(applied)) \in Seq(Event)
      BY <2>1, AppendProperties
    <3> QED
      BY <1>14, <3>1 DEF Persist
  <2> QED
    BY <1>14, <2>2, CountCounts DEF Persist, PipePcs
<1>15. CASE CacheState
  <2>1. cached' \in [Symbols -> Nat]
    <3>1. Len(applied) \in Nat
      BY LenProperties
    <3> QED
      BY <1>15, <3>1 DEF CacheState
  <2> QED
    BY <1>15, <2>1, CountCounts DEF CacheState, PipePcs
<1>16. CASE Detect
  <2>1. counters' \in Counters
    <3>1. PICK failed \in 0 .. MaxAnomalies :
             counters' = [counters EXCEPT !.storage_errors = @ + failed]
      BY <1>16, Zenon DEF Detect
    <3>2. counters.storage_errors + failed \in Nat
      BY DEF Counters
    <3> QED
      BY <3>1, <3>2 DEF Counters
  <2> QED
    BY <1>16, <2>1 DEF Detect, PipePcs
<1>17. CASE PipelinePanics
  <2>1. <<>> \in Seq(Event) /\ Len(<<>>) = 0
    BY EmptySeq
  <2> QED
    BY <1>17, <2>1 DEF PipelinePanics, PipePcs
<1>18. CASE JoinRun
  BY <1>18 DEF JoinRun
<1>19. CASE UNCHANGED vars
  BY <1>19 DEF vars
<1> QED
  BY <1>1, <1>2, <1>3, <1>4, <1>5, <1>6, <1>7, <1>8, <1>9, <1>10, <1>11, <1>12,
     <1>13, <1>14, <1>15, <1>16, <1>17, <1>18, <1>19
  DEF Next, ReplayStep, LiveStep, PipelineStep

\* The two tasks end in order: the pipeline when the source has, the join last.
LEMMA NextTasks == IngestionInv /\ [Next]_vars => TasksProtocol'
<1> SUFFICES ASSUME IngestionInv, [Next]_vars PROVE TasksProtocol'
  OBVIOUS
<1> USE IngestionAssumption DEF IngestionInv, TypeOK, TasksProtocol, ReceiverDropped
<1>1. CASE Open \/ ReadEnd \/ LiveLoop \/ StopLive
  BY <1>1 DEF Open, ReadEnd, LiveLoop, StopLive, EndSource
<1>2. CASE ReadLine
  BY <1>2, CountCounts DEF ReadLine, TakeEvent, EndSource
<1>3. CASE Send
  BY <1>3 DEF Send
<1>4. CASE SendFails
  BY <1>4 DEF SendFails, EndSource
<1>5. CASE Connected \/ BackoffElapsed
  BY <1>5 DEF Connected, BackoffElapsed
<1>6. CASE Retry
  BY <1>6 DEF Retry
<1>7. CASE StreamMessage
  BY <1>7 DEF StreamMessage, TakeEvent
<1>8. CASE RequestShutdown
  BY <1>8 DEF RequestShutdown
<1>9. CASE Receive
  <2>1. applied' # <<>>
    BY <1>9, HeadTailProperties, AppendProperties DEF Receive
  <2> QED
    BY <1>9, <2>1 DEF Receive
<1>10. CASE PipelineEnds
  BY <1>10 DEF PipelineEnds
<1>11. ASSUME pipe_pc \notin {"ended", "panicked"},
              \/ pipe_pc' \in {"detect", "recv"}
              \/ pipe_pc = "persist" /\ pipe_pc' = "cache" /\ UNCHANGED applied,
              UNCHANGED <<sourceVars, run_result>>,
              counters'.reconnect_attempts = counters.reconnect_attempts
       PROVE  TasksProtocol'
  BY <1>11
<1>12. CASE Persist
  BY <1>11, <1>12, CountCounts DEF Persist
<1>13. CASE CacheState
  BY <1>11, <1>13, CountCounts DEF CacheState
<1>14. CASE Detect
  <2>1. counters'.reconnect_attempts = counters.reconnect_attempts
    BY <1>14 DEF Detect, Counters
  <2> QED
    BY <1>11, <1>14, <2>1 DEF Detect
<1>15. CASE PipelinePanics
  BY <1>15 DEF PipelinePanics
<1>16. CASE JoinRun
  BY <1>16 DEF JoinRun
<1>17. CASE UNCHANGED vars
  BY <1>17 DEF vars
<1> QED
  BY <1>1, <1>2, <1>3, <1>4, <1>5, <1>6, <1>7, <1>8, <1>9, <1>10, <1>12, <1>13,
     <1>14, <1>15, <1>16, <1>17
  DEF Next, ReplayStep, LiveStep, PipelineStep

\* A live source fails only before it took anything in or after a panic, and
\* succeeds only when told to stop.
LEMMA NextLive ==
  IngestionInv /\ [Next]_vars => LiveStopsWhenTold' /\ LiveOutlivesFaults'
<1> SUFFICES ASSUME IngestionInv, [Next]_vars, source' = "Live"
             PROVE  LiveStopsWhenTold' /\ LiveOutlivesFaults'
  BY DEF LiveStopsWhenTold, LiveOutlivesFaults
<1> DEFINE Goal == LiveStopsWhenTold' /\ LiveOutlivesFaults'
<1>a. source = "Live"
  BY DEF Next, ReplayStep, LiveStep, PipelineStep, Open, ReadLine, ReadEnd, Send,
         SendFails, LiveLoop, Connected, Retry, StreamMessage, BackoffElapsed, StopLive,
         RequestShutdown, Receive, PipelineEnds, Persist, CacheState, Detect,
         PipelinePanics, JoinRun, vars
<1> USE <1>a, IngestionAssumption
    DEF IngestionInv, TypeOK, TasksProtocol, ReceiverDropped, LiveStopsWhenTold,
        LiveOutlivesFaults
<1>1. CASE Open
  BY <1>1 DEF Open, EndSource
<1>2. CASE ReadLine \/ ReadEnd
  BY <1>2 DEF ReadLine, ReadEnd
<1>3. CASE Send
  BY <1>3 DEF Send
<1>4. CASE SendFails
  BY <1>4 DEF SendFails, EndSource
<1>5. CASE LiveLoop
  BY <1>5 DEF LiveLoop, EndSource
<1>6. CASE Connected \/ BackoffElapsed
  BY <1>6 DEF Connected, BackoffElapsed
<1>7. CASE Retry
  <2>1. backoff' \in MinBackoff .. MaxBackoff
        /\ (reconnect_attempt = 0 => backoff' = MinBackoff)
    BY <1>7, BackoffBounds DEF Retry
  <2>2. reconnect_attempt' = reconnect_attempt + 1
    BY <1>7 DEF Retry
  <2>3. reconnect_attempt' = 1 => backoff' = MinBackoff
    BY <2>1, <2>2
  <2> QED
    BY <1>7, <2>1, <2>3 DEF Retry
<1>8. CASE StreamMessage
  BY <1>8 DEF StreamMessage, TakeEvent
<1>9. CASE StopLive
  BY <1>9 DEF StopLive, EndSource
<1>10. CASE RequestShutdown
  BY <1>10 DEF RequestShutdown
<1>11. ASSUME UNCHANGED <<sourceVars, shutdown, run_result>>,
              counters'.reconnect_attempts = counters.reconnect_attempts,
              pipe_pc' = "panicked" \/ pipe_pc # "panicked"
       PROVE  Goal
  BY <1>11
<1>12. CASE Receive \/ PipelineEnds \/ PipelinePanics
  BY <1>11, <1>12 DEF Receive, PipelineEnds, PipelinePanics
<1>13. CASE Persist
  BY <1>11, <1>13, CountCounts DEF Persist
<1>14. CASE CacheState
  BY <1>11, <1>14, CountCounts DEF CacheState
<1>15. CASE Detect
  <2>1. counters'.reconnect_attempts = counters.reconnect_attempts
    BY <1>15 DEF Detect, Counters
  <2> QED
    BY <1>11, <1>15, <2>1 DEF Detect
<1>16. CASE JoinRun
  BY <1>16 DEF JoinRun
<1>17. CASE UNCHANGED vars
  BY <1>17 DEF vars
<1> QED
  BY <1>1, <1>2, <1>3, <1>4, <1>5, <1>6, <1>7, <1>8, <1>9, <1>10, <1>12, <1>13,
     <1>14, <1>15, <1>16, <1>17
  DEF Next, ReplayStep, LiveStep, PipelineStep

\* The source numbers its events and sends them one at a time.
LEMMA NextOrder == IngestionInv /\ [Next]_vars => EventsInOrder'
<1> SUFFICES ASSUME IngestionInv, [Next]_vars PROVE EventsInOrder'
  OBVIOUS
<1> USE IngestionAssumption DEF IngestionInv, TypeOK
<1>1. CASE Send /\ pending # <<>>
  <2>1. /\ pending[1].id = inputs
        /\ \A i \in DOMAIN emitted : emitted[i].id < inputs
        /\ \A i, j \in DOMAIN emitted : i < j => emitted[i].id < emitted[j].id
    BY <1>1 DEF EventsInOrder
  <2>2. Len(pending) = 1 /\ pending[1] \in Event
    <3>1. /\ Len(pending) \in Nat /\ DOMAIN pending = 1 .. Len(pending)
          /\ \A i \in DOMAIN pending : pending[i] \in Event
          /\ Len(pending) > 0
      BY <1>1, EventSeq
    <3>2. Len(pending) = 1
      BY <3>1
    <3> QED
      BY <3>1, <3>2
  <2>3. pending = <<pending[1]>>
    <3>1. <<pending[1]>> \in Seq(Event) /\ Len(<<pending[1]>>) = 1
          /\ <<pending[1]>>[1] = pending[1]
      BY <2>2
    <3>2. \A i \in 1 .. Len(pending) : pending[i] = <<pending[1]>>[i]
      BY <2>2, <3>1
    <3> QED
      BY <2>2, <3>1, <3>2, SeqEqual
  <2>4. emitted' = Append(emitted, pending[1])
    BY <1>1, <2>2, <2>3, EventSeqAppend DEF Send
  <2>5. /\ DOMAIN emitted' = DOMAIN emitted \cup {Len(emitted) + 1}
        /\ \A i \in DOMAIN emitted : emitted'[i] = emitted[i] /\ i < Len(emitted) + 1
        /\ emitted'[Len(emitted) + 1].id = inputs
    BY <2>1, <2>2, <2>4, EventSeqAppend
  <2>6. /\ \A i \in DOMAIN emitted : i \in Nat /\ emitted[i].id \in Nat
        /\ Len(emitted) \in Nat
    BY EventSeq
  <2>7. ASSUME NEW i \in DOMAIN emitted', NEW j \in DOMAIN emitted', i < j
        PROVE  emitted'[i].id < emitted'[j].id
    <3>1. i \in DOMAIN emitted
      BY <2>5, <2>6, <2>7
    <3> QED
      BY <2>1, <2>5, <2>7, <3>1
  <2>8. ASSUME NEW i \in DOMAIN emitted' PROVE emitted'[i].id <= inputs
    BY <2>1, <2>5, <2>6
  <2> QED
    BY <1>1, <2>7, <2>8 DEF EventsInOrder, Send
<1>2. CASE Send /\ pending = <<>>
  <2>1. emitted' = emitted
    BY <1>2, ConcatEmptySeq DEF Send
  <2> QED
    BY <1>2, <2>1 DEF EventsInOrder, Send
<1>3. ASSUME UNCHANGED emitted, inputs' = inputs + 1, source_pc \in {"read", "stream"},
             \/ UNCHANGED pending
             \/ \E content \in Contents : TakeEvent(content)
      PROVE  EventsInOrder'
  <2>1. pending = <<>>
    BY <1>3 DEF EventsInOrder
  <2>2. \A i \in DOMAIN emitted : emitted[i].id < inputs'
    <3>1. \A i \in DOMAIN emitted : emitted[i].id \in Nat
      BY EventSeq
    <3> QED
      BY <1>3, <3>1 DEF EventsInOrder
  <2>3. \A i \in DOMAIN emitted : emitted[i].id <= inputs'
    <3>1. \A i \in DOMAIN emitted : emitted[i].id \in Nat
      BY EventSeq
    <3> QED
      BY <1>3, <2>2, <3>1
  <2>4. pending' # <<>> => source_pc' = "send" /\ pending'[1].id = inputs'
    BY <1>3, <2>1 DEF TakeEvent
  <2> QED
    BY <1>3, <2>2, <2>3, <2>4 DEF EventsInOrder
<1>4. CASE ReadLine \/ StreamMessage
  BY <1>3, <1>4 DEF ReadLine, StreamMessage
<1>5. ASSUME UNCHANGED <<emitted, inputs>>,
             pending' = <<>> \/ UNCHANGED <<pending, source_pc>>
                \/ (UNCHANGED pending /\ source_pc # "send")
      PROVE  EventsInOrder'
  BY <1>5 DEF EventsInOrder
<1>6. CASE Open \/ ReadEnd \/ SendFails \/ LiveLoop
  BY <1>5, <1>6 DEF Open, ReadEnd, SendFails, LiveLoop
<1>7. CASE Connected \/ Retry \/ BackoffElapsed \/ StopLive \/ RequestShutdown
  BY <1>5, <1>7 DEF Connected, Retry, BackoffElapsed, StopLive, RequestShutdown
<1>8. CASE PipelineStep \/ PipelinePanics \/ JoinRun \/ UNCHANGED vars
  BY <1>5, <1>8 DEF PipelineStep, Receive, PipelineEnds, Persist, CacheState, Detect,
                    PipelinePanics, JoinRun, vars
<1> QED
  BY <1>1, <1>2, <1>4, <1>6, <1>7, <1>8 DEF Next, ReplayStep, LiveStep

\* The channel hands every event over, in order.
LEMMA NextNothingLost == IngestionInv /\ [Next]_vars => NothingLostOrReordered'
<1> SUFFICES ASSUME IngestionInv, [Next]_vars, pipe_pc' # "panicked"
             PROVE  /\ applied' \o channel' = emitted'
                    /\ run_result' # "none" => channel' = <<>> /\ pipe_pc' = "ended"
  BY DEF NothingLostOrReordered
<1> USE IngestionAssumption DEF IngestionInv, TypeOK, ReceiverDropped
<1>0. pipe_pc # "panicked"
  BY DEF Next, ReplayStep, LiveStep, PipelineStep, Open, ReadLine, ReadEnd, Send,
         SendFails, LiveLoop, Connected, Retry, StreamMessage, BackoffElapsed, StopLive,
         RequestShutdown, Receive, PipelineEnds, Persist, CacheState, Detect,
         PipelinePanics, JoinRun, vars
<1>1. /\ applied \o channel = emitted
      /\ run_result # "none" => channel = <<>> /\ pipe_pc = "ended"
  BY <1>0 DEF NothingLostOrReordered
<1>2. CASE Send
  <2>1. applied' \o channel' = emitted'
    <3>1. (applied \o channel) \o pending = applied \o (channel \o pending)
      <4> HIDE DEF IngestionInv
      <4>1. /\ applied \in Seq(Event) /\ channel \in Seq(Event)
            /\ pending \in Seq(Event)
        BY DEF IngestionInv
      <4> QED
        BY <4>1, ConcatAssociative
    <3>2. applied' = applied /\ channel' = channel \o pending /\ emitted' = emitted \o pending
      BY <1>2 DEF Send
    <3> QED
      BY <1>1, <3>1, <3>2
  <2>2. run_result' = "none"
    BY <1>2 DEF Send, TasksProtocol
  <2> QED
    BY <2>1, <2>2
<1>3. CASE Receive
  <2>1. applied' \o channel' = emitted'
    BY <1>1, <1>3, HandOver DEF Receive
  <2>2. run_result' = "none"
    BY <1>3 DEF Receive, TasksProtocol
  <2> QED
    BY <2>1, <2>2
<1>4. CASE JoinRun
  BY <1>0, <1>1, <1>4 DEF JoinRun, TasksProtocol
<1>5. CASE UNCHANGED <<applied, channel, emitted, run_result>>
           /\ (pipe_pc' = pipe_pc \/ pipe_pc # "ended")
  BY <1>1, <1>5
<1>6. CASE Open \/ ReplayStep \/ SendFails \/ LiveStep \/ StopLive \/ RequestShutdown
  BY <1>5, <1>6 DEF Open, ReplayStep, ReadLine, ReadEnd, SendFails, LiveStep, LiveLoop,
     Connected, Retry, StreamMessage, BackoffElapsed, StopLive, RequestShutdown
<1>7. CASE PipelineEnds \/ Persist \/ CacheState \/ Detect \/ UNCHANGED vars
  BY <1>5, <1>7 DEF PipelineEnds, Persist, CacheState, Detect, vars
<1>8. CASE PipelinePanics
  BY <1>8 DEF PipelinePanics
<1> QED
  BY <1>2, <1>3, <1>4, <1>6, <1>7, <1>8 DEF Next, PipelineStep

\* Every write of a state that fails is counted, and one that succeeds leaves no
\* event of its symbol behind.
LEMMA NextCacheLag == IngestionInv /\ [Next]_vars => CacheLagIsCounted'
<1> SUFFICES ASSUME IngestionInv, [Next]_vars PROVE CacheLagIsCounted'
  OBVIOUS
<1>a. /\ applied \in Seq(Event) /\ channel \in Seq(Event)
      /\ counters \in Counters /\ cached \in [Symbols -> Nat]
  BY DEF IngestionInv, TypeOK
<1>b. pipe_pc # "panicked" => Cardinality(Lagging) <= counters.cache_errors
  BY DEF IngestionInv, CacheLagIsCounted
<1>c. /\ Len(applied) \in Nat /\ DOMAIN applied = 1 .. Len(applied)
      /\ \A i \in DOMAIN applied : i \in Nat /\ applied[i].symbol \in Symbols
      /\ counters.cache_errors \in Nat
  <2>1. \A e \in Event : e.symbol \in Symbols
    BY DEF Event
  <2> QED
    BY <1>a, <2>1, EventSeq DEF Counters
<1>d. IsFiniteSet(Lagging) /\ Cardinality(Lagging) \in Nat
  <2>1. Lagging \in SUBSET (1 .. Len(applied)) /\ IsFiniteSet(1 .. Len(applied))
    BY <1>c, FS_Interval DEF Lagging
  <2> QED
    BY <2>1, FS_Subset, FS_CardinalityType
<1>e. ASSUME Lagging' \subseteq Lagging
      PROVE  Cardinality(Lagging)' \in Nat /\ Cardinality(Lagging)' <= Cardinality(Lagging)
  BY <1>d, <1>e, FS_Subset, FS_CardinalityType
<1>1. ASSUME UNCHANGED <<applied, cached>>,
             counters'.cache_errors = counters.cache_errors,
             \/ pipe_pc' = pipe_pc
             \/ pipe_pc' = "panicked"
             \/ pipe_pc = "persist" /\ pipe_pc' = "cache"
             \/ pipe_pc \in {"recv", "detect"} /\ pipe_pc' \in {"recv", "ended"}
      PROVE  CacheLagIsCounted'
  <2>1. pipe_pc' # "panicked" => Lagging' = Lagging /\ pipe_pc # "panicked"
    BY <1>1 DEF Lagging
  <2> QED
    BY <1>1, <1>b, <2>1 DEF CacheLagIsCounted
<1>2. CASE Receive
  <2>1. /\ pipe_pc = "recv" /\ pipe_pc' = "persist" /\ channel # <<>>
        /\ applied' = Append(applied, Head(channel)) /\ UNCHANGED <<cached, counters>>
    BY <1>2 DEF Receive
  <2>2. Head(channel) \in Event
    BY <1>a, <2>1, HeadTailProperties
  <2>3. /\ Len(applied') = Len(applied) + 1
        /\ DOMAIN applied' = DOMAIN applied \cup {Len(applied) + 1}
        /\ \A i \in DOMAIN applied : applied'[i] = applied[i] /\ i < Len(applied) + 1
    BY <1>a, <2>1, <2>2, EventSeqAppend
  <2>4. Lagging' = Lagging
    BY <1>c, <2>1, <2>3 DEF Lagging
  <2> QED
    BY <1>b, <2>1, <2>4 DEF CacheLagIsCounted
<1>3. CASE CacheState
  <2>0. pipe_pc = "cache" /\ pipe_pc' = "detect" /\ UNCHANGED applied
    BY <1>3 DEF CacheState
  <2>1. Len(applied) \in DOMAIN applied /\ Last(applied) = applied[Len(applied)]
    BY <1>a, <1>c, <2>0, EventSeq DEF IngestionInv, TasksProtocol, Last
  <2>2. CASE /\ cached' = [cached EXCEPT ![Last(applied).symbol] = Len(applied)]
             /\ UNCHANGED counters
    <3>1. ASSUME NEW i \in Lagging' PROVE i \in Lagging
      <4>1. i \in DOMAIN applied /\ i > cached'[applied[i].symbol]
        BY <2>0, <3>1 DEF Lagging
      <4>2. applied[i].symbol # Last(applied).symbol
        BY <1>a, <1>c, <2>2, <4>1
      <4>3. i # Len(applied) /\ i < Len(applied)
        BY <1>c, <2>1, <4>1, <4>2
      <4>4. cached'[applied[i].symbol] = cached[applied[i].symbol]
        BY <1>a, <1>c, <2>2, <4>1, <4>2
      <4> QED
        BY <4>1, <4>3, <4>4 DEF Lagging
    <3>2. Cardinality(Lagging)' <= Cardinality(Lagging) /\ Cardinality(Lagging)' \in Nat
      BY <1>e, <3>1
    <3> QED
      BY <1>b, <1>c, <1>d, <2>0, <2>2, <3>2 DEF CacheLagIsCounted
  <2>3. CASE Count("cache_errors") /\ UNCHANGED cached
    <3>1. counters'.cache_errors = counters.cache_errors + 1
      BY <1>a, <2>3, CountCounts
    <3>2. Lagging' \subseteq Lagging \cup {Len(applied)}
      BY <1>c, <2>0, <2>3 DEF Lagging
    <3>3. /\ IsFiniteSet(Lagging \cup {Len(applied)})
          /\ Cardinality(Lagging \cup {Len(applied)})
               \in {Cardinality(Lagging), Cardinality(Lagging) + 1}
      BY <1>d, FS_AddElement
    <3>4. /\ Cardinality(Lagging)' <= Cardinality(Lagging \cup {Len(applied)})
          /\ Cardinality(Lagging)' \in Nat
      BY <3>2, <3>3, FS_Subset, FS_CardinalityType
    <3>5. Cardinality(Lagging)' <= counters.cache_errors + 1
      BY <1>b, <1>c, <1>d, <2>0, <3>3, <3>4
    <3> QED
      BY <3>1, <3>5 DEF CacheLagIsCounted
  <2> QED
    BY <1>3, <2>2, <2>3 DEF CacheState
<1>4. CASE Persist
  BY <1>1, <1>4, <1>a, CountCounts DEF Persist
<1>5. CASE Detect
  <2>1. counters'.cache_errors = counters.cache_errors
    BY <1>5, <1>a DEF Detect, Counters
  <2> QED
    BY <1>1, <1>5, <2>1 DEF Detect
<1>6. CASE PipelineEnds \/ PipelinePanics \/ JoinRun \/ UNCHANGED vars
  BY <1>1, <1>6 DEF PipelineEnds, PipelinePanics, JoinRun, vars
<1>7. CASE ReadLine
  BY <1>1, <1>7, <1>a, CountCounts DEF ReadLine, TakeEvent
<1>8. CASE StreamMessage
  BY <1>1, <1>8, <1>a, CountCounts DEF StreamMessage, TakeEvent
<1>9. CASE Retry
  BY <1>1, <1>9, <1>a, CountCounts DEF Retry
<1>10. CASE Open \/ ReadEnd \/ Send \/ SendFails \/ LiveLoop \/ Connected
            \/ BackoffElapsed \/ StopLive \/ RequestShutdown
  BY <1>1, <1>10 DEF Open, ReadEnd, Send, SendFails, LiveLoop, Connected,
                     BackoffElapsed, StopLive, RequestShutdown
<1> QED
  BY <1>2, <1>3, <1>4, <1>5, <1>6, <1>7, <1>8, <1>9, <1>10
  DEF Next, ReplayStep, LiveStep, PipelineStep

\* Rows are appended in the order of the events, and an insert that fails is
\* counted.
LEMMA NextRows ==
  IngestionInv /\ [Next]_vars => RowsAreBehind' /\ RowsOrCounted'
<1> SUFFICES ASSUME IngestionInv, [Next]_vars
             PROVE  RowsAreBehind' /\ RowsOrCounted'
  OBVIOUS
<1> DEFINE Goal == RowsAreBehind' /\ RowsOrCounted'
<1>a. /\ applied \in Seq(Event) /\ channel \in Seq(Event) /\ rows \in Seq(Event)
      /\ emitted \in Seq(Event) /\ counters \in Counters
  BY DEF IngestionInv, TypeOK
<1>b. /\ \A i, j \in DOMAIN rows : i < j => rows[i].id < rows[j].id
      /\ pipe_pc # "panicked" => Cardinality(Tried) <= Len(rows) + counters.storage_errors
  BY DEF IngestionInv, RowsOrCounted
<1>c. /\ Len(rows) \in Nat /\ counters.storage_errors \in Nat
      /\ \A i \in DOMAIN rows : rows[i] \in Event /\ rows[i].id \in Nat /\ i \in Nat
      /\ Len(applied) \in Nat /\ DOMAIN applied = 1 .. Len(applied)
  BY <1>a, EventSeq DEF Counters
<1>d. IsFiniteSet(Tried) /\ Cardinality(Tried) \in Nat
  <2>1. Tried \in SUBSET (1 .. Len(applied)) /\ IsFiniteSet(1 .. Len(applied))
    BY <1>c, FS_Interval DEF Tried
  <2> QED
    BY <2>1, FS_Subset, FS_CardinalityType
<1>1. ASSUME UNCHANGED <<applied, rows>>,
             counters'.storage_errors >= counters.storage_errors,
             counters'.storage_errors \in Nat,
             \/ pipe_pc' = pipe_pc
             \/ pipe_pc # "persist" /\ pipe_pc # "panicked" /\ pipe_pc' # "persist"
             \/ pipe_pc' = "panicked"
      PROVE  Goal
  <2>1. pipe_pc' # "panicked" => Tried' = Tried /\ pipe_pc # "panicked"
    BY <1>1 DEF Tried
  <2>2. pipe_pc' # "panicked" => Cardinality(Tried)' <= Len(rows) + counters'.storage_errors
    <3>1. \A n, m, k \in Nat : n <= Len(rows) + m /\ k >= m => n <= Len(rows) + k
      BY <1>c
    <3> QED
      BY <1>1, <1>b, <1>c, <1>d, <2>1, <3>1
  <2>3. RowsAreBehind'
    BY <1>1 DEF IngestionInv, RowsAreBehind
  <2> QED
    BY <1>1, <1>b, <2>2, <2>3 DEF RowsOrCounted
<1>2. CASE Receive
  <2>1. /\ pipe_pc = "recv" /\ pipe_pc' = "persist" /\ channel # <<>>
        /\ applied' = Append(applied, Head(channel)) /\ UNCHANGED <<rows, counters>>
    BY <1>2 DEF Receive
  <2>2. Head(channel) \in Event /\ Head(channel) = channel[1] /\ Len(channel) > 0
        /\ Len(channel) \in Nat
    BY <1>a, <2>1, HeadTailProperties, EventSeq
  <2>3. /\ Len(applied') = Len(applied) + 1
        /\ DOMAIN applied' = DOMAIN applied \cup {Len(applied) + 1}
        /\ \A i \in DOMAIN applied : applied'[i] = applied[i] /\ i < Len(applied) + 1
        /\ applied'[Len(applied) + 1] = Head(channel)
        /\ applied' \in Seq(Event)
    BY <1>a, <2>1, <2>2, EventSeqAppend
  <2>4. Last(applied)' = Head(channel) /\ applied' # <<>>
    BY <1>a, <2>1, <2>2, <2>3, AppendProperties DEF Last
  <2>5. Tried' = Tried
    BY <1>c, <2>1, <2>3 DEF Tried
  <2>6. applied # <<>> => Last(applied).id < Head(channel).id
    <3> SUFFICES ASSUME applied # <<>> PROVE Last(applied).id < Head(channel).id
      OBVIOUS
    <3>1. emitted = applied \o channel
      BY <2>1 DEF IngestionInv, NothingLostOrReordered
    <3>2. Len(applied) > 0
      BY <1>a, EventSeq
    <3>3. /\ Len(emitted) = Len(applied) + Len(channel)
          /\ \A i \in 1 .. Len(applied) + Len(channel) :
               emitted[i] = IF i <= Len(applied) THEN applied[i]
                            ELSE channel[i - Len(applied)]
      BY <1>a, <3>1, ConcatProperties
    <3>4. /\ Len(applied) \in 1 .. Len(applied) + Len(channel)
          /\ Len(applied) + 1 \in 1 .. Len(applied) + Len(channel)
          /\ Len(applied) + 1 - Len(applied) = 1
          /\ Len(applied) < Len(applied) + 1
      BY <1>c, <2>2, <3>2
    <3>5. emitted[Len(applied)] = Last(applied) /\ emitted[Len(applied) + 1] = Head(channel)
      BY <1>c, <2>2, <3>3, <3>4 DEF Last
    <3>6. DOMAIN emitted = 1 .. Len(applied) + Len(channel)
      BY <1>a, <3>3, EventSeq
    <3> QED
      BY <3>4, <3>5, <3>6 DEF IngestionInv, EventsInOrder
  <2>7. \A i \in DOMAIN rows : rows[i].id < Head(channel).id
    <3>1. \A i \in DOMAIN rows : applied # <<>> /\ rows[i].id <= Last(applied).id
      BY DEF IngestionInv, RowsAreBehind
    <3>2. applied # <<>> => Last(applied) \in Event
      BY <1>a, EventSeq DEF Last
    <3>3. \A e \in Event : e.id \in Nat
      BY IngestionAssumption DEF Event
    <3> QED
      BY <1>c, <2>2, <2>6, <3>1, <3>2, <3>3
  <2>8. \A i \in DOMAIN rows : rows[i].id <= Head(channel).id
    <3>1. Head(channel).id \in Nat
      BY <2>2, IngestionAssumption DEF Event
    <3> QED
      BY <1>c, <2>7, <3>1
  <2> QED
    BY <1>b, <2>1, <2>4, <2>5, <2>7, <2>8 DEF RowsAreBehind, RowsOrCounted
<1>3. CASE Persist
  <2>0. pipe_pc = "persist" /\ pipe_pc' = "cache" /\ UNCHANGED applied
    BY <1>3 DEF Persist
  <2>1. applied # <<>> /\ Len(applied) > 0 /\ Len(applied) \in DOMAIN applied
    BY <1>a, <1>c, <2>0, EventSeq DEF IngestionInv, TasksProtocol
  <2>2. Last(applied) = applied[Len(applied)] /\ Last(applied) \in Event
        /\ Last(applied).id \in Nat
    BY <1>a, <2>1, EventSeq DEF Last
  <2>3. \A i \in DOMAIN rows : rows[i].id < Last(applied).id
    BY <2>0 DEF IngestionInv, RowsAreBehind
  <2>4. /\ Last(applied).kind \notin Persisted => Tried' = Tried
        /\ Last(applied).kind \in Persisted => Tried' = Tried \cup {Len(applied)}
    BY <1>c, <2>0, <2>1, <2>2 DEF Tried
  <2>a. ASSUME NEW S, IsFiniteSet(S), NEW x
        PROVE  Cardinality(S \cup {x}) \in {Cardinality(S), Cardinality(S) + 1}
    BY <2>a, FS_AddElement
  <2>5. /\ Last(applied).kind \notin Persisted => Cardinality(Tried)' = Cardinality(Tried)
        /\ Last(applied).kind \in Persisted =>
             Cardinality(Tried)' \in {Cardinality(Tried), Cardinality(Tried) + 1}
    BY <1>d, <2>4, <2>a
  <2>6. Cardinality(Tried)' \in Nat
    BY <1>d, <2>5
  <2>7. CASE Last(applied).kind \notin Persisted /\ UNCHANGED <<rows, counters>>
    BY <1>b, <2>0, <2>5, <2>7 DEF RowsOrCounted, IngestionInv, RowsAreBehind
  <2>8. CASE Last(applied).kind \in Persisted /\ UNCHANGED rows /\ Count("storage_errors")
    <3>1. counters'.storage_errors = counters.storage_errors + 1
      BY <1>a, <2>8, CountCounts
    <3>2. Cardinality(Tried)' <= Len(rows) + counters'.storage_errors
      BY <1>b, <1>c, <1>d, <2>0, <2>5, <2>6, <2>8, <3>1
    <3> QED
      BY <1>b, <2>0, <2>8, <3>2 DEF RowsOrCounted, IngestionInv, RowsAreBehind
  <2>9. CASE Last(applied).kind \in Persisted /\ UNCHANGED counters
             /\ rows' = Append(rows, Last(applied))
    <3>1. /\ Len(rows') = Len(rows) + 1
          /\ DOMAIN rows' = DOMAIN rows \cup {Len(rows) + 1}
          /\ \A i \in DOMAIN rows : rows'[i] = rows[i] /\ i < Len(rows) + 1
          /\ rows'[Len(rows) + 1] = Last(applied)
      BY <1>a, <2>2, <2>9, EventSeqAppend
    <3>2. Cardinality(Tried)' <= Len(rows') + counters.storage_errors
      BY <1>b, <1>c, <1>d, <2>0, <2>5, <2>6, <2>9, <3>1
    <3>3. ASSUME NEW i \in DOMAIN rows', NEW j \in DOMAIN rows', i < j
          PROVE  rows'[i].id < rows'[j].id
      <4>1. i \in DOMAIN rows
        BY <1>c, <3>1, <3>3
      <4> QED
        BY <1>b, <2>3, <3>1, <3>3, <4>1
    <3>4. ASSUME NEW i \in DOMAIN rows' PROVE rows'[i].id <= Last(applied).id
      BY <1>c, <2>2, <2>3, <3>1, <3>4
    <3> QED
      BY <2>0, <2>1, <2>9, <3>2, <3>3, <3>4 DEF RowsAreBehind, RowsOrCounted
  <2> QED
    BY <1>3, <2>7, <2>8, <2>9 DEF Persist
<1>4. CASE CacheState
  <2>1. counters'.storage_errors = counters.storage_errors
    BY <1>a, <1>4, CountCounts DEF CacheState
  <2> QED
    BY <1>1, <1>4, <1>c, <2>1 DEF CacheState
<1>5. CASE Detect
  <2>1. PICK failed \in Nat : counters' = [counters EXCEPT !.storage_errors = @ + failed]
    BY <1>5 DEF Detect
  <2>2. counters'.storage_errors = counters.storage_errors + failed
    BY <1>a, <2>1 DEF Counters
  <2>3. counters'.storage_errors >= counters.storage_errors
        /\ counters'.storage_errors \in Nat
    BY <1>c, <2>2
  <2> QED
    BY <1>1, <1>5, <2>3 DEF Detect
<1>6. CASE PipelineEnds \/ PipelinePanics \/ JoinRun \/ UNCHANGED vars
  BY <1>1, <1>6, <1>c DEF PipelineEnds, PipelinePanics, ReceiverDropped, JoinRun, vars
<1>7. ASSUME Count("parse_errors") \/ Count("reconnect_attempts") \/ UNCHANGED counters,
             UNCHANGED pipeVars
      PROVE  Goal
  <2>1. counters'.storage_errors = counters.storage_errors
    BY <1>a, <1>7, CountCounts
  <2> QED
    BY <1>1, <1>7, <1>c, <2>1
<1>8. CASE ReadLine \/ StreamMessage \/ Retry
  BY <1>7, <1>8 DEF ReadLine, StreamMessage, TakeEvent, Retry
<1>9. CASE Open \/ ReadEnd \/ Send \/ SendFails \/ LiveLoop \/ Connected
           \/ BackoffElapsed \/ StopLive \/ RequestShutdown
  BY <1>7, <1>9 DEF Open, ReadEnd, Send, SendFails, LiveLoop, Connected,
                    BackoffElapsed, StopLive, RequestShutdown
<1> QED
  BY <1>2, <1>3, <1>4, <1>5, <1>6, <1>8, <1>9
  DEF Next, ReplayStep, LiveStep, PipelineStep

-----------------------------------------------------------------------------
(* The theorems *)

\* IngestionInv is inductive.
THEOREM IngestionInvariant == Spec => []IngestionInv
<1>1. IngestionInv /\ [Next]_vars => IngestionInv'
  BY NextTypeOK, NextTasks, NextOrder, NextNothingLost, NextRows, NextCacheLag, NextLive
  DEF IngestionInv
<1> QED
  BY <1>1, InitIngestion, PTL DEF Spec

\* Every variable of a run stays in its domain, the channel within its
\* capacity and the backoff within its limits.
THEOREM RunTypeCorrect == Spec => []TypeOK
<1>1. IngestionInv => TypeOK
  BY DEF IngestionInv
<1> QED
  BY <1>1, IngestionInvariant, PTL

\* For every capacity and every input, what is applied and what is queued are
\* the events sent, in order, and a joined run has processed all of them.
THEOREM NoEventIsLost == Spec => []NothingLostOrReordered
<1>1. IngestionInv => NothingLostOrReordered
  BY DEF IngestionInv
<1> QED
  BY <1>1, IngestionInvariant, PTL

\* Rows are in the order of the events and every event without a row was
\* counted, whatever fails.
THEOREM RowsAreAccountedFor == Spec => []RowsOrCounted
<1>1. IngestionInv => RowsOrCounted
  BY DEF IngestionInv
<1> QED
  BY <1>1, IngestionInvariant, PTL

\* For any number of symbols, the events whose state is missing in Redis, with no
\* later one of their symbol there, are no more than the cache errors counted.
THEOREM CacheLagIsBounded == Spec => []CacheLagIsCounted
<1>1. IngestionInv => CacheLagIsCounted
  BY DEF IngestionInv
<1> QED
  BY <1>1, IngestionInvariant, PTL

\* A live run fails and ends only for the reasons the code gives, and its
\* waiting times are within their bounds for every number of attempts.
THEOREM LiveRunSurvives == Spec => []LiveOutlivesFaults
<1>1. IngestionInv => LiveOutlivesFaults
  BY DEF IngestionInv
<1> QED
  BY <1>1, IngestionInvariant, PTL
=============================================================================
