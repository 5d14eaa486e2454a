------------------------ MODULE MarketStateCache_proofs ------------------------
(***************************************************************************)
(* Proofs about MarketStateCache, for every set of symbols, every content  *)
(* Redis may start with (each key registered) and any number of crashes.   *)
(***************************************************************************)
EXTENDS MarketStateCache, TLAPS

USE CacheAssumption DEF redis, clearVars, readerVars, ClearPcs

\* Every content Redis may start with meets the invariant.
LEMMA InitInv == Init => CacheInv
<1> SUFFICES ASSUME Init PROVE CacheInv
  OBVIOUS
<1> USE DEF Init
<1>1. PICK c \in InitialContents : value = c.value /\ registered = c.registered
  OBVIOUS
<1>2. c \in Contents /\ \A s \in Symbols : c.value[s] # "absent" => s \in c.registered
  OBVIOUS
<1>3. /\ value \in [Symbols -> Values]
      /\ registered \subseteq Symbols \cup BadNames
  BY <1>1, <1>2 DEF Contents
<1>4. TypeOK
  BY <1>3 DEF TypeOK
<1>5. EveryKeyIsListed
  BY <1>1, <1>2 DEF EveryKeyIsListed, Present
<1> QED
  BY <1>4, <1>5
  DEF CacheInv, ClearProtocol, ScanIsComplete, TrustedOrDegraded, SteadyIsListed, Stated

\* No step takes a variable out of its domain.
LEMMA NextTypeOK == TypeOK /\ [Next]_vars => TypeOK'
<1> SUFFICES ASSUME TypeOK, [Next]_vars PROVE TypeOK'
  OBVIOUS
<1> USE DEF TypeOK, Present, Stated, Serve
<1>0. CountError => cache_errors' \in Nat
  BY DEF CountError
<1>1. CASE Next
  <2> USE <1>1 DEF Next, Watch
  <2>0. steady' \subseteq Symbols /\ orphaned' \in BOOLEAN
    OBVIOUS
  <2>1. ASSUME NEW p \in {"PreserveAndValidate", "Reset"}, Start(p) PROVE TypeOK'
    BY <1>0, <2>0, <2>1 DEF Start
  <2>2. CASE Validate
    BY <1>0, <2>0, <2>2 DEF Validate
  <2>3. CASE StartupReset \/ Switch
    BY <2>0, <2>3 DEF StartupReset, Switch, BeginClear
  <2>4. CASE ScanBatch
    BY <2>0, <2>4 DEF ScanBatch
  <2>5. CASE DeleteBatch
    BY <2>0, <2>5 DEF DeleteBatch, WithoutBatch, Values
  <2>6. CASE DeleteMembers
    BY <2>0, <2>6 DEF DeleteMembers
  <2>7. CASE ClearFails
    <3>1. value' \in [Symbols -> Values] /\ registered' \subseteq Symbols \cup BadNames
      BY <2>7 DEF ClearFails, WithoutBatch, Values
    <3> QED
      BY <1>0, <2>0, <2>7, <3>1 DEF ClearFails
  <2>8. ASSUME NEW s \in Symbols, SetMarketState(s) PROVE TypeOK'
    BY <1>0, <2>0, <2>8 DEF SetMarketState, Written, Values
  <2>9. CASE ListSymbols
    BY <1>0, <2>0, <2>9 DEF ListSymbols
  <2>10. CASE GetMarketStates
    BY <1>0, <2>0, <2>10 DEF GetMarketStates
  <2>11. CASE Crash
    BY <2>0, <2>11 DEF Crash
  <2> QED
    BY <2>1, <2>2, <2>3, <2>4, <2>5, <2>6, <2>7, <2>8, <2>9, <2>10, <2>11 DEF Step
<1>2. CASE UNCHANGED vars
  BY <1>2 DEF vars
<1> QED
  BY <1>1, <1>2

-----------------------------------------------------------------------------
(* Clearing and writing *)

\* A process clears only while none of its pipelines writes.
LEMMA NextClearProtocol == CacheInv /\ [Next]_vars => ClearProtocol'
<1> SUFFICES ASSUME CacheInv, [Next]_vars PROVE ClearProtocol'
  OBVIOUS
<1> USE DEF CacheInv, TypeOK, ClearProtocol, Serve
<1>1. CASE Next
  <2>1. ASSUME NEW p \in {"PreserveAndValidate", "Reset"}, Start(p)
        PROVE  ClearProtocol'
    BY <2>1 DEF Start
  <2>2. CASE Validate
    BY <2>2 DEF Validate
  <2>3. CASE StartupReset
    BY <2>3 DEF StartupReset, BeginClear
  <2>4. CASE Switch
    BY <2>4 DEF Switch, BeginClear
  <2>5. CASE ScanBatch \/ DeleteBatch
    BY <2>5 DEF ScanBatch, DeleteBatch
  <2>6. CASE DeleteMembers
    BY <2>6 DEF DeleteMembers
  <2>7. CASE ClearFails
    BY <2>7 DEF ClearFails
  <2>8. ASSUME NEW s \in Symbols, SetMarketState(s) PROVE ClearProtocol'
    BY <2>8 DEF SetMarketState
  <2>9. CASE ListSymbols \/ GetMarketStates
    BY <2>9 DEF ListSymbols, GetMarketStates
  <2>10. CASE Crash
    BY <2>10 DEF Crash
  <2> QED
    BY <1>1, <2>1, <2>2, <2>3, <2>4, <2>5, <2>6, <2>7, <2>8, <2>9, <2>10
    DEF Next, Step
<1>2. CASE UNCHANGED vars
  BY <1>2 DEF vars
<1> QED
  BY <1>1, <1>2

\* The keys that a clear has yet to delete are known to it, and every key is
\* registered, as long as there is one pipeline at a time.
LEMMA NextScanAndList ==
  CacheInv /\ [Next]_vars => ScanIsComplete' /\ EveryKeyIsListed'
<1> SUFFICES ASSUME CacheInv, [Next]_vars
             PROVE  ScanIsComplete' /\ EveryKeyIsListed'
  OBVIOUS
<1> DEFINE Goal == ScanIsComplete' /\ EveryKeyIsListed'
<1> USE DEF CacheInv, TypeOK, ScanIsComplete, EveryKeyIsListed, Present, Serve
<1>1. CASE Next
  <2>0. UNCHANGED orphaned
    BY <1>1 DEF Next
  <2>1. ASSUME NEW p \in {"PreserveAndValidate", "Reset"}, Start(p) PROVE Goal
    BY <2>0, <2>1 DEF Start
  <2>2. CASE Validate
    BY <2>0, <2>2 DEF Validate
  <2>3. CASE StartupReset \/ Switch
    BY <2>0, <2>3 DEF StartupReset, Switch, BeginClear
  <2>4. CASE ScanBatch
    BY <2>0, <2>4 DEF ScanBatch
  <2>5. CASE DeleteBatch
    BY <2>0, <2>5 DEF DeleteBatch, WithoutBatch
  <2>6. CASE DeleteMembers
    BY <2>0, <2>6 DEF DeleteMembers
  <2>7. CASE ClearFails
    BY <2>0, <2>7 DEF ClearFails, WithoutBatch
  <2>8. ASSUME NEW s \in Symbols, SetMarketState(s) PROVE Goal
    <3>1. ~orphaned => clear_pc = "idle"
      BY <2>8 DEF SetMarketState, Writing, ClearProtocol
    <3> QED
      BY <2>0, <2>8, <3>1 DEF SetMarketState, Written
  <2>9. CASE ListSymbols \/ GetMarketStates
    BY <2>0, <2>9 DEF ListSymbols, GetMarketStates
  <2>10. CASE Crash
    BY <2>0, <2>10 DEF Crash
  <2> QED
    BY <1>1, <2>1, <2>2, <2>3, <2>4, <2>5, <2>6, <2>7, <2>8, <2>9, <2>10
    DEF Next, Step
<1>2. CASE UNCHANGED vars
  BY <1>2 DEF vars
<1> QED
  BY <1>1, <1>2

\* What a process that serves relies on stays checked, also with a pipeline
\* left over from an earlier switch: it writes states only.
LEMMA NextTrusted == CacheInv /\ [Next]_vars => TrustedOrDegraded'
<1> SUFFICES ASSUME CacheInv, [Next]_vars PROVE TrustedOrDegraded'
  OBVIOUS
<1> USE DEF CacheInv, TypeOK, TrustedOrDegraded, Serve
<1>0. CountError => cache_errors' > 0 /\ cache_errors' \in Nat
  BY DEF CountError
<1>1. CASE Next
  <2>1. ASSUME NEW p \in {"PreserveAndValidate", "Reset"}, Start(p)
        PROVE  TrustedOrDegraded'
    BY <1>0, <2>1 DEF Start
  <2>2. CASE Validate
    BY <1>0, <2>2 DEF Validate, Valid
  <2>3. CASE StartupReset \/ Switch
    BY <2>3 DEF StartupReset, Switch
  <2>4. CASE ScanBatch
    BY <2>4 DEF ScanBatch
  <2>5. CASE DeleteBatch
    BY <2>5 DEF DeleteBatch, WithoutBatch
  <2>6. CASE DeleteMembers
    BY <2>6 DEF DeleteMembers, ClearProtocol
  <2>7. CASE ClearFails
    <3>1. CASE phase = "starting"
      BY <1>0, <2>7, <3>1 DEF ClearFails
    <3>2. CASE phase # "starting"
      BY <2>7, <3>2 DEF ClearFails, WithoutBatch, ClearProtocol
    <3> QED
      BY <3>1, <3>2
  <2>8. ASSUME NEW s \in Symbols, SetMarketState(s) PROVE TrustedOrDegraded'
    BY <1>0, <2>8 DEF SetMarketState, Written
  <2>9. CASE ListSymbols \/ GetMarketStates
    BY <1>0, <2>9 DEF ListSymbols, GetMarketStates
  <2>10. CASE Crash
    BY <2>10 DEF Crash
  <2> QED
    BY <1>1, <2>1, <2>2, <2>3, <2>4, <2>5, <2>6, <2>7, <2>8, <2>9, <2>10
    DEF Next, Step
<1>2. CASE UNCHANGED vars
  BY <1>2 DEF vars
<1> QED
  BY <1>1, <1>2

\* What Watch follows has a state, and was on the list of the request.
LEMMA NextSteady == CacheInv /\ [Next]_vars => SteadyIsListed'
<1> SUFFICES ASSUME CacheInv, [Next]_vars PROVE SteadyIsListed'
  OBVIOUS
<1> USE DEF CacheInv, SteadyIsListed
<1>1. CASE Next
  <2>1. steady' \subseteq Stated' /\ (reader_pc = "mget" => steady' \subseteq steady)
    BY <1>1 DEF Next, Watch
  <2>2. UNCHANGED orphaned
    BY <1>1 DEF Next
  <2>3. CASE ListSymbols
    <3>1. Stated' = Stated
      BY <2>3 DEF ListSymbols, Stated
    <3>2. ~orphaned => Stated \subseteq registered
      BY DEF EveryKeyIsListed, Present, Stated
    <3>3. reader_pc' = "mget" => listed' = registered
      BY <2>3 DEF ListSymbols
    <3> QED
      BY <2>1, <2>2, <3>1, <3>2, <3>3
  <2>4. CASE ~ListSymbols
    <3>1. reader_pc' = "mget" => reader_pc = "mget" /\ listed' = listed
      BY <1>1, <2>4
      DEF Next, Step, Start, Validate, StartupReset, Switch, ScanBatch, DeleteBatch,
          DeleteMembers, ClearFails, SetMarketState, GetMarketStates, Crash
    <3> QED
      BY <2>1, <2>2, <3>1
  <2> QED
    BY <2>3, <2>4
<1>2. CASE UNCHANGED vars
  BY <1>2 DEF vars, Stated
<1> QED
  BY <1>1, <1>2

-----------------------------------------------------------------------------
(* The theorems *)

\* CacheInv is inductive.
THEOREM CacheInvariant == Spec => []CacheInv
<1>1. CacheInv /\ [Next]_vars => CacheInv'
  <2>1. CacheInv => TypeOK
    BY DEF CacheInv
  <2> QED
    BY <2>1, NextTypeOK, NextClearProtocol, NextScanAndList, NextTrusted, NextSteady
    DEF CacheInv
<1> QED
  BY InitInv, <1>1, PTL DEF Spec

\* With one pipeline at a time no state in Redis is ever unlisted, whichever
\* command of a write, a clear or a start was the last before a crash or an error.
THEOREM StatesAreListed == Spec => []EveryStateIsListed
<1>1. CacheInv => EveryStateIsListed
  BY DEF CacheInv, EveryKeyIsListed, EveryStateIsListed, Present, Stated
<1> QED
  BY <1>1, CacheInvariant, PTL

\* A process serves from a cache that was checked or cleared, or has counted
\* that it does without, also beside a pipeline left over from an earlier switch.
THEOREM CacheIsTrusted == Spec => []TrustedOrDegraded
<1>1. CacheInv => TrustedOrDegraded
  BY DEF CacheInv
<1> QED
  BY <1>1, CacheInvariant, PTL

\* With one pipeline at a time, clear_market_state_cache returns Ok only when
\* neither a key nor a registered symbol is left, however SCAN pages the keys.
THEOREM ClearIsComplete == Spec => ClearLeavesNothing
<1> DEFINE Cleared ==
      ~orphaned /\ clear_pc # "idle" /\ clear_pc' = "idle" /\ ingesting'
        /\ handle' = "connected" => Present' = {} /\ registered' = {}
<1>1. ASSUME CacheInv, [Next]_vars, ~orphaned, clear_pc # "idle", clear_pc' = "idle",
             ingesting', handle' = "connected"
      PROVE  Present' = {} /\ registered' = {}
  <2> USE DEF CacheInv
  <2>1. DeleteMembers
    BY <1>1
    DEF Next, Step, vars, ClearProtocol, Start, Validate, StartupReset, Switch,
        BeginClear, ScanBatch, DeleteBatch, ClearFails, SetMarketState, ListSymbols,
        GetMarketStates, Crash, Serve
  <2> QED
    BY <1>1, <2>1 DEF DeleteMembers, ScanIsComplete, Present
<1>2. CacheInv /\ [Next]_vars => [Cleared]_vars
  BY <1>1
<1> QED
  BY <1>2, CacheInvariant, PTL DEF Spec, ClearLeavesNothing

\* With one pipeline at a time, the dashboard's two reads miss no symbol that
\* had a state from the first to the second.
THEOREM CatalogComplete == Spec => CatalogIsComplete
<1> DEFINE Complete ==
      ~orphaned /\ reader_pc = "mget" /\ reader_pc' = "idle" /\ phase' = "serving"
        /\ cache_errors' = cache_errors => steady \subseteq answer'
<1>1. ASSUME CacheInv, [Next]_vars, ~orphaned, reader_pc = "mget", reader_pc' = "idle",
             phase' = "serving", cache_errors' = cache_errors
      PROVE  steady \subseteq answer'
  <2>1. ~CountError
    BY <1>1 DEF CountError, CacheInv, TypeOK
  <2>2. GetMarketStates
    BY <1>1
    DEF Next, Step, vars, Start, Validate, StartupReset, Switch, ScanBatch,
        DeleteBatch, DeleteMembers, ClearFails, SetMarketState, ListSymbols, Crash
  <2> QED
    BY <1>1, <2>1, <2>2 DEF GetMarketStates, Requested, CacheInv, SteadyIsListed
<1>2. CacheInv /\ [Next]_vars => [Complete]_vars
  BY <1>1
<1> QED
  BY <1>2, CacheInvariant, PTL DEF Spec, CatalogIsComplete
=============================================================================
