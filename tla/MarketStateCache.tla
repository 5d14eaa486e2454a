-------------------------- MODULE MarketStateCache --------------------------
(***************************************************************************)
(* The latest states in Redis (src/src/storage/redis.rs): one key per      *)
(* symbol and the set of registered symbols.  The pipeline writes them, a  *)
(* switch clears them, a start validates or clears them (src/src/          *)
(* startup.rs), the dashboard reads them (src/src/api/handlers.rs), and    *)
(* the process may crash and start again at any point.                     *)
(*                                                                         *)
(* A step is one Redis command.  Redis keeps its content over a crash; all *)
(* other variables belong to the process.  A value is abstracted to what   *)
(* reading it gives: a state of its symbol, one of another symbol, text    *)
(* that does not parse, or a key of another type than string.              *)
(***************************************************************************)
EXTENDS Naturals, FiniteSets

CONSTANTS
  Symbols,
  BadNames,         \* registered names that Symbol::new refuses
  Configured,       \* the symbols of the runtime snapshot
  InitialContents,  \* what Redis may hold at first
  MaxErrors         \* bound: cache errors counted by a process

Values == {"absent", "state", "foreign", "malformed", "other"}
Contents == [value : [Symbols -> Values], registered : SUBSET (Symbols \cup BadNames)]

ASSUME CacheAssumption ==
  /\ Configured \subseteq Symbols
  /\ Symbols \cap BadNames = {}
  /\ InitialContents \subseteq Contents
  /\ \A c \in InitialContents : \A s \in Symbols :
       c.value[s] # "absent" => s \in c.registered
  /\ MaxErrors \in Nat \ {0}

VARIABLES
  value, registered,  \* the content of Redis
  phase,              \* "down", "starting" or "serving"
  policy,             \* the start-up policy
  handle,             \* the RedisCache in use: "connected" or "unavailable"
  ingesting,          \* whether the supervisor has a pipeline running
  clear_pc,           \* where clear_market_state_cache stands
  unseen,             \* keys of the scan's start it has not returned yet
  batch, last_page,   \* what the last SCAN returned
  reader_pc,          \* a request for the dashboard
  listed,             \* the registered symbols it read
  steady,             \* history: the symbols with a state ever since it began
  answer,             \* history: the symbols its last answer calls observed
  cache_errors,
  orphaned            \* whether a pipeline that a disconnected switch has let go
                      \* of writes in this behaviour, also during a clear

redis == <<value, registered>>
clearVars == <<clear_pc, unseen, batch, last_page>>
readerVars == <<reader_pc, listed, answer>>
vars == <<redis, phase, policy, handle, ingesting, clearVars, readerVars,
          steady, cache_errors, orphaned>>

-----------------------------------------------------------------------------
Present == {s \in Symbols : value[s] # "absent"}
Stated == {s \in Symbols : value[s] = "state"}

\* an operation failed and is counted
CountError ==
  /\ cache_errors < MaxErrors
  /\ cache_errors' = cache_errors + 1

Init ==
  /\ \E c \in InitialContents : value = c.value /\ registered = c.registered
  /\ phase = "down"
  /\ policy = "Reset"
  /\ handle = "unavailable"
  /\ ingesting = FALSE
  /\ clear_pc = "idle" /\ unseen = {} /\ batch = {} /\ last_page = FALSE
  /\ reader_pc = "idle" /\ listed = {} /\ answer = {}
  /\ steady = {}
  /\ cache_errors = 0
  /\ orphaned \in BOOLEAN

-----------------------------------------------------------------------------
(* Starting *)

\* mutant: a value is looked for but not looked at
Valid_PresenceOnly ==
  registered \subseteq Symbols /\ \A s \in registered : value[s] # "absent"

\* validate_market_state_cache accepts: every name registered is a symbol with
\* a state of its own
Valid == registered \subseteq Symbols /\ \A s \in registered : value[s] = "state"

Serve(h) ==
  /\ phase' = "serving"
  /\ handle' = h
  /\ ingesting' = TRUE

\* initialize_redis, and the policy by the mode and the settings
Start(p) ==
  /\ phase = "down"
  /\ policy' = p
  /\ \/ phase' = "starting" /\ handle' = "connected"
        /\ UNCHANGED <<ingesting, cache_errors>>
     \/ Serve("unavailable") /\ CountError
  /\ UNCHANGED <<redis, clearVars, readerVars>>

\* PreserveAndValidate: a cache that is not valid, or cannot be read, is left
\* alone and not used
Validate ==
  /\ phase = "starting" /\ policy = "PreserveAndValidate"
  /\ \/ Valid /\ Serve("connected") /\ UNCHANGED cache_errors
     \/ Serve("unavailable") /\ CountError
  /\ UNCHANGED <<redis, policy, clearVars, readerVars>>

-----------------------------------------------------------------------------
(* clear_market_state_cache, at the start and in a switch *)

BeginClear ==
  /\ clear_pc' = "scan"
  /\ unseen' = Present
  /\ UNCHANGED <<batch, last_page>>

StartupReset ==
  /\ phase = "starting" /\ policy = "Reset" /\ clear_pc = "idle"
  /\ BeginClear
  /\ UNCHANGED <<redis, phase, policy, handle, ingesting, readerVars, cache_errors>>

\* a switch has joined the old pipeline; without a reset the new one starts, and
\* with a handle that is unavailable the clear fails at once
Switch ==
  /\ phase = "serving" /\ clear_pc = "idle"
  /\ \/ ingesting' = TRUE /\ UNCHANGED clearVars
     \/ /\ ingesting' = FALSE
        /\ IF handle = "connected" THEN BeginClear ELSE UNCHANGED clearVars
  /\ UNCHANGED <<redis, phase, policy, handle, readerVars, cache_errors>>

\* mutant: only the first page is read
ScanBatch_FirstPage ==
  /\ clear_pc = "scan"
  /\ batch' \in SUBSET Present
  /\ last_page' = TRUE
  /\ unseen' = unseen \ batch'
  /\ clear_pc' = "del"
  /\ UNCHANGED <<redis, phase, policy, handle, ingesting, readerVars, cache_errors>>

\* SCAN: some keys; over all pages every key that was there all the time
ScanBatch ==
  /\ clear_pc = "scan"
  /\ batch' \in SUBSET Present
  /\ last_page' \in BOOLEAN
  /\ last_page' => unseen \subseteq batch'
  /\ unseen' = unseen \ batch'
  /\ clear_pc' = "del"
  /\ UNCHANGED <<redis, phase, policy, handle, ingesting, readerVars, cache_errors>>

WithoutBatch == [s \in Symbols |-> IF s \in batch THEN "absent" ELSE value[s]]

DeleteBatch ==
  /\ clear_pc = "del"
  /\ value' = WithoutBatch
  /\ clear_pc' = IF last_page THEN "members" ELSE "scan"
  /\ UNCHANGED <<registered, phase, policy, handle, ingesting, unseen, batch,
                 last_page, readerVars, cache_errors>>

\* the registered symbols go last, and ingestion starts
DeleteMembers ==
  /\ clear_pc = "members"
  /\ registered' = {}
  /\ clear_pc' = "idle"
  /\ Serve(handle)
  /\ UNCHANGED <<value, policy, unseen, batch, last_page, readerVars, cache_errors>>

\* a command fails, its effect unknown, or the switch's client disconnects: a
\* start goes on without the cache, a switch without a new run
ClearFails ==
  /\ clear_pc # "idle"
  /\ clear_pc' = "idle"
  /\ \/ UNCHANGED redis
     \/ clear_pc = "del" /\ value' = WithoutBatch /\ UNCHANGED registered
     \/ clear_pc = "members" /\ registered' = {} /\ UNCHANGED value
  /\ IF phase = "starting"
     THEN Serve("unavailable") /\ CountError
     ELSE ingesting' = FALSE /\ UNCHANGED <<phase, handle, cache_errors>>
  /\ UNCHANGED <<policy, unseen, batch, last_page, readerVars>>

-----------------------------------------------------------------------------
(* The pipeline: set_market_state, one script *)

Writing == phase = "serving" /\ (ingesting \/ orphaned)

\* the script refuses a key of another type
Written(s) ==
  /\ handle = "connected"
  /\ value[s] # "other"
  /\ value' = [value EXCEPT ![s] = "state"]
  /\ registered' = registered \cup {s}

\* mutant: the state is written and the registration fails
SetMarketState_NotAtomic(s) ==
  /\ Writing
  /\ \/ Written(s) /\ UNCHANGED cache_errors
     \/ /\ handle = "connected" /\ value[s] # "other"
        /\ value' = [value EXCEPT ![s] = "state"]
        /\ UNCHANGED registered /\ CountError
  /\ UNCHANGED <<phase, policy, handle, ingesting, clearVars, readerVars>>

\* an error may come before or after the script has run
SetMarketState(s) ==
  /\ Writing
  /\ \/ Written(s) /\ UNCHANGED cache_errors
     \/ Written(s) /\ CountError
     \/ UNCHANGED redis /\ CountError
  /\ UNCHANGED <<phase, policy, handle, ingesting, clearVars, readerVars>>

-----------------------------------------------------------------------------
(* A request for the dashboard: list_symbols, then one MGET *)

\* list_symbols; an invalid name or an error ends the request
ListSymbols ==
  /\ phase = "serving" /\ reader_pc = "idle"
  /\ \/ /\ handle = "connected" /\ registered \subseteq Symbols
        /\ listed' = registered
        /\ reader_pc' = "mget"
        /\ UNCHANGED cache_errors
     \/ CountError /\ UNCHANGED <<reader_pc, listed>>
  /\ UNCHANGED <<redis, phase, policy, handle, ingesting, clearVars, answer>>

\* mutant: the symbols of earlier runs are left out
Requested_Configured == Configured

Requested == Configured \cup listed

\* get_market_states: one bad value fails the request, a key of another type
\* reads as absent
GetMarketStates ==
  /\ phase = "serving" /\ reader_pc = "mget"
  /\ \/ /\ \A s \in Requested : value[s] \notin {"foreign", "malformed"}
        /\ answer' = Requested \cap Stated
        /\ UNCHANGED cache_errors
     \/ CountError /\ answer' = {}
  /\ reader_pc' = "idle"
  /\ UNCHANGED <<redis, phase, policy, handle, ingesting, clearVars, listed>>

-----------------------------------------------------------------------------
\* the process dies; Redis keeps what it has
Crash ==
  /\ phase # "down"
  /\ phase' = "down"
  /\ handle' = "unavailable"
  /\ ingesting' = FALSE
  /\ clear_pc' = "idle"
  /\ reader_pc' = "idle"
  /\ cache_errors' = 0
  /\ UNCHANGED <<redis, policy, unseen, batch, last_page, listed, answer>>

\* follows the symbols that keep a state while a request is served
Watch == steady' = IF reader_pc = "idle" THEN Stated' ELSE steady \cap Stated'

Step ==
  \/ \E p \in {"PreserveAndValidate", "Reset"} : Start(p)
  \/ Validate
  \/ StartupReset
  \/ Switch
  \/ ScanBatch
  \/ DeleteBatch
  \/ DeleteMembers
  \/ ClearFails
  \/ \E s \in Symbols : SetMarketState(s)
  \/ ListSymbols
  \/ GetMarketStates
  \/ Crash

Next == Step /\ Watch /\ UNCHANGED orphaned

Spec == Init /\ [][Next]_vars

-----------------------------------------------------------------------------
(* What makes the cache correct *)

\* With one pipeline at a time no state is ever unlisted, whatever write,
\* clear or start was cut short: a state without its registration would be
\* served by no dashboard and checked by no start.
EveryStateIsListed == ~orphaned => Stated \subseteq registered

\* With one pipeline at a time, a clear that reports success has left nothing of
\* earlier runs.
ClearLeavesNothing ==
  [][~orphaned /\ clear_pc # "idle" /\ clear_pc' = "idle" /\ ingesting'
       /\ handle' = "connected" => Present' = {} /\ registered' = {}]_vars

\* A cache in use was checked: none of the registered symbols reads as broken,
\* also with a pipeline left over from an earlier switch.  A start that goes
\* on without it has counted an error.
TrustedOrDegraded ==
  phase = "serving" =>
    IF handle = "connected"
    THEN /\ registered \subseteq Symbols
         /\ \A s \in registered : value[s] \in {"state", "absent"}
    ELSE cache_errors > 0

\* With one pipeline at a time, a symbol that had a state all the time a request
\* took is in its answer, although the names and the states are read one after
\* the other, unless the request failed.
CatalogIsComplete ==
  [][~orphaned /\ reader_pc = "mget" /\ reader_pc' = "idle" /\ phase' = "serving"
       /\ cache_errors' = cache_errors => steady \subseteq answer']_vars
-----------------------------------------------------------------------------
(* The inductive invariant behind the safety theorems *)

ClearPcs == {"idle", "scan", "del", "members"}

\* The variables stay in their domains.
TypeOK ==
  /\ value \in [Symbols -> Values]
  /\ registered \subseteq Symbols \cup BadNames
  /\ phase \in {"down", "starting", "serving"}
  /\ policy \in {"PreserveAndValidate", "Reset"}
  /\ handle \in {"connected", "unavailable"}
  /\ ingesting \in BOOLEAN
  /\ clear_pc \in ClearPcs
  /\ unseen \subseteq Symbols /\ batch \subseteq Symbols /\ last_page \in BOOLEAN
  /\ reader_pc \in {"idle", "mget"}
  /\ listed \subseteq Symbols \cup BadNames /\ answer \subseteq Symbols
  /\ steady \subseteq Symbols
  /\ cache_errors \in Nat
  /\ orphaned \in BOOLEAN

\* No pipeline of the process writes before it serves or while it clears, and
\* only a process that is connected and means to reset clears.
ClearProtocol ==
  /\ phase # "serving" => ~ingesting
  /\ phase = "starting" => handle = "connected"
  /\ clear_pc # "idle" => /\ phase # "down" /\ handle = "connected" /\ ~ingesting
                          /\ phase = "starting" => policy = "Reset"

\* With one pipeline at a time the scan misses nothing: what is left was not
\* returned yet, or is about to be deleted.
ScanIsComplete ==
  ~orphaned =>
    /\ clear_pc = "scan" => Present \subseteq unseen
    /\ clear_pc = "del" => /\ Present \subseteq unseen \cup batch
                           /\ last_page => unseen = {}
    /\ clear_pc = "members" => Present = {}

\* With one pipeline at a time every key is registered, whatever it holds.
EveryKeyIsListed == ~orphaned => Present \subseteq registered

\* The symbols that kept a state while a request is served were on its list.
SteadyIsListed ==
  /\ steady \subseteq Stated
  /\ ~orphaned /\ reader_pc = "mget" => steady \subseteq listed

CacheInv ==
  /\ TypeOK
  /\ ClearProtocol
  /\ ScanIsComplete
  /\ EveryKeyIsListed
  /\ TrustedOrDegraded
  /\ SteadyIsListed
=============================================================================
