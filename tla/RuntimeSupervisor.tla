-------------------------- MODULE RuntimeSupervisor --------------------------
(***************************************************************************)
(* The ingestion supervisor (src/src/runtime_supervisor.rs) with the       *)
(* program around it: main, which starts the first ingestion run, serves   *)
(* HTTP and stops the active run at the end, and the HTTP clients that ask *)
(* for a runtime mode switch.                                              *)
(*                                                                         *)
(* Processes.  Every client runs switch_mode to its end unless it          *)
(* disconnects; the server then drops the handler's future at the await    *)
(* where it stands.  Every ingestion run is a task of its own.  A step is  *)
(* what a process does between two points where another process can        *)
(* observe or change what it uses: the awaits, the atomics, and the lock   *)
(* of the runtime snapshot.                                                *)
(*                                                                         *)
(* update_runtime_if_current reads current_run_id first and takes the      *)
(* snapshot's lock afterwards.  The two are separate steps here: the step  *)
(* that makes the check moves its process to a pc at which the update is   *)
(* pending (UpdatePcs for clients and main, "update" for a task), and a    *)
(* later step applies it.                                                  *)
(*                                                                         *)
(* The lock of active_task is never held across an await and the processes *)
(* that take it exclude each other, so it is not a variable.               *)
(***************************************************************************)
EXTENDS Naturals

CONSTANTS
  Clients,             \* HTTP clients that may POST /runtime/mode
  Disconnecting,       \* the clients that may drop the connection while served
  Main,                \* the process running main
  NoClient,            \* nobody holds switch_guard
  Commands,            \* the request bodies the clients may send
  Symbols,             \* the symbols Symbol::new accepts
  StartSymbols,        \* IngestionSettings.symbols
  MaxRuns              \* bound: run ids handed out, the initial one included

Modes == {"Replay", "Live"}
OptBool == {"none", "true", "false"}
RawModes == {"replay", "live", "other"}

ASSUME ConstantsAssumption ==
  /\ Disconnecting \subseteq Clients
  /\ Main \notin Clients
  /\ NoClient \notin Clients
  /\ MaxRuns \in Nat \ {0}
  /\ StartSymbols \subseteq Symbols
  /\ StartSymbols # {}
  \* symbols is the set of lists a command may carry: {} when the field is
  \* absent, {l} when it holds the list l (a list may hold invalid names)
  /\ \A cmd \in Commands :
        /\ cmd.mode \in RawModes
        /\ cmd.reset_state \in OptBool
        /\ cmd.reset_storage \in OptBool

VARIABLES
  pc,              \* where each client and main stand
  next_run_id, current_run_id,
  snapshot,        \* the shared RuntimeModeSnapshot
  active_task,     \* run id of the task in the slot, NoRun when None
  switch_guard,    \* the client holding the guard, or NoClient
  request,         \* per client: the resolved request it executes
  run_id,          \* per client: the run id its switch obtained
  taken,           \* per process: the task it took out of the slot and joins
  response,        \* per client: its last answer
  task_pc,         \* per run: where its task stands
  task_request,    \* per run: the mode and symbols it was spawned with
  outcome,         \* per run: how the task ended
  shutdown,        \* the runs whose shutdown channel holds true
  detached,        \* the runs whose JoinHandle was dropped unjoined
  history,         \* the runs with rows in PostgreSQL
  cache            \* the runs with states in Redis

runVars == <<next_run_id, current_run_id, switch_guard, request, run_id, response>>
slotVars == <<active_task, taken, shutdown, detached>>
taskVars == <<task_pc, task_request, outcome>>
storeVars == <<history, cache>>
vars == <<pc, next_run_id, current_run_id, snapshot, active_task, switch_guard,
          request, run_id, taken, response, task_pc, task_request, outcome,
          shutdown, detached, history, cache>>

-----------------------------------------------------------------------------
Procs == Clients \cup {Main}
RunIds == 1 .. MaxRuns
NoRun == 0

Statuses == {"Running", "Switching", "Failed", "Stopped", "Completed"}

\* last_switched_at and last_error keep whether they are set, not their text
RuntimeModeSnapshot ==
  [mode : Modes, status : Statuses, symbols : SUBSET Symbols,
   switching_supported : BOOLEAN, source : {"Config", "Runtime"},
   last_switched_at : BOOLEAN, last_error : BOOLEAN]

ResolvedSwitchRequest ==
  [mode : Modes, symbols : SUBSET Symbols,
   reset_state : BOOLEAN, reset_storage : BOOLEAN]

\* the pcs of a client; "take" and "join" are shared with main
SwitchPcs == {"mark", "take", "join", "clear", "truncate", "start",
              "mark_started", "spawn", "finish", "mark_switched", "respond",
              "mark_failed", "error"}
ClientPcs == {"idle"} \cup SwitchPcs
MainPcs == {"new", "serving", "draining", "take", "join", "mark_stopped",
            "mark_failed", "exited"}

\* the pcs of a task: "update" has passed the run-id check of its last update
TaskPcs == {"unborn", "reset", "run", "update", "done"}
Outcomes == {"none", "ok", "err", "panic"}
Responses == {"none", "Ok", "Forbidden", "Validation", "Conflict", "Execution",
              "gone"}

Running(r) == task_pc[r] \in {"reset", "run", "update"}
RunningTasks == {r \in RunIds : Running(r)}

-----------------------------------------------------------------------------
(* The request and the updates of the snapshot *)

ResolvedMode(cmd) == IF cmd.mode = "replay" THEN "Replay" ELSE "Live"

\* the list a command's symbols resolve to, the configured one when absent
ResolvedSymbols(cmd) ==
  IF cmd.symbols = {} THEN StartSymbols ELSE UNION cmd.symbols

\* mutant: the symbols are not validated
ValidCommand_AnySymbols(cmd) == cmd.mode \in {"replay", "live"}

\* what resolve_switch_request accepts
ValidCommand(cmd) ==
  /\ cmd.mode \in {"replay", "live"}
  /\ ResolvedSymbols(cmd) \subseteq Symbols
  /\ ResolvedSymbols(cmd) # {}

ResolveSwitchRequest(cmd) ==
  [mode |-> ResolvedMode(cmd), symbols |-> ResolvedSymbols(cmd),
   reset_state |-> cmd.reset_state = "true",
   reset_storage |-> cmd.reset_storage = "true"]

\* the request the settings of start_initial stand for
InitialRequest(mode) ==
  [mode |-> mode, symbols |-> StartSymbols,
   reset_state |-> FALSE, reset_storage |-> FALSE]

FromStartupConfig(mode, supported) ==
  [mode |-> mode, status |-> "Running", symbols |-> StartSymbols,
   switching_supported |-> supported, source |-> "Config",
   last_switched_at |-> FALSE, last_error |-> FALSE]

MarkSwitching(s, req) ==
  [s EXCEPT !.mode = req.mode, !.status = "Switching", !.symbols = req.symbols,
            !.source = "Runtime", !.last_error = FALSE]

MarkStarted(s) == [s EXCEPT !.status = "Running", !.last_error = FALSE]
MarkFailed(s) == [s EXCEPT !.status = "Failed", !.last_error = TRUE]
MarkCompleted(s) == [s EXCEPT !.status = "Completed", !.last_error = FALSE]
MarkStopped(s) == [s EXCEPT !.status = "Stopped", !.last_error = FALSE]

\* mutant: the last update of a switch sets the status as well
MarkSwitched_SetsRunning(s, req) ==
  [s EXCEPT !.mode = req.mode, !.symbols = req.symbols, !.status = "Running",
            !.source = "Runtime", !.last_switched_at = TRUE, !.last_error = FALSE]

MarkSwitched(s, req) ==
  [s EXCEPT !.mode = req.mode, !.symbols = req.symbols, !.source = "Runtime",
            !.last_switched_at = TRUE, !.last_error = FALSE]

\* update_runtime_if_current, first half: the pc reached by the process that
\* updates on behalf of run r; the update is pending only if r is current
IfCurrent(r, pending, skipped) ==
  IF current_run_id = r THEN pending ELSE skipped

Goto(p, to) == pc' = [pc EXCEPT ![p] = to]

-----------------------------------------------------------------------------
Init ==
  /\ pc = [p \in Procs |-> IF p = Main THEN "new" ELSE "idle"]
  /\ next_run_id = 1
  /\ current_run_id = 0
  /\ \E mode \in Modes, supported \in BOOLEAN :
        snapshot = FromStartupConfig(mode, supported)
  /\ active_task = NoRun
  /\ switch_guard = NoClient
  /\ request = [c \in Clients |-> InitialRequest("Replay")]
  /\ run_id = [c \in Clients |-> NoRun]
  /\ taken = [p \in Procs |-> NoRun]
  /\ response = [c \in Clients |-> "none"]
  /\ task_pc = [r \in RunIds |-> "unborn"]
  /\ task_request = [r \in RunIds |-> InitialRequest("Replay")]
  /\ outcome = [r \in RunIds |-> "none"]
  /\ shutdown = {}
  /\ detached = {}
  /\ history = {}
  /\ cache = {}

\* spawn_replay_task / spawn_live_task: a replay task that resets the storage
\* first does so before it ingests
SpawnTask(r, req, resetFirst) ==
  /\ task_pc' = [task_pc EXCEPT ![r] =
                   IF req.mode = "Replay" /\ resetFirst THEN "reset" ELSE "run"]
  /\ task_request' = [task_request EXCEPT ![r] = req]
  /\ active_task' = r
  /\ UNCHANGED outcome

-----------------------------------------------------------------------------
(* main *)

\* start_initial: nobody else runs yet, so its update needs no separate step;
\* the replay task resets the storage if replay_reset_storage is configured
StartInitial ==
  /\ pc[Main] = "new"
  /\ next_run_id' = next_run_id + 1
  /\ current_run_id' = next_run_id
  /\ snapshot' = MarkStarted(snapshot)
  /\ \E replay_reset_storage \in BOOLEAN :
        SpawnTask(next_run_id, InitialRequest(snapshot.mode), replay_reset_storage)
  /\ Goto(Main, "serving")
  /\ UNCHANGED <<switch_guard, request, run_id, response, taken, shutdown,
                 detached, storeVars>>

\* the shutdown signal: no request is accepted any more
ShutdownSignal ==
  /\ pc[Main] = "serving"
  /\ Goto(Main, "draining")
  /\ UNCHANGED <<snapshot, runVars, slotVars, taskVars, storeVars>>

\* axum::serve returns once the requests in flight are answered
ServerDrained ==
  /\ pc[Main] = "draining"
  /\ \A c \in Clients : pc[c] = "idle"
  /\ Goto(Main, "take")
  /\ UNCHANGED <<snapshot, runVars, slotVars, taskVars, storeVars>>

-----------------------------------------------------------------------------
(* shutdown_active_ingestion_with_status, run by a switch and by main *)

\* mutant: a replay, which cannot be cancelled, is not waited for
TakeActive_ReplayNotJoined(p) ==
  LET live == active_task # NoRun /\ task_request[active_task].mode = "Live"
  IN  /\ pc[p] = "take"
      /\ taken' = [taken EXCEPT ![p] = IF live THEN active_task ELSE NoRun]
      /\ active_task' = NoRun
      /\ shutdown' = IF live THEN shutdown \cup {active_task} ELSE shutdown
      /\ Goto(p, IF live THEN "join" ELSE IF p = Main THEN "exited" ELSE "clear")
      /\ UNCHANGED <<snapshot, runVars, detached, taskVars, storeVars>>

\* mutant: nothing is sent on the shutdown channel
TakeActive_NoSignal(p) ==
  /\ pc[p] = "take"
  /\ taken' = [taken EXCEPT ![p] = active_task]
  /\ active_task' = NoRun
  /\ Goto(p, IF active_task # NoRun THEN "join"
             ELSE IF p = Main THEN "exited" ELSE "clear")
  /\ UNCHANGED <<snapshot, runVars, shutdown, detached, taskVars, storeVars>>

\* take() the task out of the slot and tell a live one to stop
TakeActive(p) ==
  /\ pc[p] = "take"
  /\ taken' = [taken EXCEPT ![p] = active_task]
  /\ active_task' = NoRun
  /\ shutdown' = IF active_task # NoRun /\ task_request[active_task].mode = "Live"
                 THEN shutdown \cup {active_task} ELSE shutdown
  /\ Goto(p, IF active_task # NoRun THEN "join"
             ELSE IF p = Main THEN "exited" ELSE "clear")
  /\ UNCHANGED <<snapshot, runVars, detached, taskVars, storeVars>>

\* mutant: the result is awaited, not the task with its last update
JoinOk_BeforeUpdate(c) ==
  /\ pc[c] = "join"
  /\ outcome[taken[c]] = "ok"
  /\ taken' = [taken EXCEPT ![c] = NoRun]
  /\ Goto(c, "clear")
  /\ UNCHANGED <<snapshot, runVars, active_task, shutdown, detached,
                 taskVars, storeVars>>

\* a switch has joined a task that ended well
JoinOk(c) ==
  /\ pc[c] = "join"
  /\ task_pc[taken[c]] = "done"
  /\ outcome[taken[c]] = "ok"
  /\ taken' = [taken EXCEPT ![c] = NoRun]
  /\ Goto(c, "clear")
  /\ UNCHANGED <<snapshot, runVars, active_task, shutdown, detached,
                 taskVars, storeVars>>

\* a switch has joined a task that failed: mark_runtime_failed for the old run
\* and then, the error being passed on, for the switch's own
JoinErr(c) ==
  /\ pc[c] = "join"
  /\ task_pc[taken[c]] = "done"
  /\ outcome[taken[c]] \in {"err", "panic"}
  /\ taken' = [taken EXCEPT ![c] = NoRun]
  /\ Goto(c, IF current_run_id \in {taken[c], run_id[c]}
             THEN "mark_failed" ELSE "error")
  /\ UNCHANGED <<snapshot, runVars, active_task, shutdown, detached,
                 taskVars, storeVars>>

\* mutant: a run that failed is shown as stopped
MainJoined_AlwaysStopped ==
  /\ pc[Main] = "join"
  /\ task_pc[taken[Main]] = "done"
  /\ taken' = [taken EXCEPT ![Main] = NoRun]
  /\ Goto(Main, IfCurrent(taken[Main], "mark_stopped", "exited"))
  /\ UNCHANGED <<snapshot, runVars, active_task, shutdown, detached,
                 taskVars, storeVars>>

\* main has joined the task: Stopped for a live one, Failed for a failed one
MainJoined ==
  /\ pc[Main] = "join"
  /\ task_pc[taken[Main]] = "done"
  /\ taken' = [taken EXCEPT ![Main] = NoRun]
  /\ Goto(Main,
          IF outcome[taken[Main]] # "ok"
          THEN IfCurrent(taken[Main], "mark_failed", "exited")
          ELSE IF task_request[taken[Main]].mode = "Live"
          THEN IfCurrent(taken[Main], "mark_stopped", "exited")
          ELSE "exited")
  /\ UNCHANGED <<snapshot, runVars, active_task, shutdown, detached,
                 taskVars, storeVars>>

\* main applies its pending update and returns
MainUpdate ==
  /\ pc[Main] \in {"mark_stopped", "mark_failed"}
  /\ snapshot' = IF pc[Main] = "mark_stopped" THEN MarkStopped(snapshot)
                                              ELSE MarkFailed(snapshot)
  /\ Goto(Main, "exited")
  /\ UNCHANGED <<runVars, slotVars, taskVars, storeVars>>

-----------------------------------------------------------------------------
(* switch_runtime_mode and switch_mode *)

Serving(c) == pc[Main] = "serving" /\ pc[c] = "idle"

Answer(c, code) == response' = [response EXCEPT ![c] = code]

\* the requests answered without any effect
Refuse(c, cmd) ==
  /\ Serving(c)
  /\ \/ ~snapshot.switching_supported /\ Answer(c, "Forbidden")
     \/ /\ snapshot.switching_supported /\ ~ValidCommand(cmd)
        /\ Answer(c, "Validation")
     \/ /\ snapshot.switching_supported /\ ValidCommand(cmd)
        /\ switch_guard # NoClient
        /\ Answer(c, "Conflict")
  /\ UNCHANGED <<pc, snapshot, next_run_id, current_run_id, switch_guard,
                 request, run_id, slotVars, taskVars, storeVars>>

\* what SwitchBegin does once its checks have passed
BeginSwitch(c, cmd) ==
  /\ next_run_id <= MaxRuns
  /\ switch_guard' = c
  /\ request' = [request EXCEPT ![c] = ResolveSwitchRequest(cmd)]
  /\ run_id' = [run_id EXCEPT ![c] = next_run_id]
  /\ current_run_id' = next_run_id
  /\ next_run_id' = next_run_id + 1
  /\ Answer(c, "none")
  /\ Goto(c, "mark")
  /\ UNCHANGED <<snapshot, slotVars, taskVars, storeVars>>

\* mutant: switch_guard is not tried
SwitchBegin_NoGuard(c, cmd) ==
  /\ Serving(c)
  /\ snapshot.switching_supported
  /\ ValidCommand(cmd)
  /\ BeginSwitch(c, cmd)

\* the guard is taken and the new run id becomes the current one
SwitchBegin(c, cmd) ==
  /\ Serving(c)
  /\ snapshot.switching_supported
  /\ ValidCommand(cmd)
  /\ switch_guard = NoClient
  /\ BeginSwitch(c, cmd)

SwitchMark(c) ==
  /\ pc[c] = "mark"
  /\ snapshot' = MarkSwitching(snapshot, request[c])
  /\ Goto(c, "take")
  /\ UNCHANGED <<runVars, slotVars, taskVars, storeVars>>

\* clear_market_state_cache; one that fails has deleted any part of the states.
\* A failed reset marks the run that was current when the reset began, and it
\* still is: only the holder of the guard changes current_run_id.
ResetState(c) ==
  /\ pc[c] = "clear"
  /\ \/ ~request[c].reset_state /\ UNCHANGED cache /\ Goto(c, "truncate")
     \/ request[c].reset_state /\ cache' = {} /\ Goto(c, "truncate")
     \/ /\ request[c].reset_state
        /\ cache' \in SUBSET cache
        /\ Goto(c, "mark_failed")
  /\ UNCHANGED <<snapshot, runVars, slotVars, taskVars, history>>

\* mutant: a reset that fails is passed over
ResetStorage_PassedOver(c) ==
  /\ pc[c] = "truncate"
  /\ \/ UNCHANGED history
     \/ request[c].reset_storage /\ history' = {}
  /\ Goto(c, "start")
  /\ UNCHANGED <<snapshot, runVars, slotVars, taskVars, cache>>

\* one TRUNCATE statement: all or nothing
ResetStorage(c) ==
  /\ pc[c] = "truncate"
  /\ \/ ~request[c].reset_storage /\ UNCHANGED history /\ Goto(c, "start")
     \/ request[c].reset_storage /\ history' = {} /\ Goto(c, "start")
     \/ /\ request[c].reset_storage
        /\ UNCHANGED history
        /\ Goto(c, "mark_failed")
  /\ UNCHANGED <<snapshot, runVars, slotVars, taskVars, cache>>

\* start_mode: bail if the slot is taken, else mark_runtime_started
StartRun(c) ==
  /\ pc[c] = "start"
  /\ Goto(c, IF active_task # NoRun
             THEN IfCurrent(run_id[c], "mark_failed", "error")
             ELSE IfCurrent(run_id[c], "mark_started", "spawn"))
  /\ UNCHANGED <<snapshot, runVars, slotVars, taskVars, storeVars>>

\* tokio::spawn, and the handle into the slot; no storage reset of its own
SpawnRun(c) ==
  /\ pc[c] = "spawn"
  /\ SpawnTask(run_id[c], request[c], FALSE)
  /\ Goto(c, "finish")
  /\ UNCHANGED <<snapshot, runVars, taken, shutdown, detached, storeVars>>

SwitchFinish(c) ==
  /\ pc[c] = "finish"
  /\ Goto(c, IfCurrent(run_id[c], "mark_switched", "respond"))
  /\ UNCHANGED <<snapshot, runVars, slotVars, taskVars, storeVars>>

\* update_runtime_if_current, second half, for the client's pending update
ClientUpdate(c) ==
  /\ \/ pc[c] = "mark_started" /\ Goto(c, "spawn")
        /\ snapshot' = MarkStarted(snapshot)
     \/ pc[c] = "mark_switched" /\ Goto(c, "respond")
        /\ snapshot' = MarkSwitched(snapshot, request[c])
     \/ pc[c] = "mark_failed" /\ Goto(c, "error")
        /\ snapshot' = MarkFailed(snapshot)
  /\ UNCHANGED <<runVars, slotVars, taskVars, storeVars>>

\* the answer; the guard is dropped with switch_mode's frame
Respond(c) ==
  /\ pc[c] \in {"respond", "error"}
  /\ Answer(c, IF pc[c] = "respond" THEN "Ok" ELSE "Execution")
  /\ switch_guard' = NoClient
  /\ Goto(c, "idle")
  /\ UNCHANGED <<snapshot, next_run_id, current_run_id, request, run_id,
                 slotVars, taskVars, storeVars>>

\* the client goes away: the future is dropped at one of the awaits that can
\* be pending, the guard and a joined handle with it; a reset under way may or
\* may not have taken effect
Disconnect(c) ==
  /\ c \in Disconnecting
  /\ \/ pc[c] = "join" /\ UNCHANGED storeVars
     \/ /\ pc[c] = "clear" /\ request[c].reset_state
        /\ cache' \in SUBSET cache /\ UNCHANGED history
     \/ /\ pc[c] = "truncate" /\ request[c].reset_storage
        /\ history' \in {history, {}} /\ UNCHANGED cache
  /\ switch_guard' = NoClient
  /\ detached' = IF pc[c] = "join" THEN detached \cup {taken[c]} ELSE detached
  /\ taken' = [taken EXCEPT ![c] = NoRun]
  /\ Answer(c, "gone")
  /\ Goto(c, "idle")
  /\ UNCHANGED <<snapshot, next_run_id, current_run_id, request, run_id,
                 active_task, shutdown, taskVars>>

-----------------------------------------------------------------------------
(* The tasks.  They end with the process. *)

Alive == pc[Main] # "exited"

\* a task that ended with the given outcome checks current_run_id; a live one
\* that ended well updates nothing
EndTask(r, how) ==
  /\ outcome' = [outcome EXCEPT ![r] = how]
  /\ task_pc' = [task_pc EXCEPT ![r] =
                   IF how = "panic" \/ (how = "ok" /\ task_request[r].mode = "Live")
                   THEN "done" ELSE IfCurrent(r, "update", "done")]
  /\ UNCHANGED task_request

\* reset_replay_storage_if_needed at the head of the initial replay task
TaskResetStorage(r) ==
  /\ Alive
  /\ task_pc[r] = "reset"
  /\ \/ /\ history' = {}
        /\ task_pc' = [task_pc EXCEPT ![r] = "run"]
        /\ UNCHANGED <<task_request, outcome>>
     \/ EndTask(r, "err") /\ UNCHANGED history
  /\ UNCHANGED <<pc, snapshot, runVars, slotVars, cache>>

\* the pipeline of the run writes a row or a latest state; either may fail
TaskWrite(r) ==
  /\ Alive
  /\ task_pc[r] = "run"
  /\ \/ history' = history \cup {r} /\ UNCHANGED cache
     \/ cache' = cache \cup {r} /\ UNCHANGED history
  /\ UNCHANGED <<pc, snapshot, runVars, slotVars, taskVars>>

\* a replay ends when its file does, a live run only when told to; both may
\* fail or panic at any time
TaskEnd(r) ==
  /\ Alive
  /\ task_pc[r] = "run"
  /\ \/ (task_request[r].mode = "Live" => r \in shutdown) /\ EndTask(r, "ok")
     \/ EndTask(r, "err")
     \/ EndTask(r, "panic")
  /\ UNCHANGED <<pc, snapshot, runVars, slotVars, storeVars>>

\* update_runtime_if_current, second half, for the task's last update
TaskUpdate(r) ==
  /\ Alive
  /\ task_pc[r] = "update"
  /\ snapshot' = IF outcome[r] = "ok" THEN MarkCompleted(snapshot)
                                      ELSE MarkFailed(snapshot)
  /\ task_pc' = [task_pc EXCEPT ![r] = "done"]
  /\ UNCHANGED <<pc, runVars, slotVars, task_request, outcome, storeVars>>

-----------------------------------------------------------------------------
\* the process is gone; nothing happens any more
Exited == pc[Main] = "exited" /\ UNCHANGED vars

MainStep == StartInitial \/ ServerDrained \/ TakeActive(Main) \/ MainJoined
            \/ MainUpdate

ClientStep(c) ==
  \/ SwitchMark(c)
  \/ TakeActive(c)
  \/ JoinOk(c)
  \/ JoinErr(c)
  \/ ResetState(c)
  \/ ResetStorage(c)
  \/ StartRun(c)
  \/ SpawnRun(c)
  \/ SwitchFinish(c)
  \/ ClientUpdate(c)
  \/ Respond(c)

TaskFinishes(r) == TaskResetStorage(r) \/ TaskEnd(r) \/ TaskUpdate(r)

Next ==
  \/ MainStep
  \/ ShutdownSignal
  \/ \E c \in Clients, cmd \in Commands : Refuse(c, cmd) \/ SwitchBegin(c, cmd)
  \/ \E c \in Clients : ClientStep(c) \/ Disconnect(c)
  \/ \E r \in RunIds : TaskFinishes(r) \/ TaskWrite(r)
  \/ Exited

\* The executor polls what is ready.  A replay reads a finite file and a live
\* run that was told to stop does so; before that, a live run need not end,
\* and no client and no signal need ever come.
Fairness ==
  /\ WF_vars(MainStep)
  /\ \A c \in Clients : WF_vars(ClientStep(c))
  /\ \A r \in RunIds :
       WF_vars(TaskFinishes(r) /\ (task_request[r].mode = "Live" => r \in shutdown))

Spec == Init /\ [][Next]_vars

FairSpec == Spec /\ Fairness
-----------------------------------------------------------------------------
(* What makes the supervisor correct *)

\* The variables stay in their domains.
TypeOK ==
  /\ pc \in [Procs -> ClientPcs \cup MainPcs]
  /\ pc[Main] \in MainPcs
  /\ \A c \in Clients : pc[c] \in ClientPcs
  /\ next_run_id \in 1 .. (MaxRuns + 1)
  /\ current_run_id \in 0 .. MaxRuns
  /\ snapshot \in RuntimeModeSnapshot
  /\ active_task \in 0 .. MaxRuns
  /\ switch_guard \in Clients \cup {NoClient}
  /\ request \in [Clients -> ResolvedSwitchRequest]
  /\ run_id \in [Clients -> 0 .. MaxRuns]
  /\ taken \in [Procs -> 0 .. MaxRuns]
  /\ response \in [Clients -> Responses]
  /\ task_pc \in [RunIds -> TaskPcs]
  /\ task_request \in [RunIds -> ResolvedSwitchRequest]
  /\ outcome \in [RunIds -> Outcomes]
  /\ shutdown \in SUBSET RunIds
  /\ detached \in SUBSET RunIds
  /\ history \in SUBSET RunIds
  /\ cache \in SUBSET RunIds

\* Ingestion tasks are never lost: one that still runs is in the slot, or held
\* by the process that is joining it, or was let go by a client that
\* disconnected while it waited for the join.
TasksAccountedFor ==
  \A r \in RunningTasks :
     \/ active_task = r
     \/ \E p \in Procs : pc[p] = "join" /\ taken[p] = r
     \/ r \in detached

\* A switch in progress is the newest one, so that none of its own updates of
\* the snapshot is skipped by update_runtime_if_current, and it alone is past
\* try_lock.
SwitchOwnsRunId ==
  \A c \in Clients : pc[c] # "idle" =>
     switch_guard = c /\ run_id[c] = current_run_id

\* With clients that stay connected, two ingestion pipelines never run at the
\* same time: a switch joins the old task before it spawns the new one.
OneIngestionAtATime == \A r, s \in RunningTasks : r = s

\* With clients that stay connected, a switch that asked for a reset answers
\* with nothing of an earlier run left behind: no old pipeline writes after
\* the reset.
ResetIsolatesRuns ==
  \A c \in Clients : pc[c] \in {"finish", "mark_switched", "respond"} =>
     /\ request[c].reset_storage => history \subseteq {run_id[c]}
     /\ request[c].reset_state => cache \subseteq {run_id[c]}

\* An update that a superseded run still has pending (it read current_run_id
\* before the switch stored its own) is written while the switch is still
\* waiting for that run, never after the new run was marked started.
LateUpdateWithinJoin ==
  \A r \in RunIds : task_pc[r] = "update" /\ r # current_run_id =>
     \E c \in Clients :
        /\ switch_guard = c
        /\ \/ pc[c] \in {"mark", "take"} /\ active_task = r
           \/ pc[c] = "join" /\ taken[c] = r

\* No update is pending and no switch or shutdown is in progress.
Quiescent ==
  /\ pc[Main] \in {"serving", "draining"}
  /\ \A c \in Clients : pc[c] = "idle"
  /\ \A r \in RunIds : task_pc[r] # "update"

\* Between switches the status describes the current run: Running while its
\* task lives (or died in a panic nobody has joined yet), Completed or Failed
\* as it ended, Failed after a switch that could not start one; and the mode
\* and symbols shown are those the task was spawned with.
StatusDescribesRun ==
  Quiescent =>
    IF active_task = NoRun
    THEN snapshot.status = "Failed"
    ELSE /\ active_task = current_run_id
         /\ snapshot.mode = task_request[active_task].mode
         /\ snapshot.symbols = task_request[active_task].symbols
         /\ snapshot.status = CASE outcome[active_task] = "ok" -> "Completed"
                                [] outcome[active_task] = "err" -> "Failed"
                                [] OTHER -> "Running"

\* The snapshot a successful switch answers with is its own: the mode and
\* symbols it asked for, and a status that its own run accounts for.
AnswerIsOwn ==
  \A c \in Clients : pc[c] = "respond" =>
     /\ snapshot.mode = request[c].mode
     /\ snapshot.symbols = request[c].symbols
     /\ snapshot.last_switched_at
     /\ \/ snapshot.status = "Running"
        \/ snapshot.status = "Completed" /\ outcome[run_id[c]] = "ok"
        \/ snapshot.status = "Failed" /\ outcome[run_id[c]] = "err"

\* A failure stays visible until an operator switches again: no step outside a
\* switch replaces the status Failed.
FailureIsSticky ==
  [][snapshot.status = "Failed" /\ snapshot'.status # "Failed"
       => switch_guard # NoClient]_vars

\* Every switch ends, although it waits for a replay that cannot be cancelled.
SwitchEnds == \A c \in Clients : pc[c] # "idle" ~> pc[c] = "idle"

\* A process told to shut down exits: it waits for the switches in flight and
\* for the active run.
ShutdownCompletes == pc[Main] = "draining" ~> pc[Main] = "exited"

\* Replay ingestion has ended when the API begins to serve (what
\* docs/architecture.md says of replay mode).
ReplayEndsBeforeServing ==
  pc[Main] = "serving" /\ snapshot.source = "Config" /\ snapshot.mode = "Replay"
    => task_pc[1] = "done"

-----------------------------------------------------------------------------
(* The abstract specification the supervisor implements when its clients   *)
(* stay connected: the runs with a live task hold the lease.               *)

StartedTasks == {r \in RunIds : task_pc[r] # "unborn"}

Lease == INSTANCE IngestionLease
           WITH holders <- RunningTasks, granted <- StartedTasks

\* With clients that stay connected, spawning and ending tasks follows the
\* lease protocol: a run starts only when no other runs, in the order of the
\* run ids, and never again after it ended.
ImplementsLease == Lease!Spec

-----------------------------------------------------------------------------
(* The inductive invariant behind the safety theorems *)

\* the pcs of a switch at which the old task is out of the slot and the new
\* one is not in it
SlotEmptyPcs == {"join", "clear", "truncate", "start", "mark_started", "spawn",
                 "mark_failed", "error"}

\* main serves; only then clients are served
MainServes == pc[Main] \in {"serving", "draining"}

\* The protocol of the slot: what switch_guard, the pcs and the slot say of
\* each other, and which run ids have been used.
SlotProtocol ==
  /\ ~MainServes => \A c \in Clients : pc[c] = "idle"
  /\ \A c \in Clients : pc[c] \in SlotEmptyPcs => active_task = NoRun
  /\ pc[Main] \notin {"serving", "draining", "take"} => active_task = NoRun
  /\ \A p \in Procs : pc[p] = "join" <=> taken[p] # NoRun
  /\ active_task < next_run_id
  /\ current_run_id < next_run_id
  /\ pc[Main] = "new" => next_run_id = 1

\* The run ids: those not handed out, and the one of a switch that has not
\* spawned yet, have no task; every task has an id below.
FreshRunIds ==
  /\ \A r \in StartedTasks : r <= current_run_id
  /\ \A c \in Clients :
       pc[c] \in {"mark", "take"} \cup SlotEmptyPcs => run_id[c] \notin StartedTasks
  /\ \A c \in Clients : pc[c] # "idle" => run_id[c] # NoRun

\* Handles are dropped only by clients that disconnect.
DetachedByDisconnect == Disconnecting = {} => detached = {}

SupervisorInv ==
  /\ TypeOK
  /\ SwitchOwnsRunId
  /\ SlotProtocol
  /\ FreshRunIds
  /\ DetachedByDisconnect
  /\ TasksAccountedFor
-----------------------------------------------------------------------------
(* With clients that stay connected more can be said: what the snapshot and *)
(* the stores hold at each point of a switch.                               *)

\* The task in the slot, or the one main waits for, is the current run, unless
\* a switch is about to take it out.
SlotIsCurrent ==
  /\ active_task # NoRun =>
       /\ active_task \in StartedTasks \ shutdown
       /\ \/ active_task = current_run_id
          \/ \E c \in Clients : pc[c] \in {"mark", "take"}
  /\ pc[Main] = "join" => taken[Main] = current_run_id

\* How a task ended is known once it has, and a live one ends well only when
\* it was told to.
OutcomesAreFinal ==
  /\ shutdown \subseteq StartedTasks
  /\ \A r \in RunIds :
       /\ task_pc[r] \in {"unborn", "reset", "run"} => outcome[r] = "none"
       /\ task_pc[r] = "update" => outcome[r] \in {"ok", "err"}
       /\ task_pc[r] = "done" => outcome[r] # "none"
       /\ outcome[r] = "ok" /\ task_request[r].mode = "Live" =>
            r \in shutdown /\ task_pc[r] = "done"

\* the status the updates of run r leave behind, so far
StatusOf(r) ==
  IF task_pc[r] # "done" \/ outcome[r] = "panic" THEN "Running"
  ELSE IF outcome[r] = "err" THEN "Failed"
  ELSE IF task_request[r].mode = "Live" THEN "Running" ELSE "Completed"

Shows(r) ==
  /\ snapshot.mode = task_request[r].mode
  /\ snapshot.symbols = task_request[r].symbols
  /\ snapshot.status = StatusOf(r)

\* The snapshot shows the current run while its task is in the slot and while
\* main joins it, and Failed while there is none and no switch.
SnapshotShowsRun ==
  /\ pc[Main] = "new" => snapshot.symbols = StartSymbols /\ snapshot.status = "Running"
  /\ active_task # NoRun /\ active_task = current_run_id => Shows(active_task)
  /\ pc[Main] = "join" => Shows(taken[Main])
  /\ pc[Main] = "mark_stopped" => snapshot.status # "Failed"
  /\ MainServes /\ active_task = NoRun /\ (\A c \in Clients : pc[c] = "idle") =>
       snapshot.status = "Failed"

\* The snapshot shows a switch in progress from its first update on.
SnapshotShowsSwitch ==
  \A c \in Clients :
    /\ pc[c] \in {"take", "join", "clear", "truncate", "start", "mark_started", "spawn"} =>
         snapshot.mode = request[c].mode /\ snapshot.symbols = request[c].symbols
    /\ pc[c] = "spawn" => snapshot.status = "Running"
    /\ pc[c] = "error" => snapshot.status = "Failed"
    /\ pc[c] = "respond" => snapshot.last_switched_at

\* A switch that has spawned its run finds it in the slot.
SwitchHasRun ==
  \A c \in Clients : pc[c] \in {"finish", "mark_switched", "respond"} =>
    active_task = run_id[c] /\ task_request[run_id[c]] = request[c]

\* A store that was reset stays empty until the new run is spawned.
ResetStaysEmpty ==
  \A c \in Clients :
    /\ pc[c] \in {"truncate", "start", "mark_started", "spawn"} /\ request[c].reset_state =>
         cache = {}
    /\ pc[c] \in {"start", "mark_started", "spawn"} /\ request[c].reset_storage =>
         history = {}

ConnectedInv ==
  /\ SlotIsCurrent
  /\ OutcomesAreFinal
  /\ SnapshotShowsRun
  /\ SnapshotShowsSwitch
  /\ SwitchHasRun
  /\ ResetStaysEmpty
  /\ ResetIsolatesRuns
=============================================================================
