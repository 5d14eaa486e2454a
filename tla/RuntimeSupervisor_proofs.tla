----------------------- MODULE RuntimeSupervisor_proofs -----------------------
(***************************************************************************)
(* Proofs about RuntimeSupervisor, for every set of clients, every set of  *)
(* commands and every number of runs.                                      *)
(***************************************************************************)
EXTENDS RuntimeSupervisor, TLAPS

USE DEF runVars, slotVars, taskVars, storeVars, Goto, Answer, IfCurrent,
        Procs, RunIds, NoRun, Modes

\* A command that resolve_switch_request accepts resolves to a request.
LEMMA ResolvedRequestType ==
  ASSUME NEW cmd \in Commands, ValidCommand(cmd)
  PROVE  ResolveSwitchRequest(cmd) \in ResolvedSwitchRequest
BY DEF ValidCommand, ResolveSwitchRequest, ResolvedSwitchRequest, ResolvedMode,
       ResolvedSymbols

\* The settings of start_initial are a request.
LEMMA InitialRequestType ==
  ASSUME NEW mode \in Modes
  PROVE  InitialRequest(mode) \in ResolvedSwitchRequest
BY ConstantsAssumption DEF InitialRequest, ResolvedSwitchRequest

\* The updates keep the snapshot a snapshot.
LEMMA UpdatesType ==
  ASSUME NEW s \in RuntimeModeSnapshot, NEW req \in ResolvedSwitchRequest
  PROVE  /\ MarkSwitching(s, req) \in RuntimeModeSnapshot
         /\ MarkSwitched(s, req) \in RuntimeModeSnapshot
         /\ MarkStarted(s) \in RuntimeModeSnapshot
         /\ MarkFailed(s) \in RuntimeModeSnapshot
         /\ MarkCompleted(s) \in RuntimeModeSnapshot
         /\ MarkStopped(s) \in RuntimeModeSnapshot
BY DEF RuntimeModeSnapshot, ResolvedSwitchRequest, MarkSwitching, MarkSwitched,
       MarkStarted, MarkFailed, MarkCompleted, MarkStopped, Statuses

\* The process starts in the domains of its variables.
LEMMA InitTypeOK == Init => TypeOK
<1> SUFFICES ASSUME Init PROVE TypeOK
  OBVIOUS
<1> USE ConstantsAssumption DEF Init
<1>1. snapshot \in RuntimeModeSnapshot
  BY DEF FromStartupConfig, RuntimeModeSnapshot, Statuses
<1>2. /\ request \in [Clients -> ResolvedSwitchRequest]
      /\ task_request \in [RunIds -> ResolvedSwitchRequest]
  BY InitialRequestType
<1>3. /\ pc \in [Procs -> ClientPcs \cup MainPcs]
      /\ pc[Main] \in MainPcs
      /\ \A c \in Clients : pc[c] \in ClientPcs
  BY DEF ClientPcs, MainPcs
<1> QED
  BY <1>1, <1>2, <1>3 DEF TypeOK, Responses, TaskPcs, Outcomes

\* One step per action: no action takes a variable out of its domain.
LEMMA NextTypeOK == TypeOK /\ SlotProtocol /\ [Next]_vars => TypeOK'
<1> SUFFICES ASSUME TypeOK, SlotProtocol, [Next]_vars PROVE TypeOK'
  OBVIOUS
<1> USE ConstantsAssumption DEF TypeOK
<1>1. CASE StartInitial
  <2>1. snapshot' \in RuntimeModeSnapshot
    BY <1>1, UpdatesType, InitialRequestType DEF StartInitial
  <2>2. InitialRequest(snapshot.mode) \in ResolvedSwitchRequest
    BY InitialRequestType DEF RuntimeModeSnapshot
  <2>3. next_run_id \in 1 .. MaxRuns
    BY <1>1 DEF StartInitial, SlotProtocol
  <2> QED
    BY <1>1, <2>1, <2>2, <2>3 DEF StartInitial, SpawnTask, MainPcs, TaskPcs
<1>2. CASE ShutdownSignal \/ ServerDrained
  BY <1>2 DEF ShutdownSignal, ServerDrained, MainPcs
<1>3. ASSUME NEW p \in Procs, TakeActive(p) PROVE TypeOK'
  BY <1>3 DEF TakeActive, MainPcs, ClientPcs, SwitchPcs
<1>4. CASE MainJoined
  BY <1>4 DEF MainJoined, MainPcs
<1>5. CASE MainUpdate
  <2>1. snapshot' \in RuntimeModeSnapshot
    BY <1>5, UpdatesType, InitialRequestType DEF MainUpdate
  <2> QED
    BY <1>5, <2>1 DEF MainUpdate, MainPcs
<1>6. ASSUME NEW c \in Clients, NEW cmd \in Commands, Refuse(c, cmd)
      PROVE TypeOK'
  BY <1>6 DEF Refuse, Responses
<1>7. ASSUME NEW c \in Clients, NEW cmd \in Commands, SwitchBegin(c, cmd)
      PROVE TypeOK'
  <2>1. ResolveSwitchRequest(cmd) \in ResolvedSwitchRequest
    BY <1>7, ResolvedRequestType DEF SwitchBegin, BeginSwitch
  <2> QED
    BY <1>7, <2>1 DEF SwitchBegin, BeginSwitch, Responses, ClientPcs, SwitchPcs
<1>8. ASSUME NEW c \in Clients, SwitchMark(c) PROVE TypeOK'
  <2>1. snapshot' \in RuntimeModeSnapshot
    BY <1>8, UpdatesType DEF SwitchMark
  <2> QED
    BY <1>8, <2>1 DEF SwitchMark, ClientPcs, SwitchPcs
<1>9. ASSUME NEW c \in Clients, JoinOk(c) \/ JoinErr(c) PROVE TypeOK'
  <2>1. CASE JoinOk(c)
    BY <2>1 DEF JoinOk, ClientPcs, SwitchPcs
  <2>2. CASE JoinErr(c)
    BY <2>2 DEF JoinErr, ClientPcs, SwitchPcs
  <2> QED
    BY <1>9, <2>1, <2>2
<1>10. ASSUME NEW c \in Clients, ResetState(c) \/ ResetStorage(c) PROVE TypeOK'
  BY <1>10 DEF ResetState, ResetStorage, ClientPcs, SwitchPcs
<1>11. ASSUME NEW c \in Clients, StartRun(c) \/ SwitchFinish(c) PROVE TypeOK'
  BY <1>11 DEF StartRun, SwitchFinish, ClientPcs, SwitchPcs
<1>12. ASSUME NEW c \in Clients, SpawnRun(c) PROVE TypeOK'
  BY <1>12 DEF SpawnRun, SpawnTask, ClientPcs, SwitchPcs, TaskPcs
<1>13. ASSUME NEW c \in Clients, ClientUpdate(c) PROVE TypeOK'
  <2>1. snapshot' \in RuntimeModeSnapshot
    BY <1>13, UpdatesType DEF ClientUpdate
  <2> QED
    BY <1>13, <2>1 DEF ClientUpdate, ClientPcs, SwitchPcs
<1>14. ASSUME NEW c \in Clients, Respond(c) PROVE TypeOK'
  BY <1>14 DEF Respond, Responses, ClientPcs
<1>15. ASSUME NEW c \in Clients, Disconnect(c) PROVE TypeOK'
  <2>0. pc[c] = "join" => taken[c] \in RunIds
    BY DEF SlotProtocol
  <2>1. detached' \in SUBSET RunIds
    BY <1>15, <2>0 DEF Disconnect
  <2>2. history' \in SUBSET RunIds /\ cache' \in SUBSET RunIds
    BY <1>15 DEF Disconnect
  <2>3. /\ pc' \in [Procs -> ClientPcs \cup MainPcs]
        /\ pc'[Main] \in MainPcs
        /\ \A d \in Clients : pc'[d] \in ClientPcs
    BY <1>15 DEF Disconnect, ClientPcs
  <2> QED
    BY <1>15, <2>1, <2>2, <2>3 DEF Disconnect, Responses
<1>16. ASSUME NEW r \in RunIds, TaskResetStorage(r) PROVE TypeOK'
  BY <1>16 DEF TaskResetStorage, EndTask, TaskPcs, Outcomes
<1>17. ASSUME NEW r \in RunIds, TaskWrite(r) PROVE TypeOK'
  BY <1>17 DEF TaskWrite
<1>18. ASSUME NEW r \in RunIds, TaskEnd(r) PROVE TypeOK'
  BY <1>18 DEF TaskEnd, EndTask, TaskPcs, Outcomes
<1>19. ASSUME NEW r \in RunIds, TaskUpdate(r) PROVE TypeOK'
  <2>1. snapshot' \in RuntimeModeSnapshot
    BY <1>19, UpdatesType, InitialRequestType DEF TaskUpdate
  <2> QED
    BY <1>19, <2>1 DEF TaskUpdate, TaskPcs
<1>20. CASE UNCHANGED vars
  BY <1>20 DEF vars
<1> QED
  BY <1>1, <1>2, <1>3, <1>4, <1>5, <1>6, <1>7, <1>8, <1>9, <1>10, <1>11, <1>12,
     <1>13, <1>14, <1>15, <1>16, <1>17, <1>18, <1>19, <1>20
  DEF Next, MainStep, ClientStep, TaskFinishes, Exited

-----------------------------------------------------------------------------
(* The protocol of the guard and the slot *)

\* At the start nobody holds the slot, the guard or a run id.
LEMMA InitProtocol ==
  Init => SwitchOwnsRunId /\ SlotProtocol /\ FreshRunIds
          /\ DetachedByDisconnect /\ TasksAccountedFor
<1> SUFFICES ASSUME Init
             PROVE  SwitchOwnsRunId /\ SlotProtocol /\ FreshRunIds
                    /\ DetachedByDisconnect /\ TasksAccountedFor
  OBVIOUS
<1> USE ConstantsAssumption DEF Init
<1>1. \A c \in Clients : pc[c] = "idle"
  OBVIOUS
<1>2. StartedTasks = {} /\ RunningTasks = {}
  BY DEF StartedTasks, RunningTasks, Running
<1>3. pc[Main] = "new" /\ \A p \in Procs : pc[p] # "join" /\ taken[p] = NoRun
  OBVIOUS
<1>4. SlotProtocol
  <2>1. \A p \in Procs : pc[p] = "join" <=> taken[p] # NoRun
    BY <1>3
  <2>2. /\ active_task = NoRun
        /\ active_task < next_run_id
        /\ current_run_id < next_run_id
        /\ next_run_id = 1
    OBVIOUS
  <2> QED
    BY <1>1, <1>3, <2>1, <2>2 DEF SlotProtocol
<1> QED
  BY <1>1, <1>2, <1>4 DEF SwitchOwnsRunId, FreshRunIds, SlotEmptyPcs,
     DetachedByDisconnect, TasksAccountedFor

\* A switch in progress keeps the guard and the current run id, and the slot
\* stays empty from take() to the spawn.
LEMMA NextProtocol ==
  SupervisorInv /\ [Next]_vars => SwitchOwnsRunId' /\ SlotProtocol'
<1> SUFFICES ASSUME SupervisorInv, [Next]_vars
             PROVE  SwitchOwnsRunId' /\ SlotProtocol'
  OBVIOUS
<1> USE ConstantsAssumption
    DEF SupervisorInv, TypeOK, SwitchOwnsRunId, SlotProtocol, MainServes,
        SlotEmptyPcs
<1> DEFINE Goal == SwitchOwnsRunId' /\ SlotProtocol'
<1>0. ASSUME NEW c \in Clients, NEW to \in SwitchPcs \ {"join"},
             pc[c] \notin {"idle", "join"},
             to \in SlotEmptyPcs => active_task = NoRun,
             pc' = [pc EXCEPT ![c] = to],
             UNCHANGED <<next_run_id, current_run_id, active_task, switch_guard,
                         run_id, taken>>
      PROVE  Goal
  BY <1>0
<1>1. CASE StartInitial
  BY <1>1 DEF StartInitial, SpawnTask
<1>2. CASE ShutdownSignal \/ ServerDrained
  BY <1>2 DEF ShutdownSignal, ServerDrained
<1>3. ASSUME NEW p \in Procs, TakeActive(p) PROVE Goal
  BY <1>3 DEF TakeActive
<1>4. CASE MainJoined \/ MainUpdate
  BY <1>4 DEF MainJoined, MainUpdate
<1>6. ASSUME NEW c \in Clients, NEW cmd \in Commands, Refuse(c, cmd) PROVE Goal
  BY <1>6 DEF Refuse
<1>7. ASSUME NEW c \in Clients, NEW cmd \in Commands, SwitchBegin(c, cmd)
      PROVE Goal
  BY <1>7 DEF SwitchBegin, BeginSwitch, Serving
<1>8. ASSUME NEW c \in Clients, SwitchMark(c) PROVE Goal
  BY <1>0, <1>8 DEF SwitchMark, SwitchPcs
<1>9. ASSUME NEW c \in Clients, JoinOk(c) PROVE Goal
  BY <1>9 DEF JoinOk
<1>10. ASSUME NEW c \in Clients, JoinErr(c) PROVE Goal
  BY <1>10 DEF JoinErr
<1>11. ASSUME NEW c \in Clients, ResetState(c) PROVE Goal
  BY <1>0, <1>11 DEF ResetState, SwitchPcs
<1>12. ASSUME NEW c \in Clients, ResetStorage(c) PROVE Goal
  BY <1>0, <1>12 DEF ResetStorage, SwitchPcs
<1>13. ASSUME NEW c \in Clients, StartRun(c) PROVE Goal
  BY <1>0, <1>13 DEF StartRun, SwitchPcs
<1>14. ASSUME NEW c \in Clients, SpawnRun(c) PROVE Goal
  BY <1>14 DEF SpawnRun, SpawnTask
<1>15. ASSUME NEW c \in Clients, SwitchFinish(c) PROVE Goal
  BY <1>0, <1>15 DEF SwitchFinish, SwitchPcs
<1>16. ASSUME NEW c \in Clients, ClientUpdate(c) PROVE Goal
  <2>1. PICK to \in SwitchPcs \ {"join"} :
           /\ pc' = [pc EXCEPT ![c] = to]
           /\ to \in SlotEmptyPcs => pc[c] \in SlotEmptyPcs
    BY <1>16 DEF ClientUpdate, SwitchPcs
  <2> QED
    BY <1>0, <1>16, <2>1 DEF ClientUpdate
<1>17. ASSUME NEW c \in Clients, Respond(c) PROVE Goal
  BY <1>17 DEF Respond
<1>18. ASSUME NEW c \in Clients, Disconnect(c) PROVE Goal
  BY <1>18 DEF Disconnect
<1>19. ASSUME NEW r \in RunIds, TaskFinishes(r) \/ TaskWrite(r) PROVE Goal
  BY <1>19 DEF TaskFinishes, TaskResetStorage, TaskWrite, TaskEnd, TaskUpdate
<1>20. CASE UNCHANGED vars
  BY <1>20 DEF vars
<1> QED
  BY <1>1, <1>2, <1>3, <1>4, <1>6, <1>7, <1>8, <1>9, <1>10, <1>11, <1>12,
     <1>13, <1>14, <1>15, <1>16, <1>17, <1>18, <1>19, <1>20
  DEF Next, MainStep, ClientStep, Exited

\* A switch spawns a run id that has no task yet, and tasks exist only for run
\* ids up to the current one.
LEMMA NextFreshRunIds == SupervisorInv /\ [Next]_vars => FreshRunIds'
<1> SUFFICES ASSUME SupervisorInv, [Next]_vars PROVE FreshRunIds'
  OBVIOUS
<1> USE ConstantsAssumption
    DEF SupervisorInv, TypeOK, SwitchOwnsRunId, SlotProtocol, MainServes,
        FreshRunIds, StartedTasks, SlotEmptyPcs
<1>1. CASE StartInitial
  <2>1. pc[Main] = "new" /\ next_run_id = 1 /\ current_run_id = 0
    BY <1>1 DEF StartInitial
  <2>2. \A r \in StartedTasks' : r \in StartedTasks \/ r = next_run_id
    BY <1>1 DEF StartInitial, SpawnTask
  <2>3. current_run_id' = next_run_id
    BY <1>1 DEF StartInitial
  <2>4. \A c \in Clients : pc'[c] = "idle"
    BY <1>1, <2>1 DEF StartInitial
  <2> QED
    BY <2>1, <2>2, <2>3, <2>4
<1>2. ASSUME NEW c \in Clients, NEW cmd \in Commands, SwitchBegin(c, cmd)
      PROVE FreshRunIds'
  BY <1>2 DEF SwitchBegin, BeginSwitch, Serving
<1>3. ASSUME NEW c \in Clients, SpawnRun(c) PROVE FreshRunIds'
  BY <1>3 DEF SpawnRun, SpawnTask
<1>4. CASE /\ UNCHANGED <<task_pc, run_id, current_run_id>>
           /\ \A c \in Clients :
                \/ pc'[c] = pc[c]
                \/ pc'[c] = "idle"
                \/ /\ pc'[c] \notin {"mark", "take"} \cup SlotEmptyPcs
                   /\ pc[c] # "idle"
                \/ pc[c] \in {"mark", "take"} \cup SlotEmptyPcs
  BY <1>4
<1>5. CASE ShutdownSignal \/ ServerDrained \/ MainJoined \/ MainUpdate
  BY <1>5, <1>4 DEF ShutdownSignal, ServerDrained, MainJoined, MainUpdate
<1>6. ASSUME NEW p \in Procs, TakeActive(p) PROVE FreshRunIds'
  BY <1>6, <1>4 DEF TakeActive
<1>7. ASSUME NEW c \in Clients, NEW cmd \in Commands, Refuse(c, cmd)
      PROVE FreshRunIds'
  BY <1>7, <1>4 DEF Refuse
<1>8. ASSUME NEW c \in Clients, SwitchMark(c) \/ JoinOk(c) \/ JoinErr(c)
      PROVE FreshRunIds'
  BY <1>8, <1>4 DEF SwitchMark, JoinOk, JoinErr
<1>9. ASSUME NEW c \in Clients, ResetState(c) \/ ResetStorage(c) \/ StartRun(c)
      PROVE FreshRunIds'
  BY <1>9, <1>4 DEF ResetState, ResetStorage, StartRun
<1>10. ASSUME NEW c \in Clients, SwitchFinish(c) \/ ClientUpdate(c)
      PROVE FreshRunIds'
  BY <1>10, <1>4 DEF SwitchFinish, ClientUpdate
<1>11. ASSUME NEW c \in Clients, Respond(c) \/ Disconnect(c)
      PROVE FreshRunIds'
  BY <1>11, <1>4 DEF Respond, Disconnect
<1>12. ASSUME NEW r \in RunIds, TaskFinishes(r) \/ TaskWrite(r)
       PROVE FreshRunIds'
  <2>1. /\ UNCHANGED <<pc, run_id, current_run_id>>
        /\ StartedTasks' = StartedTasks
    BY <1>12 DEF TaskFinishes, TaskResetStorage, TaskWrite, TaskEnd, TaskUpdate,
                 EndTask
  <2> QED
    BY <2>1
<1>13. CASE UNCHANGED vars
  BY <1>13, <1>4 DEF vars
<1> QED
  BY <1>1, <1>2, <1>3, <1>5, <1>6, <1>7, <1>8, <1>9, <1>10, <1>11, <1>12, <1>13
  DEF Next, MainStep, ClientStep, Exited

\* Only a client that disconnects detaches a task.
LEMMA NextDetached == SupervisorInv /\ [Next]_vars => DetachedByDisconnect'
<1> SUFFICES ASSUME SupervisorInv, [Next]_vars, Disconnecting = {}
             PROVE  detached' = {}
  BY DEF DetachedByDisconnect
<1>1. detached = {}
  BY DEF SupervisorInv, DetachedByDisconnect
<1>2. \A c \in Clients : ~Disconnect(c)
  BY DEF Disconnect
<1> QED
  BY <1>1, <1>2
  DEF Next, MainStep, ClientStep, TaskFinishes, Exited, vars, StartInitial,
      ShutdownSignal, ServerDrained, TakeActive, JoinOk, JoinErr, MainJoined,
      MainUpdate, Refuse, SwitchBegin, BeginSwitch, SwitchMark, ResetState, ResetStorage,
      StartRun, SpawnRun, SwitchFinish, ClientUpdate, Respond, TaskResetStorage,
      TaskWrite, TaskEnd, TaskUpdate

\* A running task stays in the slot, moves from the slot to the process that
\* joins it, or is detached; the join ends only when the task has.
LEMMA NextAccountedFor == SupervisorInv /\ [Next]_vars => TasksAccountedFor'
<1> SUFFICES ASSUME SupervisorInv, [Next]_vars, NEW r \in RunIds, Running(r)'
             PROVE  \/ active_task' = r
                    \/ \E p \in Procs : pc'[p] = "join" /\ taken'[p] = r
                    \/ r \in detached'
  BY DEF TasksAccountedFor, RunningTasks
<1> USE ConstantsAssumption
    DEF SupervisorInv, TypeOK, SlotProtocol, SlotEmptyPcs, Running
<1> DEFINE Held == \/ active_task' = r
                   \/ \E p \in Procs : pc'[p] = "join" /\ taken'[p] = r
                   \/ r \in detached'
<1>1. Running(r) => \/ active_task = r
                    \/ \E p \in Procs : pc[p] = "join" /\ taken[p] = r
                    \/ r \in detached
  BY DEF TasksAccountedFor, RunningTasks
<1>2. CASE StartInitial
  BY <1>1, <1>2 DEF StartInitial, SpawnTask, TasksAccountedFor
<1>3. CASE ShutdownSignal \/ ServerDrained \/ MainUpdate
  BY <1>1, <1>3 DEF ShutdownSignal, ServerDrained, MainUpdate
<1>4. ASSUME NEW q \in Procs, TakeActive(q) PROVE Held
  BY <1>1, <1>4 DEF TakeActive
<1>5. CASE MainJoined
  BY <1>1, <1>5 DEF MainJoined
<1>6. ASSUME NEW c \in Clients, JoinOk(c) PROVE Held
  BY <1>1, <1>6 DEF JoinOk
<1>7. ASSUME NEW c \in Clients, JoinErr(c) PROVE Held
  BY <1>1, <1>7 DEF JoinErr
<1>8. ASSUME NEW c \in Clients, NEW cmd \in Commands,
             Refuse(c, cmd) \/ SwitchBegin(c, cmd)
      PROVE Held
  BY <1>1, <1>8 DEF Refuse, SwitchBegin, BeginSwitch, Serving
<1>9. ASSUME NEW c \in Clients, SwitchMark(c) \/ StartRun(c) \/ SwitchFinish(c)
      PROVE Held
  BY <1>1, <1>9 DEF SwitchMark, StartRun, SwitchFinish
<1>10. ASSUME NEW c \in Clients, ResetState(c) PROVE Held
  BY <1>1, <1>10 DEF ResetState
<1>11. ASSUME NEW c \in Clients, ResetStorage(c) PROVE Held
  BY <1>1, <1>11 DEF ResetStorage
<1>12. ASSUME NEW c \in Clients, SpawnRun(c) PROVE Held
  BY <1>1, <1>12 DEF SpawnRun, SpawnTask
<1>13. ASSUME NEW c \in Clients, ClientUpdate(c) \/ Respond(c) PROVE Held
  BY <1>1, <1>13 DEF ClientUpdate, Respond
<1>14. ASSUME NEW c \in Clients, Disconnect(c) PROVE Held
  BY <1>1, <1>14 DEF Disconnect
<1>15. ASSUME NEW s \in RunIds, TaskFinishes(s) \/ TaskWrite(s) PROVE Held
  <2>1. Running(r) /\ UNCHANGED <<pc, active_task, taken, detached>>
    BY <1>15 DEF TaskFinishes, TaskResetStorage, TaskWrite, TaskEnd, TaskUpdate,
                 EndTask
  <2> QED
    BY <1>1, <2>1
<1>16. CASE UNCHANGED vars
  BY <1>1, <1>16 DEF vars
<1> QED
  BY <1>2, <1>3, <1>4, <1>5, <1>6, <1>7, <1>8, <1>9, <1>10, <1>11, <1>12,
     <1>13, <1>14, <1>15, <1>16
  DEF Next, MainStep, ClientStep, Exited

-----------------------------------------------------------------------------
(* The theorems *)

\* SupervisorInv is inductive.
THEOREM SupervisorInvariant == Spec => []SupervisorInv
<1>1. Init => SupervisorInv
  BY InitTypeOK, InitProtocol DEF SupervisorInv
<1>2. SupervisorInv /\ [Next]_vars => SupervisorInv'
  BY NextTypeOK, NextProtocol, NextFreshRunIds, NextDetached, NextAccountedFor
  DEF SupervisorInv
<1> QED
  BY <1>1, <1>2, PTL DEF Spec

\* Every variable of the supervisor stays in its domain.
THEOREM TypeCorrect == Spec => []TypeOK
<1>1. SupervisorInv => TypeOK
  BY DEF SupervisorInv
<1> QED
  BY <1>1, SupervisorInvariant, PTL

\* No ingestion task is lost, whichever clients disconnect and when: a running
\* one is in the slot, being joined, or was let go by a disconnect.
THEOREM NoTaskIsLost == Spec => []TasksAccountedFor
<1>1. SupervisorInv => TasksAccountedFor
  BY DEF SupervisorInv
<1> QED
  BY <1>1, SupervisorInvariant, PTL

\* A switch that passed try_lock is the newest one until it ends, whichever
\* clients disconnect: its own updates are never skipped.
THEOREM SwitchIsNewest == Spec => []SwitchOwnsRunId
<1>1. SupervisorInv => SwitchOwnsRunId
  BY DEF SupervisorInv
<1> QED
  BY <1>1, SupervisorInvariant, PTL

\* Without disconnects a running task is in the slot or being joined, and
\* these two exclude each other.
LEMMA InvOneIngestion ==
  ASSUME Disconnecting = {}, SupervisorInv PROVE OneIngestionAtATime
<1> SUFFICES ASSUME NEW r \in RunningTasks, NEW s \in RunningTasks PROVE r = s
  BY DEF OneIngestionAtATime
<1> USE ConstantsAssumption DEF SupervisorInv
<1>1. detached = {}
  BY DEF DetachedByDisconnect
<1>2. \A t \in RunningTasks :
         \/ active_task = t
         \/ \E p \in Procs : pc[p] = "join" /\ taken[p] = t
  BY <1>1 DEF TasksAccountedFor
<1>3. \A p \in Procs : pc[p] = "join" => active_task = NoRun
  BY DEF SlotProtocol, SlotEmptyPcs
<1>4. \A p, q \in Procs : pc[p] = "join" /\ pc[q] = "join" => p = q
  <2>1. \A p, q \in Clients : pc[p] = "join" /\ pc[q] = "join" => p = q
    BY DEF SwitchOwnsRunId
  <2>2. \A p \in Clients : pc[p] = "join" => pc[Main] # "join"
    BY DEF SlotProtocol, MainServes
  <2> QED
    BY <2>1, <2>2
<1>5. \A t \in RunningTasks : t # NoRun
  BY DEF RunningTasks
<1> QED
  BY <1>2, <1>3, <1>4, <1>5

\* With clients that stay connected, two ingestion pipelines never run at the
\* same time, for any number of clients and switches.
THEOREM OneIngestion ==
  ASSUME Disconnecting = {} PROVE Spec => []OneIngestionAtATime
<1>1. SupervisorInv => OneIngestionAtATime
  BY InvOneIngestion
<1> QED
  BY <1>1, SupervisorInvariant, PTL

-----------------------------------------------------------------------------
(* The supervisor implements the lease *)

\* A subset of a set with at most one element is that set or empty.
LEMMA SubsetOfAtMostOne ==
  ASSUME NEW S, NEW T, T \subseteq S, \A x, y \in S : x = y
  PROVE  T = S \/ (T = {} /\ S # {})
OBVIOUS

\* A new task with an unused run id, spawned while none runs, is a grant.
LEMMA SpawnGrants ==
  ASSUME NEW r \in RunIds, NEW req, NEW resetFirst \in BOOLEAN,
         TypeOK, RunningTasks = {}, \A s \in StartedTasks : s < r,
         SpawnTask(r, req, resetFirst)
  PROVE  Lease!Grant(r)
<1>1. RunningTasks' = {r}
  BY DEF SpawnTask, RunningTasks, Running, TypeOK
<1>2. StartedTasks' = StartedTasks \cup {r}
  BY DEF SpawnTask, StartedTasks, TypeOK
<1> QED
  BY <1>1, <1>2 DEF Lease!Grant

\* Every step of the supervisor is a step of the lease or leaves it alone.
LEMMA StepImplementsLease ==
  ASSUME Disconnecting = {}, SupervisorInv, [Next]_vars
  PROVE  [Lease!Next]_<<RunningTasks, StartedTasks>>
<1> USE ConstantsAssumption
<1>1. OneIngestionAtATime
  BY InvOneIngestion
<1>2. TypeOK
  BY DEF SupervisorInv
<1>3. CASE StartInitial
  <2>1. next_run_id = 1 /\ current_run_id = 0 /\ next_run_id \in RunIds
    BY <1>3, <1>2 DEF StartInitial, SupervisorInv, SlotProtocol, TypeOK
  <2>2. StartedTasks = {}
    BY <2>1 DEF SupervisorInv, FreshRunIds, StartedTasks
  <2>3. RunningTasks = {}
    BY <2>2 DEF StartedTasks, RunningTasks, Running
  <2>4. PICK b \in BOOLEAN : SpawnTask(next_run_id, InitialRequest(snapshot.mode), b)
    BY <1>3 DEF StartInitial
  <2>5. Lease!Grant(next_run_id)
    BY <1>2, <2>1, <2>2, <2>3, <2>4, SpawnGrants
  <2> QED
    BY <2>1, <2>5 DEF Lease!Next
<1>4. ASSUME NEW c \in Clients, SpawnRun(c) PROVE Lease!Next
  <2>1. run_id[c] \in RunIds /\ run_id[c] = current_run_id
    BY <1>4, <1>2 DEF SpawnRun, SupervisorInv, FreshRunIds, SwitchOwnsRunId, TypeOK
  <2>2. \A s \in StartedTasks : s < run_id[c]
    BY <1>4, <2>1, <1>2
    DEF SpawnRun, SupervisorInv, FreshRunIds, StartedTasks, SlotEmptyPcs
  <2>3. active_task = NoRun /\ MainServes
    BY <1>4 DEF SpawnRun, SupervisorInv, SlotProtocol, SlotEmptyPcs
  <2>4. \A p \in Procs : pc[p] # "join"
    BY <1>4, <2>3 DEF SpawnRun, SupervisorInv, SwitchOwnsRunId, MainServes
  <2>5. RunningTasks = {}
    BY <2>3, <2>4
    DEF SupervisorInv, TasksAccountedFor, DetachedByDisconnect, RunningTasks
  <2>6. SpawnTask(run_id[c], request[c], FALSE)
    BY <1>4 DEF SpawnRun
  <2>7. Lease!Grant(run_id[c])
    BY <1>2, <2>1, <2>2, <2>5, <2>6, SpawnGrants
  <2> QED
    BY <2>1, <2>7 DEF Lease!Next
<1>5. ASSUME NEW r \in RunIds, TaskFinishes(r) \/ TaskWrite(r)
      PROVE  [Lease!Next]_<<RunningTasks, StartedTasks>>
  <2>1. StartedTasks' = StartedTasks /\ RunningTasks' \subseteq RunningTasks
    BY <1>5, <1>2
    DEF TaskFinishes, TaskResetStorage, TaskWrite, TaskEnd, TaskUpdate, EndTask,
        StartedTasks, RunningTasks, Running, TypeOK
  <2>2. \/ RunningTasks' = RunningTasks
        \/ RunningTasks' = {} /\ RunningTasks # {}
    BY <1>1, <2>1, SubsetOfAtMostOne DEF OneIngestionAtATime
  <2> QED
    BY <2>1, <2>2 DEF Lease!Next, Lease!Return
<1>6. CASE UNCHANGED task_pc
  BY <1>6 DEF RunningTasks, Running, StartedTasks
<1>7. ASSUME NEW p \in Procs, TakeActive(p) PROVE UNCHANGED task_pc
  BY <1>7 DEF TakeActive
<1>8. CASE ShutdownSignal \/ ServerDrained \/ MainJoined \/ MainUpdate
  BY <1>6, <1>8 DEF ShutdownSignal, ServerDrained, MainJoined, MainUpdate
<1>9. ASSUME NEW c \in Clients, NEW cmd \in Commands,
             Refuse(c, cmd) \/ SwitchBegin(c, cmd)
      PROVE  UNCHANGED task_pc
  BY <1>9 DEF Refuse, SwitchBegin, BeginSwitch
<1>10. ASSUME NEW c \in Clients, ClientStep(c) \/ Disconnect(c), ~SpawnRun(c)
       PROVE  UNCHANGED task_pc
  BY <1>7, <1>10
  DEF ClientStep, Disconnect, SwitchMark, JoinOk, JoinErr, ResetState,
      ResetStorage, StartRun, SwitchFinish, ClientUpdate, Respond
<1>11. CASE UNCHANGED vars
  BY <1>6, <1>11 DEF vars
<1> QED
  BY <1>3, <1>4, <1>5, <1>6, <1>7, <1>8, <1>9, <1>10, <1>11
  DEF Next, MainStep, Exited

\* With clients that stay connected the supervisor implements the lease: runs
\* start one at a time, in the order of their ids, each once.
THEOREM SupervisorImplementsLease ==
  ASSUME Disconnecting = {} PROVE Spec => ImplementsLease
<1>1. Init => Lease!Init
  BY DEF Init, Lease!Init, RunningTasks, Running, StartedTasks
<1>2. SupervisorInv /\ [Next]_vars => [Lease!Next]_<<RunningTasks, StartedTasks>>
  BY StepImplementsLease
<1> QED
  BY <1>1, <1>2, SupervisorInvariant, PTL DEF Spec, ImplementsLease, Lease!Spec

-----------------------------------------------------------------------------
(* The snapshot and the stores, with clients that stay connected *)

\* Only one process joins, and none while a task is in the slot; so the tasks
\* that run are the one in the slot or the one being joined.
LEMMA WhoRuns ==
  ASSUME Disconnecting = {}, SupervisorInv
  PROVE  /\ \A r \in RunIds : Running(r) =>
              \/ active_task = r
              \/ active_task = NoRun /\ \E p \in Procs : pc[p] = "join" /\ taken[p] = r
         /\ \A c \in Clients : pc[c] # "idle" =>
              /\ pc[Main] \in {"serving", "draining"}
              /\ \A d \in Clients : d # c => pc[d] = "idle"
<1> USE ConstantsAssumption DEF SupervisorInv
<1>1. \A p \in Procs : pc[p] = "join" => active_task = NoRun
  BY DEF SlotProtocol, SlotEmptyPcs
<1>2. detached = {}
  BY DEF DetachedByDisconnect
<1>3. \A r \in RunIds : Running(r) =>
         \/ active_task = r
         \/ active_task = NoRun /\ \E p \in Procs : pc[p] = "join" /\ taken[p] = r
  BY <1>1, <1>2 DEF TasksAccountedFor, RunningTasks
<1>4. \A c, d \in Clients : pc[c] # "idle" /\ pc[d] # "idle" => c = d
  BY DEF SwitchOwnsRunId
<1>5. \A c \in Clients : pc[c] # "idle" => pc[Main] \in {"serving", "draining"}
  BY DEF SlotProtocol, MainServes
<1> QED
  BY <1>3, <1>4, <1>5

\* No task runs from the end of the join to the spawn.
LEMMA NothingRuns ==
  ASSUME Disconnecting = {}, SupervisorInv,
         NEW c \in Clients, pc[c] \in SlotEmptyPcs \ {"join"}
  PROVE  \A r \in RunIds : ~Running(r)
<1>1. pc[c] # "idle" /\ pc[c] # "join" /\ active_task = NoRun
  BY DEF SlotEmptyPcs, SupervisorInv, SlotProtocol
<1>2. pc[Main] # "join" /\ \A d \in Clients : pc[d] # "join"
  BY <1>1, WhoRuns
<1>3. \A p \in Procs : pc[p] # "join"
  BY <1>2
<1> QED
  BY <1>1, <1>3, WhoRuns

\* The updates of a switch set mode and symbols; the last one keeps the status.
LEMMA SwitchUpdates ==
  ASSUME NEW s \in RuntimeModeSnapshot, NEW req
  PROVE  /\ MarkSwitching(s, req).mode = req.mode
         /\ MarkSwitching(s, req).symbols = req.symbols
         /\ MarkSwitched(s, req).mode = req.mode
         /\ MarkSwitched(s, req).symbols = req.symbols
         /\ MarkSwitched(s, req).status = s.status
         /\ MarkSwitched(s, req).last_switched_at
BY DEF RuntimeModeSnapshot, MarkSwitching, MarkSwitched

\* The other updates set the status and keep mode and symbols.
LEMMA StatusUpdates ==
  ASSUME NEW s \in RuntimeModeSnapshot
  PROVE  /\ MarkStarted(s).status = "Running"
         /\ MarkStarted(s).mode = s.mode /\ MarkStarted(s).symbols = s.symbols
         /\ MarkFailed(s).status = "Failed"
         /\ MarkFailed(s).mode = s.mode /\ MarkFailed(s).symbols = s.symbols
         /\ MarkCompleted(s).status = "Completed"
         /\ MarkCompleted(s).mode = s.mode /\ MarkCompleted(s).symbols = s.symbols
         /\ MarkStopped(s).status = "Stopped"
BY DEF RuntimeModeSnapshot, MarkStarted, MarkFailed, MarkCompleted, MarkStopped

\* The initial states satisfy ConnectedInv.
LEMMA InitConnected == Init => ConnectedInv
<1> SUFFICES ASSUME Init PROVE ConnectedInv
  OBVIOUS
<1> USE ConstantsAssumption DEF Init
<1>1. pc[Main] = "new" /\ \A c \in Clients : pc[c] = "idle"
  OBVIOUS
<1>2. SlotIsCurrent /\ SwitchHasRun /\ ResetStaysEmpty /\ ResetIsolatesRuns
      /\ SnapshotShowsSwitch
  BY <1>1 DEF SlotIsCurrent, SwitchHasRun, ResetStaysEmpty, ResetIsolatesRuns,
              SnapshotShowsSwitch
<1>3. OutcomesAreFinal
  BY DEF OutcomesAreFinal
<1>4. SnapshotShowsRun
  BY <1>1 DEF SnapshotShowsRun, FromStartupConfig, MainServes
<1> QED
  BY <1>2, <1>3, <1>4 DEF ConnectedInv

\* The outcome of a task is set once, when the task ends.
LEMMA NextOutcomes ==
  SupervisorInv /\ ConnectedInv /\ [Next]_vars => OutcomesAreFinal'
<1> SUFFICES ASSUME SupervisorInv, ConnectedInv, [Next]_vars PROVE OutcomesAreFinal'
  OBVIOUS
<1> USE ConstantsAssumption DEF SupervisorInv, TypeOK, ConnectedInv, OutcomesAreFinal, StartedTasks
<1>0. CASE UNCHANGED <<task_pc, outcome, task_request, shutdown>>
  BY <1>0
<1>1. ASSUME NEW r \in RunIds, NEW req, NEW b, r \notin StartedTasks,
             SpawnTask(r, req, b), UNCHANGED shutdown
      PROVE  OutcomesAreFinal'
  BY <1>1 DEF SpawnTask
<1>2. CASE StartInitial
  <2>1. next_run_id \in RunIds \ StartedTasks
    BY <1>2 DEF StartInitial, SlotProtocol, FreshRunIds
  <2> QED
    BY <1>1, <1>2, <2>1 DEF StartInitial
<1>3. ASSUME NEW c \in Clients, SpawnRun(c) PROVE OutcomesAreFinal'
  <2>1. run_id[c] \in RunIds \ StartedTasks
    BY <1>3 DEF SpawnRun, FreshRunIds, SlotEmptyPcs
  <2> QED
    BY <1>1, <1>3, <2>1 DEF SpawnRun
<1>4. ASSUME NEW p \in Procs, TakeActive(p) PROVE OutcomesAreFinal'
  BY <1>4 DEF TakeActive, SlotIsCurrent
<1>5. ASSUME NEW r \in RunIds, NEW how \in {"ok", "err", "panic"}, EndTask(r, how),
             task_pc[r] \in {"reset", "run"}, UNCHANGED shutdown,
             how = "ok" /\ task_request[r].mode = "Live" => r \in shutdown
      PROVE  OutcomesAreFinal'
  BY <1>5 DEF EndTask
<1>6. ASSUME NEW r \in RunIds, TaskFinishes(r) PROVE OutcomesAreFinal'
  <2>1. CASE TaskResetStorage(r)
    BY <1>5, <2>1 DEF TaskResetStorage
  <2>2. CASE TaskEnd(r)
    BY <1>5, <2>2 DEF TaskEnd
  <2>3. CASE TaskUpdate(r)
    BY <2>3 DEF TaskUpdate
  <2> QED
    BY <1>6, <2>1, <2>2, <2>3 DEF TaskFinishes
<1>7. CASE ShutdownSignal \/ ServerDrained \/ MainJoined \/ MainUpdate
  BY <1>0, <1>7 DEF ShutdownSignal, ServerDrained, MainJoined, MainUpdate
<1>8. ASSUME NEW c \in Clients, NEW cmd \in Commands,
             Refuse(c, cmd) \/ SwitchBegin(c, cmd)
      PROVE  OutcomesAreFinal'
  BY <1>0, <1>8 DEF Refuse, SwitchBegin, BeginSwitch
<1>9. ASSUME NEW c \in Clients, ClientStep(c) \/ Disconnect(c), ~SpawnRun(c)
      PROVE  OutcomesAreFinal'
  BY <1>0, <1>4, <1>9
  DEF ClientStep, Disconnect, SwitchMark, JoinOk, JoinErr, ResetState,
      ResetStorage, StartRun, SwitchFinish, ClientUpdate, Respond
<1>10. ASSUME NEW r \in RunIds, TaskWrite(r) PROVE OutcomesAreFinal'
  BY <1>0, <1>10 DEF TaskWrite
<1>11. CASE UNCHANGED vars
  BY <1>0, <1>11 DEF vars
<1> QED
  BY <1>2, <1>3, <1>4, <1>6, <1>7, <1>8, <1>9, <1>10, <1>11
  DEF Next, MainStep, Exited

\* The slot holds the current run except while a switch is about to take the
\* old one out, and a switch that has spawned its run still finds it there.
LEMMA NextSlot ==
  ASSUME Disconnecting = {}, SupervisorInv, ConnectedInv, [Next]_vars
  PROVE  SlotIsCurrent' /\ SwitchHasRun'
<1> DEFINE Goal == SlotIsCurrent' /\ SwitchHasRun'
<1>0. \A c \in Clients : pc[c] # "idle" =>
         /\ pc[Main] \in {"serving", "draining"}
         /\ \A d \in Clients : d # c => pc[d] = "idle"
  BY WhoRuns
<1> USE ConstantsAssumption, <1>0
    DEF SupervisorInv, TypeOK, ConnectedInv, SlotIsCurrent, SwitchHasRun,
        StartedTasks, SlotProtocol, MainServes
<1>1. CASE StartInitial
  <2>1. next_run_id \in RunIds /\ next_run_id = 1 /\ current_run_id = 0
    BY <1>1 DEF StartInitial
  <2>2. next_run_id \notin shutdown
    BY <2>1 DEF FreshRunIds, OutcomesAreFinal
  <2>3. \A c \in Clients : pc'[c] = "idle"
    BY <1>1 DEF StartInitial
  <2> QED
    BY <1>1, <2>1, <2>2, <2>3 DEF StartInitial, SpawnTask
<1>2. CASE ShutdownSignal \/ ServerDrained
  BY <1>2 DEF ShutdownSignal, ServerDrained
<1>3. CASE MainJoined
  BY <1>3 DEF MainJoined
<1>4. CASE MainUpdate
  BY <1>4 DEF MainUpdate
<1>5. CASE TakeActive(Main)
  BY <1>5 DEF TakeActive
<1>6. ASSUME NEW c \in Clients, TakeActive(c) PROVE Goal
  BY <1>6 DEF TakeActive
<1>7. ASSUME NEW c \in Clients, NEW cmd \in Commands, Refuse(c, cmd) PROVE Goal
  BY <1>7 DEF Refuse
<1>8. ASSUME NEW c \in Clients, NEW cmd \in Commands, SwitchBegin(c, cmd)
      PROVE Goal
  <2>1. \A d \in Clients : pc[d] = "idle"
    BY <1>8 DEF SwitchBegin, SwitchOwnsRunId
  <2> QED
    BY <1>8, <2>1 DEF SwitchBegin, BeginSwitch, Serving
<1>9. ASSUME NEW c \in Clients, SwitchMark(c) PROVE Goal
  BY <1>9 DEF SwitchMark
<1>10. ASSUME NEW c \in Clients, JoinOk(c) \/ JoinErr(c) PROVE Goal
  BY <1>10 DEF JoinOk, JoinErr, SlotEmptyPcs
<1>11. ASSUME NEW c \in Clients, ResetState(c) \/ ResetStorage(c) PROVE Goal
  BY <1>11 DEF ResetState, ResetStorage, SlotEmptyPcs
<1>12. ASSUME NEW c \in Clients, StartRun(c) PROVE Goal
  BY <1>12 DEF StartRun, SlotEmptyPcs
<1>13. ASSUME NEW c \in Clients, SpawnRun(c) PROVE Goal
  <2>1. run_id[c] \in RunIds \ StartedTasks /\ run_id[c] = current_run_id
    BY <1>13 DEF SpawnRun, FreshRunIds, SlotEmptyPcs, SwitchOwnsRunId
  <2>2. run_id[c] \notin shutdown
    BY <2>1 DEF OutcomesAreFinal
  <2> QED
    BY <1>13, <2>1, <2>2 DEF SpawnRun, SpawnTask
<1>14. ASSUME NEW c \in Clients, SwitchFinish(c) PROVE Goal
  BY <1>14 DEF SwitchFinish
<1>15. ASSUME NEW c \in Clients, ClientUpdate(c) PROVE Goal
  BY <1>15 DEF ClientUpdate, SlotEmptyPcs
<1>16. ASSUME NEW c \in Clients, Respond(c) PROVE Goal
  BY <1>16 DEF Respond
<1>17. ASSUME NEW c \in Clients, Disconnect(c) PROVE FALSE
  BY <1>17 DEF Disconnect
<1>18. ASSUME NEW r \in RunIds, TaskFinishes(r) \/ TaskWrite(r) PROVE Goal
  <2>1. /\ UNCHANGED <<pc, runVars, slotVars, task_request>>
        /\ StartedTasks' = StartedTasks
    BY <1>18 DEF TaskFinishes, TaskResetStorage, TaskWrite, TaskEnd, TaskUpdate,
                 EndTask
  <2> QED
    BY <2>1
<1>19. CASE UNCHANGED vars
  BY <1>19 DEF vars
<1> QED
  BY <1>1, <1>2, <1>3, <1>4, <1>5, <1>6, <1>7, <1>8, <1>9, <1>10, <1>11, <1>12,
     <1>13, <1>14, <1>15, <1>16, <1>17, <1>18, <1>19
  DEF Next, MainStep, ClientStep, Exited

\* The run being joined may still update the status while a switch waits for
\* it, but never its mode and symbols, and nothing updates afterwards.
LEMMA NextShowsSwitch ==
  ASSUME Disconnecting = {}, SupervisorInv, ConnectedInv, [Next]_vars
  PROVE  SnapshotShowsSwitch'
<1>0. /\ \A r \in RunIds : Running(r) =>
            \/ active_task = r
            \/ active_task = NoRun /\ \E p \in Procs : pc[p] = "join" /\ taken[p] = r
      /\ \A c \in Clients : pc[c] # "idle" =>
            /\ pc[Main] \in {"serving", "draining"}
            /\ \A d \in Clients : d # c => pc[d] = "idle"
  BY WhoRuns
<1>a. \A c \in Clients : pc[c] # "idle" => run_id[c] = current_run_id
  BY DEF SupervisorInv, SwitchOwnsRunId
<1>b. \A c \in Clients : pc[c] \in SlotEmptyPcs => active_task = NoRun
  BY DEF SupervisorInv, SlotProtocol
<1> USE ConstantsAssumption
    DEF SupervisorInv, TypeOK, ConnectedInv, SnapshotShowsSwitch, SlotEmptyPcs
<1>1. ASSUME \A c \in Clients : pc'[c] = pc[c] \/ pc'[c] \in {"idle", "mark"},
             snapshot' = snapshot \/ \A c \in Clients : pc'[c] = "idle",
             \A c \in Clients : pc'[c] # "mark" => request'[c] = request[c]
      PROVE  SnapshotShowsSwitch'
  BY <1>1
<1>2. CASE StartInitial
  BY <1>0, <1>1, <1>2 DEF StartInitial
<1>3. CASE ShutdownSignal \/ ServerDrained \/ MainJoined \/ TakeActive(Main)
  BY <1>1, <1>3 DEF ShutdownSignal, ServerDrained, MainJoined, TakeActive
<1>4. CASE MainUpdate
  BY <1>0, <1>1, <1>4 DEF MainUpdate
<1>5. ASSUME NEW c \in Clients, NEW cmd \in Commands,
             Refuse(c, cmd) \/ SwitchBegin(c, cmd)
      PROVE  SnapshotShowsSwitch'
  BY <1>1, <1>5 DEF Refuse, SwitchBegin, BeginSwitch
<1>6. ASSUME NEW c \in Clients, SwitchMark(c) PROVE SnapshotShowsSwitch'
  <2>1. /\ snapshot'.mode = request[c].mode
        /\ snapshot'.symbols = request[c].symbols
        /\ pc'[c] = "take" /\ request' = request
        /\ \A d \in Clients : d # c => pc'[d] = "idle"
    BY <1>0, <1>6, SwitchUpdates DEF SwitchMark
  <2> QED
    BY <2>1
<1>7. ASSUME NEW c \in Clients, TakeActive(c) PROVE SnapshotShowsSwitch'
  BY <1>7 DEF TakeActive
<1>8. ASSUME NEW c \in Clients, JoinOk(c) \/ JoinErr(c) PROVE SnapshotShowsSwitch'
  BY <1>a, <1>8 DEF JoinOk, JoinErr
<1>9. ASSUME NEW c \in Clients, ResetState(c) \/ ResetStorage(c)
      PROVE  SnapshotShowsSwitch'
  BY <1>9 DEF ResetState, ResetStorage
<1>10. ASSUME NEW c \in Clients, StartRun(c) \/ SpawnRun(c) \/ SwitchFinish(c)
       PROVE  SnapshotShowsSwitch'
  BY <1>a, <1>b, <1>10 DEF StartRun, SpawnRun, SwitchFinish
<1>11. ASSUME NEW c \in Clients, ClientUpdate(c) PROVE SnapshotShowsSwitch'
  <2>1. /\ pc[c] # "idle" /\ request' = request
        /\ \A d \in Clients : d # c => pc'[d] = "idle"
    BY <1>0, <1>11 DEF ClientUpdate
  <2>2. CASE pc[c] = "mark_started" /\ pc'[c] = "spawn"
             /\ snapshot' = MarkStarted(snapshot)
    <3>1. /\ snapshot'.status = "Running"
          /\ snapshot'.mode = snapshot.mode
          /\ snapshot'.symbols = snapshot.symbols
      BY <2>2, StatusUpdates
    <3> QED
      BY <2>1, <2>2, <3>1
  <2>3. CASE pc[c] = "mark_switched" /\ pc'[c] = "respond"
             /\ snapshot' = MarkSwitched(snapshot, request[c])
    BY <2>1, <2>3, SwitchUpdates
  <2>4. CASE pc[c] = "mark_failed" /\ pc'[c] = "error"
             /\ snapshot' = MarkFailed(snapshot)
    BY <2>1, <2>4, StatusUpdates
  <2> QED
    BY <1>11, <2>2, <2>3, <2>4 DEF ClientUpdate
<1>12. ASSUME NEW c \in Clients, Respond(c) PROVE SnapshotShowsSwitch'
  BY <1>1, <1>12 DEF Respond
<1>13. ASSUME NEW c \in Clients, Disconnect(c) PROVE FALSE
  BY <1>13 DEF Disconnect
<1>14. ASSUME NEW r \in RunIds, TaskUpdate(r) PROVE SnapshotShowsSwitch'
  <2>1. \A c \in Clients : pc[c] \notin {"spawn", "error"}
    BY <1>14, NothingRuns DEF TaskUpdate, Running
  <2> QED
    BY <1>14, <2>1
    DEF TaskUpdate, MarkCompleted, MarkFailed, RuntimeModeSnapshot
<1>15. ASSUME NEW r \in RunIds, TaskResetStorage(r) \/ TaskEnd(r) \/ TaskWrite(r)
       PROVE  SnapshotShowsSwitch'
  BY <1>1, <1>15 DEF TaskResetStorage, TaskEnd, TaskWrite
<1>16. CASE UNCHANGED vars
  BY <1>1, <1>16 DEF vars
<1> QED
  BY <1>2, <1>3, <1>4, <1>5, <1>6, <1>7, <1>8, <1>9, <1>10, <1>11, <1>12,
     <1>13, <1>14, <1>15, <1>16
  DEF Next, MainStep, ClientStep, TaskFinishes, Exited

\* A store that was reset is written by the new run alone: the old one was
\* joined before the reset.
LEMMA NextReset ==
  ASSUME Disconnecting = {}, SupervisorInv, ConnectedInv, [Next]_vars
  PROVE  ResetStaysEmpty' /\ ResetIsolatesRuns'
<1> DEFINE Goal == ResetStaysEmpty' /\ ResetIsolatesRuns'
<1>0. /\ \A r \in RunIds : Running(r) =>
            \/ active_task = r
            \/ active_task = NoRun /\ \E p \in Procs : pc[p] = "join" /\ taken[p] = r
      /\ \A c \in Clients : pc[c] # "idle" =>
            /\ pc[Main] \in {"serving", "draining"}
            /\ \A d \in Clients : d # c => pc[d] = "idle"
  BY WhoRuns
<1>b. \A c \in Clients : pc[c] \in SlotEmptyPcs => active_task = NoRun
  BY DEF SupervisorInv, SlotProtocol
<1> USE ConstantsAssumption
    DEF SupervisorInv, TypeOK, ConnectedInv, ResetStaysEmpty, ResetIsolatesRuns,
        SlotEmptyPcs
<1>1. ASSUME \A c \in Clients : pc'[c] = pc[c] \/ pc'[c] \in
               {"idle", "mark", "take", "join", "clear", "mark_failed", "error"},
             UNCHANGED storeVars,
             \A c \in Clients : pc'[c] # "mark" =>
                request'[c] = request[c] /\ run_id'[c] = run_id[c]
      PROVE  Goal
  BY <1>1
<1>2. CASE StartInitial \/ ShutdownSignal \/ ServerDrained \/ MainJoined
           \/ MainUpdate
  BY <1>1, <1>2
  DEF StartInitial, ShutdownSignal, ServerDrained, MainJoined, MainUpdate
<1>3. ASSUME NEW p \in Procs, TakeActive(p) PROVE Goal
  BY <1>1, <1>3 DEF TakeActive
<1>4. ASSUME NEW c \in Clients, NEW cmd \in Commands,
             Refuse(c, cmd) \/ SwitchBegin(c, cmd)
      PROVE  Goal
  BY <1>1, <1>4 DEF Refuse, SwitchBegin, BeginSwitch
<1>5. ASSUME NEW c \in Clients,
             SwitchMark(c) \/ JoinOk(c) \/ JoinErr(c) \/ Respond(c)
      PROVE  Goal
  BY <1>1, <1>5 DEF SwitchMark, JoinOk, JoinErr, Respond
<1>6. ASSUME NEW c \in Clients, ResetState(c) PROVE Goal
  <2>1. /\ pc[c] = "clear" /\ UNCHANGED <<history, request, run_id>>
        /\ \A d \in Clients : d # c => pc'[d] = "idle"
    BY <1>0, <1>6 DEF ResetState
  <2>2. CASE pc'[c] = "mark_failed"
    BY <2>1, <2>2
  <2>3. CASE pc'[c] = "truncate" /\ (request[c].reset_state => cache' = {})
    BY <2>1, <2>3
  <2> QED
    BY <1>6, <2>2, <2>3 DEF ResetState
<1>7. ASSUME NEW c \in Clients, ResetStorage(c) PROVE Goal
  BY <1>0, <1>7 DEF ResetStorage
<1>8. ASSUME NEW c \in Clients, StartRun(c) \/ SwitchFinish(c) PROVE Goal
  BY <1>b, <1>8 DEF StartRun, SwitchFinish
<1>9. ASSUME NEW c \in Clients, SpawnRun(c) PROVE Goal
  BY <1>9 DEF SpawnRun
<1>10. ASSUME NEW c \in Clients, ClientUpdate(c) PROVE Goal
  BY <1>10 DEF ClientUpdate
<1>11. ASSUME NEW c \in Clients, Disconnect(c) PROVE FALSE
  BY <1>11 DEF Disconnect
<1>12. ASSUME NEW r \in RunIds, TaskWrite(r) PROVE Goal
  <2>1. Running(r)
    BY <1>12 DEF TaskWrite, Running
  <2>2. \A c \in Clients : pc[c] \notin {"truncate", "start", "mark_started", "spawn"}
    BY <2>1, NothingRuns
  <2>3. \A c \in Clients : pc[c] \in {"finish", "mark_switched", "respond"} =>
           r = run_id[c]
    BY <1>0, <2>1 DEF SwitchHasRun, FreshRunIds
  <2> QED
    BY <1>12, <2>2, <2>3 DEF TaskWrite
<1>13. ASSUME NEW r \in RunIds, TaskResetStorage(r) PROVE Goal
  BY <1>13 DEF TaskResetStorage
<1>14. ASSUME NEW r \in RunIds, TaskEnd(r) \/ TaskUpdate(r) PROVE Goal
  BY <1>1, <1>14 DEF TaskEnd, TaskUpdate
<1>15. CASE UNCHANGED vars
  BY <1>1, <1>15 DEF vars
<1> QED
  BY <1>2, <1>3, <1>4, <1>5, <1>6, <1>7, <1>8, <1>9, <1>10, <1>11, <1>12,
     <1>13, <1>14, <1>15
  DEF Next, MainStep, ClientStep, TaskFinishes, Exited

\* The snapshot follows the task in the slot, or the one main joins.
LEMMA NextShowsRun ==
  ASSUME Disconnecting = {}, SupervisorInv, ConnectedInv, [Next]_vars
  PROVE  SnapshotShowsRun'
<1>0. /\ \A r \in RunIds : Running(r) =>
            \/ active_task = r
            \/ active_task = NoRun /\ \E p \in Procs : pc[p] = "join" /\ taken[p] = r
      /\ \A c \in Clients : pc[c] # "idle" =>
            /\ pc[Main] \in {"serving", "draining"}
            /\ \A d \in Clients : d # c => pc[d] = "idle"
  BY WhoRuns
<1>a. \A c \in Clients : pc[c] # "idle" => run_id[c] = current_run_id
  BY DEF SupervisorInv, SwitchOwnsRunId
<1>b. /\ \A c \in Clients : pc[c] \in SlotEmptyPcs => active_task = NoRun
      /\ pc[Main] \notin {"serving", "draining", "take"} => active_task = NoRun
  BY DEF SupervisorInv, SlotProtocol
<1> USE ConstantsAssumption
    DEF SupervisorInv, TypeOK, ConnectedInv, SnapshotShowsRun, MainServes
\* outside the joins and the new process, an empty slot and a busy client
\* leave nothing to show
<1>1. ASSUME pc'[Main] \in {"serving", "draining", "take", "exited"},
             active_task' = NoRun \/ active_task' # current_run_id',
             pc'[Main] \in {"take", "exited"} \/ active_task' # NoRun
               \/ \E c \in Clients : pc'[c] # "idle"
      PROVE  SnapshotShowsRun'
  BY <1>1
<1>2. ASSUME UNCHANGED <<snapshot, active_task, current_run_id, task_pc,
                         task_request, outcome>>,
             pc'[Main] = pc[Main] \/ pc'[Main] \in {"serving", "draining", "take", "exited"},
             pc'[Main] = "join" => taken'[Main] = taken[Main],
             pc'[Main] \in {"serving", "draining"} /\ (\A c \in Clients : pc'[c] = "idle") =>
               /\ pc[Main] \in {"serving", "draining"}
               /\ active_task = NoRun => \A c \in Clients : pc[c] = "idle"
      PROVE  SnapshotShowsRun'
  BY <1>2 DEF Shows, StatusOf
<1>3. CASE StartInitial
  <2>1. /\ next_run_id \in RunIds
        /\ active_task' = next_run_id
        /\ task_request'[next_run_id] = InitialRequest(snapshot.mode)
        /\ task_pc'[next_run_id] \in {"reset", "run"}
        /\ snapshot' = MarkStarted(snapshot)
        /\ pc'[Main] = "serving"
    BY <1>3 DEF StartInitial, SpawnTask, SlotProtocol
  <2>2. snapshot.symbols = StartSymbols
    BY <1>3 DEF StartInitial
  <2>3. snapshot'.status = "Running" /\ snapshot'.mode = snapshot.mode
        /\ snapshot'.symbols = StartSymbols
    BY <2>1, <2>2, StatusUpdates
  <2> QED
    BY <2>1, <2>3 DEF Shows, StatusOf, InitialRequest
<1>4. CASE ShutdownSignal \/ ServerDrained
  BY <1>2, <1>4 DEF ShutdownSignal, ServerDrained
<1>5. CASE TakeActive(Main)
  <2>1. \A c \in Clients : pc[c] = "idle"
    BY <1>0, <1>5 DEF TakeActive
  <2>2. active_task # NoRun => active_task = current_run_id
    BY <2>1 DEF SlotIsCurrent
  <2>3. active_task # NoRun => Shows(active_task)
    BY <2>2
  <2>4. UNCHANGED <<snapshot, task_pc, task_request, outcome>>
        /\ active_task' = NoRun /\ taken'[Main] = active_task
        /\ pc'[Main] = IF active_task # NoRun THEN "join" ELSE "exited"
    BY <1>5 DEF TakeActive
  <2> QED
    BY <2>3, <2>4 DEF Shows, StatusOf
<1>6. CASE MainJoined
  <2>1. /\ UNCHANGED <<snapshot, active_task>>
        /\ active_task = NoRun
        /\ pc'[Main] \in {"mark_failed", "exited", "mark_stopped"}
        /\ pc'[Main] = "mark_stopped" => StatusOf(taken[Main]) = "Running"
    BY <1>6, <1>b DEF MainJoined, StatusOf
  <2>2. snapshot.status = StatusOf(taken[Main])
    BY <1>6 DEF MainJoined, Shows
  <2> QED
    BY <2>1, <2>2
<1>7. CASE MainUpdate
  BY <1>1, <1>7, <1>b DEF MainUpdate
<1>8. ASSUME NEW c \in Clients, NEW cmd \in Commands, Refuse(c, cmd)
      PROVE  SnapshotShowsRun'
  BY <1>2, <1>8 DEF Refuse
<1>9. ASSUME NEW c \in Clients, NEW cmd \in Commands, SwitchBegin(c, cmd)
      PROVE  SnapshotShowsRun'
  <2>1. active_task < next_run_id /\ active_task' = active_task
        /\ current_run_id' = next_run_id
    BY <1>9 DEF SwitchBegin, BeginSwitch, SlotProtocol
  <2>2. active_task' # current_run_id'
    BY <2>1
  <2>3. pc'[Main] = "serving" /\ pc'[c] = "mark"
    BY <1>9 DEF SwitchBegin, BeginSwitch, Serving
  <2> QED
    BY <1>1, <2>2, <2>3
<1>10. ASSUME NEW c \in Clients, SwitchMark(c) PROVE SnapshotShowsRun'
  <2>1. active_task = NoRun \/ active_task # current_run_id
    BY <1>10, <1>a DEF SwitchMark, SlotIsCurrent, FreshRunIds
  <2>2. pc'[Main] \in {"serving", "draining"} /\ pc'[c] = "take"
    BY <1>10, <1>0 DEF SwitchMark
  <2> QED
    BY <1>1, <1>10, <2>1, <2>2 DEF SwitchMark
<1>11. ASSUME NEW c \in Clients, TakeActive(c) PROVE SnapshotShowsRun'
  BY <1>0, <1>1, <1>11 DEF TakeActive
<1>12. ASSUME NEW c \in Clients, NEW to \in SwitchPcs, pc' = [pc EXCEPT ![c] = to],
              pc[c] \in SlotEmptyPcs, UNCHANGED active_task
       PROVE  SnapshotShowsRun'
  <2>1. pc'[Main] \in {"serving", "draining"} /\ pc'[c] # "idle"
    BY <1>0, <1>12 DEF SlotEmptyPcs, SwitchPcs
  <2> QED
    BY <1>1, <1>b, <1>12, <2>1
<1>13. ASSUME NEW c \in Clients, JoinOk(c) \/ JoinErr(c) PROVE SnapshotShowsRun'
  BY <1>12, <1>13 DEF JoinOk, JoinErr, SlotEmptyPcs, SwitchPcs
<1>14. ASSUME NEW c \in Clients, ResetState(c) \/ ResetStorage(c)
       PROVE  SnapshotShowsRun'
  BY <1>12, <1>14 DEF ResetState, ResetStorage, SlotEmptyPcs, SwitchPcs
<1>15. ASSUME NEW c \in Clients, StartRun(c) PROVE SnapshotShowsRun'
  BY <1>12, <1>15 DEF StartRun, SlotEmptyPcs, SwitchPcs
<1>16. ASSUME NEW c \in Clients, SpawnRun(c) PROVE SnapshotShowsRun'
  <2>1. run_id[c] \in RunIds
    BY <1>16 DEF SpawnRun, FreshRunIds
  <2>2. /\ active_task' = run_id[c]
        /\ task_request'[run_id[c]] = request[c]
        /\ task_pc'[run_id[c]] = "run"
        /\ UNCHANGED snapshot
        /\ pc'[Main] \in {"serving", "draining"}
    BY <1>16, <2>1, <1>0 DEF SpawnRun, SpawnTask
  <2>3. /\ snapshot.mode = request[c].mode /\ snapshot.symbols = request[c].symbols
        /\ snapshot.status = "Running"
    BY <1>16 DEF SpawnRun, SnapshotShowsSwitch
  <2> QED
    BY <2>1, <2>2, <2>3 DEF Shows, StatusOf
<1>17. ASSUME NEW c \in Clients, SwitchFinish(c) PROVE SnapshotShowsRun'
  BY <1>2, <1>17 DEF SwitchFinish
<1>18. ASSUME NEW c \in Clients, ClientUpdate(c) PROVE SnapshotShowsRun'
  <2>1. CASE pc[c] \in {"mark_started", "mark_failed"}
    BY <1>12, <1>18, <2>1 DEF ClientUpdate, SlotEmptyPcs, SwitchPcs
  <2>2. CASE pc[c] = "mark_switched"
    <3>1. /\ snapshot' = MarkSwitched(snapshot, request[c])
          /\ UNCHANGED <<active_task, current_run_id, task_pc, task_request, outcome>>
          /\ pc'[Main] \in {"serving", "draining"}
          /\ pc'[c] = "respond"
      BY <1>0, <1>18, <2>2 DEF ClientUpdate
    <3>2. /\ active_task = current_run_id /\ active_task # NoRun
          /\ task_request[active_task] = request[c]
      BY <1>a, <2>2 DEF SwitchHasRun, FreshRunIds
    <3>3. /\ snapshot'.mode = request[c].mode
          /\ snapshot'.symbols = request[c].symbols
          /\ snapshot'.status = snapshot.status
      BY <3>1, SwitchUpdates
    <3>4. snapshot.status = StatusOf(active_task)
      BY <3>2 DEF Shows
    <3> QED
      BY <3>1, <3>2, <3>3, <3>4 DEF Shows, StatusOf
  <2> QED
    BY <1>18, <2>1, <2>2 DEF ClientUpdate
<1>19. ASSUME NEW c \in Clients, Respond(c) PROVE SnapshotShowsRun'
  <2>1. /\ UNCHANGED <<snapshot, active_task, current_run_id, taskVars>>
        /\ pc'[Main] = pc[Main] /\ pc[Main] \in {"serving", "draining"}
    BY <1>0, <1>19 DEF Respond
  <2>2. CASE pc[c] = "error"
    BY <1>b, <2>1, <2>2 DEF SnapshotShowsSwitch, SlotEmptyPcs
  <2>3. CASE pc[c] = "respond"
    <3>1. active_task # NoRun
      BY <2>3 DEF SwitchHasRun, FreshRunIds
    <3> QED
      BY <2>1, <3>1 DEF Shows, StatusOf
  <2> QED
    BY <1>19, <2>2, <2>3 DEF Respond
<1>20. ASSUME NEW c \in Clients, Disconnect(c) PROVE FALSE
  BY <1>20 DEF Disconnect
<1>21. ASSUME NEW r \in RunIds, task_pc[r] \in {"reset", "run"},
              UNCHANGED <<pc, snapshot, runVars, slotVars, task_request>>,
              \A s \in RunIds : s # r =>
                 task_pc'[s] = task_pc[s] /\ outcome'[s] = outcome[s],
              r = current_run_id => StatusOf(r)' = "Running"
       PROVE  SnapshotShowsRun'
  <2>1. StatusOf(r) = "Running"
    BY <1>21 DEF StatusOf
  <2>2. \A s \in RunIds : s = current_run_id /\ Shows(s) => Shows(s)'
    BY <1>21, <2>1 DEF Shows, StatusOf
  <2>3. pc[Main] = "join" => taken[Main] = current_run_id /\ taken[Main] \in RunIds
    BY DEF SlotIsCurrent, SlotProtocol
  <2> QED
    BY <1>21, <2>2, <2>3
<1>22. ASSUME NEW r \in RunIds, task_pc[r] \in {"reset", "run"},
              NEW how \in {"ok", "err", "panic"}, EndTask(r, how),
              UNCHANGED <<pc, snapshot, runVars, slotVars>>
       PROVE  SnapshotShowsRun'
  <2>1. r = current_run_id => StatusOf(r)' = "Running"
    BY <1>22 DEF EndTask, StatusOf
  <2> QED
    BY <1>21, <1>22, <2>1 DEF EndTask
<1>23. ASSUME NEW r \in RunIds, TaskResetStorage(r) PROVE SnapshotShowsRun'
  <2>1. CASE EndTask(r, "err")
    BY <1>22, <1>23, <2>1 DEF TaskResetStorage
  <2>2. CASE task_pc' = [task_pc EXCEPT ![r] = "run"] /\ UNCHANGED <<task_request, outcome>>
    <3>1. StatusOf(r)' = "Running"
      BY <2>2 DEF StatusOf
    <3> QED
      BY <1>21, <1>23, <2>2, <3>1 DEF TaskResetStorage
  <2> QED
    BY <1>23, <2>1, <2>2 DEF TaskResetStorage
<1>24. ASSUME NEW r \in RunIds, TaskEnd(r) PROVE SnapshotShowsRun'
  BY <1>22, <1>24 DEF TaskEnd
<1>25. ASSUME NEW r \in RunIds, TaskWrite(r) PROVE SnapshotShowsRun'
  BY <1>2, <1>25 DEF TaskWrite
<1>26. ASSUME NEW r \in RunIds, TaskUpdate(r) PROVE SnapshotShowsRun'
  <2>1. /\ UNCHANGED <<pc, runVars, slotVars, task_request, outcome>>
        /\ task_pc[r] = "update" /\ task_pc'[r] = "done"
        /\ snapshot' = IF outcome[r] = "ok" THEN MarkCompleted(snapshot)
                                            ELSE MarkFailed(snapshot)
    BY <1>26 DEF TaskUpdate
  <2>2. outcome[r] \in {"ok", "err"} /\ (outcome[r] = "ok" => task_request[r].mode # "Live")
    BY <2>1 DEF OutcomesAreFinal
  <2>3. StatusOf(r)' = IF outcome[r] = "ok" THEN "Completed" ELSE "Failed"
    BY <2>1, <2>2 DEF StatusOf
  <2>4. /\ snapshot'.mode = snapshot.mode /\ snapshot'.symbols = snapshot.symbols
        /\ snapshot'.status = StatusOf(r)'
    BY <2>1, <2>3, StatusUpdates
  <2>5. Shows(r) => Shows(r)'
    BY <2>1, <2>4 DEF Shows
  <2>6. CASE active_task = r
    BY <1>b, <2>1, <2>5, <2>6
  <2>7. CASE active_task = NoRun /\ pc[Main] = "join" /\ taken[Main] = r
    BY <2>1, <2>5, <2>7
  <2>8. ASSUME NEW c \in Clients, active_task = NoRun, pc[c] = "join"
        PROVE  SnapshotShowsRun'
    BY <1>0, <1>1, <2>1, <2>8
  <2>9. Running(r)
    BY <2>1 DEF Running
  <2> QED
    BY <1>0, <2>6, <2>7, <2>8, <2>9
<1>27. CASE UNCHANGED vars
  BY <1>2, <1>27 DEF vars
<1> QED
  BY <1>3, <1>4, <1>5, <1>6, <1>7, <1>8, <1>9, <1>10, <1>11, <1>13, <1>14, <1>15,
     <1>16, <1>17, <1>18, <1>19, <1>20, <1>23, <1>24, <1>25, <1>26, <1>27
  DEF Next, MainStep, ClientStep, TaskFinishes, Exited

\* With clients that stay connected, ConnectedInv is inductive together with
\* SupervisorInv.
THEOREM ConnectedInvariant ==
  ASSUME Disconnecting = {} PROVE Spec => []ConnectedInv
<1>1. SupervisorInv /\ ConnectedInv /\ [Next]_vars => ConnectedInv'
  BY NextSlot, NextOutcomes, NextShowsRun, NextShowsSwitch, NextReset
  DEF ConnectedInv
<1> QED
  BY <1>1, InitConnected, SupervisorInvariant, PTL DEF Spec

\* With clients that stay connected, a switch that asked for a reset answers
\* with nothing of an earlier run in the stores it reset.
THEOREM ResetIsolates ==
  ASSUME Disconnecting = {} PROVE Spec => []ResetIsolatesRuns
<1>1. ConnectedInv => ResetIsolatesRuns
  BY DEF ConnectedInv
<1> QED
  BY <1>1, ConnectedInvariant, PTL

\* With clients that stay connected, the update of a superseded run is written
\* while the switch still waits for that run.
THEOREM LateUpdateIsJoined ==
  ASSUME Disconnecting = {} PROVE Spec => []LateUpdateWithinJoin
<1>1. ASSUME SupervisorInv, ConnectedInv PROVE LateUpdateWithinJoin
  <2> SUFFICES ASSUME NEW r \in RunIds, task_pc[r] = "update", r # current_run_id
               PROVE  \E c \in Clients :
                        /\ switch_guard = c
                        /\ \/ pc[c] \in {"mark", "take"} /\ active_task = r
                           \/ pc[c] = "join" /\ taken[c] = r
    BY DEF LateUpdateWithinJoin
  <2>1. \A c \in Clients : pc[c] # "idle" => switch_guard = c
    BY <1>1 DEF SupervisorInv, SwitchOwnsRunId
  <2>2. \/ active_task = r
        \/ active_task = NoRun /\ \E p \in Procs : pc[p] = "join" /\ taken[p] = r
    BY <1>1, WhoRuns DEF Running
  <2>3. active_task = r => \E c \in Clients : pc[c] \in {"mark", "take"}
    BY <1>1 DEF ConnectedInv, SlotIsCurrent
  <2>4. ~(pc[Main] = "join" /\ taken[Main] = r)
    BY <1>1 DEF ConnectedInv, SlotIsCurrent
  <2> QED
    BY <2>1, <2>2, <2>3, <2>4
<1> QED
  BY <1>1, SupervisorInvariant, ConnectedInvariant, PTL

\* With clients that stay connected, the status between switches describes the
\* current run, and the mode and symbols shown are those it was spawned with.
THEOREM StatusIsOfTheRun ==
  ASSUME Disconnecting = {} PROVE Spec => []StatusDescribesRun
<1>1. ASSUME SupervisorInv, ConnectedInv PROVE StatusDescribesRun
  <2> SUFFICES ASSUME Quiescent
               PROVE  IF active_task = NoRun
                      THEN snapshot.status = "Failed"
                      ELSE /\ active_task = current_run_id
                           /\ snapshot.mode = task_request[active_task].mode
                           /\ snapshot.symbols = task_request[active_task].symbols
                           /\ snapshot.status =
                                CASE outcome[active_task] = "ok" -> "Completed"
                                  [] outcome[active_task] = "err" -> "Failed"
                                  [] OTHER -> "Running"
    BY DEF StatusDescribesRun
  <2> USE <1>1 DEF Quiescent, SupervisorInv, ConnectedInv
  <2>1. CASE active_task = NoRun
    BY <2>1 DEF SnapshotShowsRun, MainServes
  <2>2. CASE active_task # NoRun
    <3>1. active_task = current_run_id /\ active_task \notin shutdown
          /\ active_task \in RunIds
      BY <2>2 DEF SlotIsCurrent, TypeOK
    <3>2. Shows(active_task)
      BY <2>2, <3>1 DEF SnapshotShowsRun
    <3>3. /\ task_pc[active_task] # "done" => outcome[active_task] = "none"
          /\ task_pc[active_task] = "done" => outcome[active_task] \in {"ok", "err", "panic"}
          /\ outcome[active_task] = "ok" => task_request[active_task].mode # "Live"
      BY <3>1 DEF OutcomesAreFinal, TypeOK, TaskPcs, Outcomes
    <3> QED
      BY <2>2, <3>1, <3>2, <3>3 DEF Shows, StatusOf
  <2> QED
    BY <2>1, <2>2
<1> QED
  BY <1>1, SupervisorInvariant, ConnectedInvariant, PTL

\* With clients that stay connected, the snapshot a successful switch answers
\* with is its own, whatever its run has already done.
THEOREM SwitchAnswersItsOwn ==
  ASSUME Disconnecting = {} PROVE Spec => []AnswerIsOwn
<1>1. ASSUME SupervisorInv, ConnectedInv PROVE AnswerIsOwn
  <2> SUFFICES ASSUME NEW c \in Clients, pc[c] = "respond"
               PROVE  /\ snapshot.mode = request[c].mode
                      /\ snapshot.symbols = request[c].symbols
                      /\ snapshot.last_switched_at
                      /\ \/ snapshot.status = "Running"
                         \/ snapshot.status = "Completed" /\ outcome[run_id[c]] = "ok"
                         \/ snapshot.status = "Failed" /\ outcome[run_id[c]] = "err"
    BY DEF AnswerIsOwn
  <2> USE <1>1 DEF SupervisorInv, ConnectedInv
  <2>1. /\ active_task = run_id[c] /\ run_id[c] = current_run_id
        /\ run_id[c] \in RunIds
        /\ task_request[run_id[c]] = request[c]
    BY DEF SwitchHasRun, SwitchOwnsRunId, FreshRunIds, TypeOK
  <2>2. Shows(run_id[c])
    BY <2>1 DEF SnapshotShowsRun
  <2>3. snapshot.last_switched_at
    BY DEF SnapshotShowsSwitch
  <2>4. task_pc[run_id[c]] = "done" => outcome[run_id[c]] \in {"ok", "err", "panic"}
    BY <2>1 DEF OutcomesAreFinal, TypeOK, Outcomes
  <2> QED
    BY <2>1, <2>2, <2>3, <2>4 DEF Shows, StatusOf
<1> QED
  BY <1>1, SupervisorInvariant, ConnectedInvariant, PTL

\* With clients that stay connected, no step outside a switch replaces the
\* status Failed.
THEOREM FailureStaysVisible ==
  ASSUME Disconnecting = {} PROVE Spec => FailureIsSticky
<1> DEFINE Sticky == snapshot.status = "Failed" /\ snapshot'.status # "Failed"
                       => switch_guard # NoClient
<1>1. ASSUME SupervisorInv, ConnectedInv, [Next]_vars PROVE [Sticky]_vars
  <2> SUFFICES ASSUME snapshot.status = "Failed", snapshot'.status # "Failed",
                      switch_guard = NoClient
               PROVE  FALSE
    OBVIOUS
  <2> USE <1>1, ConstantsAssumption DEF SupervisorInv, ConnectedInv, TypeOK
  <2>1. \A c \in Clients : pc[c] = "idle"
    BY DEF SwitchOwnsRunId
  <2>2. snapshot' # snapshot
    OBVIOUS
  <2>3. CASE StartInitial
    BY <2>3 DEF StartInitial, SnapshotShowsRun
  <2>4. CASE MainUpdate
    BY <2>4, StatusUpdates DEF MainUpdate, SnapshotShowsRun
  <2>5. ASSUME NEW r \in RunIds, TaskUpdate(r) PROVE FALSE
    <3>1. task_pc[r] = "update"
      BY <2>5 DEF TaskUpdate
    <3>2. \/ active_task = r
          \/ \E p \in Procs : pc[p] = "join" /\ taken[p] = r
      BY <3>1, WhoRuns DEF Running
    <3>3. CASE active_task = r
      BY <2>1, <3>1, <3>3 DEF SlotIsCurrent, SnapshotShowsRun, Shows, StatusOf
    <3>4. CASE pc[Main] = "join" /\ taken[Main] = r
      BY <3>1, <3>4 DEF SnapshotShowsRun, Shows, StatusOf
    <3> QED
      BY <2>1, <3>2, <3>3, <3>4
  <2>6. CASE ShutdownSignal \/ ServerDrained \/ MainJoined \/ TakeActive(Main)
    BY <2>2, <2>6 DEF ShutdownSignal, ServerDrained, MainJoined, TakeActive
  <2>7. ASSUME NEW c \in Clients, NEW cmd \in Commands,
               Refuse(c, cmd) \/ SwitchBegin(c, cmd)
        PROVE  FALSE
    BY <2>2, <2>7 DEF Refuse, SwitchBegin, BeginSwitch
  <2>8. ASSUME NEW c \in Clients, ClientStep(c) \/ Disconnect(c) PROVE FALSE
    BY <2>1, <2>8
    DEF ClientStep, Disconnect, SwitchMark, TakeActive, JoinOk, JoinErr, ResetState,
        ResetStorage, StartRun, SpawnRun, SwitchFinish, ClientUpdate, Respond
  <2>9. ASSUME NEW r \in RunIds, TaskResetStorage(r) \/ TaskEnd(r) \/ TaskWrite(r)
        PROVE  FALSE
    BY <2>2, <2>9 DEF TaskResetStorage, TaskEnd, TaskWrite
  <2>10. CASE UNCHANGED vars
    BY <2>2, <2>10 DEF vars
  <2> QED
    BY <2>3, <2>4, <2>5, <2>6, <2>7, <2>8, <2>9, <2>10
    DEF Next, MainStep, TaskFinishes, Exited
<1> QED
  BY <1>1, SupervisorInvariant, ConnectedInvariant, PTL DEF Spec, FailureIsSticky
=============================================================================
