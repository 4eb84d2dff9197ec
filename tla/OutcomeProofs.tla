---------------------------- MODULE OutcomeProofs ----------------------------
(***************************************************************************)
(* What a task has reported as its outcome stands.  A terminated task is   *)
(* reconciled again, by a resync, an event or a failed patch, on other      *)
(* copies than those its outcome was decided on.                           *)
(***************************************************************************)
EXTENDS FinalizerProofs

-----------------------------------------------------------------------------
(* What the invariant of the controller does not say yet.                  *)

\* A task that is not there yet is blank; no pass works on one.
AbsentOk ==
  /\ \A t \in Tasks :
       /\ task[t].life = "Absent" => task[t] = AbsentTask
       /\ taskCache[t].life # "Absent" => task[t].life # "Absent"
  /\ cur # NoTask => task[cur].life # "Absent"

\* A pass never takes a machine for gone that its cache still has.
CopyOk ==
  pc \in {"Machines", "Abort", "Normal"} =>
    \A m \in Machines : machines[m].life = "Gone" => machineCache[m].life = "Gone"

\* The cache and the listing of a pass support every Aborted: the machines whose
\* node updates did not end are gone for them too.
FirmOk ==
  /\ \A t \in Tasks : SaysAborted(t) =>
       \A n \in NodeTasks :
         nodeTask[n].owner = t /\ Running(n) => machineCache[nodeTask[n].machine].life = "Gone"
  /\ pc = "Machines" /\ SaysAborted(cur) =>
       \A n \in NodeTasks :
         nodes[n].owner = cur /\ ~IsTerminated(nodes[n].state)
           => machines[nodes[n].machine].life = "Gone"

\* So a pass has nothing to report but what it read and what it concluded, and it
\* concludes nothing else than Aborted once that was said.
ObjOk ==
  /\ pc = "Machines" => obj.state = before.state
  /\ pc # "Idle" /\ obj.state # before.state =>
       /\ obj.state \in {"InProgress", "Updated", "Aborted"}
       /\ SaysAborted(cur) => obj.state = "Aborted"

RolloutInv == AbsentOk /\ CopyOk /\ FirmOk /\ ObjOk

-----------------------------------------------------------------------------
(* The invariant is inductive.                                             *)

\* A step that neither reports nor forgets, and starts nothing for a task that
\* was said to be aborted.
Steady ==
  /\ \A t \in Tasks :
       /\ task'[t].state = task[t].state
       /\ task'[t].life = "Absent" => task'[t] = task[t]
       /\ task[t].life # "Absent" => task'[t].life # "Absent"
  /\ \A n \in NodeTasks : Running(n)' =>
       \/ ~SaysAborted(nodeTask'[n].owner)
       \/ /\ Running(n)
          /\ nodeTask'[n].owner = nodeTask[n].owner
          /\ nodeTask'[n].machine = nodeTask[n].machine
  /\ UNCHANGED <<taskCache, machineCache>>

LEMMA RolloutSteady ==
  ASSUME IInv, RolloutInv, Steady, UNCHANGED <<cur, before>>, obj'.state = obj.state,
         \/ UNCHANGED <<pc, machines, nodes>>
         \/ pc \notin {"Idle", "Machines"} /\ pc' \in {"PatchMeta", "PatchStatus"}
  PROVE  RolloutInv'
<1>1. \A t \in Tasks : SaysAborted(t)' <=> SaysAborted(t)
  BY DEF SaysAborted, Steady
<1>2. AbsentOk'
  BY Constants DEF RolloutInv, AbsentOk, Steady, IInv, TypeOk
<1>3. CopyOk'
  BY DEF RolloutInv, CopyOk, Steady
<1>4. FirmOk'
  <2>1. ASSUME NEW t \in Tasks, SaysAborted(t)', NEW n \in NodeTasks, nodeTask'[n].owner = t,
               Running(n)'
        PROVE  machineCache'[nodeTask'[n].machine].life = "Gone"
    BY <1>1, <2>1 DEF RolloutInv, FirmOk, Steady
  <2>2. ASSUME pc' = "Machines", SaysAborted(cur)', NEW n \in NodeTasks, nodes'[n].owner = cur',
               ~IsTerminated(nodes'[n].state)
        PROVE  machines'[nodes'[n].machine].life = "Gone"
    <3>1. cur \in Tasks /\ pc = "Machines" /\ UNCHANGED <<machines, nodes>>
      BY <2>2 DEF IInv, WorkerOk
    <3>2. SaysAborted(cur)
      BY <1>1, <2>2, <3>1 DEF SaysAborted
    <3>3. QED
      BY <2>2, <3>1, <3>2 DEF RolloutInv, FirmOk
  <2>3. QED
    BY <2>1, <2>2 DEF FirmOk, IsTerminated
<1>5. ObjOk'
  <2>1. pc' # "Idle" => /\ pc # "Idle" /\ cur \in Tasks
                        /\ SaysAborted(cur)' <=> SaysAborted(cur)
    BY <1>1 DEF IInv, WorkerOk, SaysAborted
  <2>2. QED
    BY <2>1 DEF RolloutInv, ObjOk
<1>6. QED
  BY <1>2, <1>3, <1>4, <1>5 DEF RolloutInv

\* A step that gives up the pass, or never begins one.
LEMMA RolloutIdle ==
  ASSUME IInv, RolloutInv, UNCHANGED <<machine, nodeTask>>, pc' = "Idle", cur' = NoTask,
         \A t \in Tasks :
           /\ task'[t].state = "Aborted" => SaysAborted(t)
           /\ task'[t].life = task[t].life
           /\ task[t].life = "Absent" => task'[t] = task[t]
           /\ taskCache'[t] \in {taskCache[t], task[t]},
         \A m \in Machines : machineCache'[m] \in {machineCache[m], machine[m]}
  PROVE  RolloutInv'
<1>1. AbsentOk'
  BY DEF RolloutInv, AbsentOk
<1>2. CopyOk' /\ ObjOk'
  BY DEF CopyOk, ObjOk
<1>3. FirmOk'
  <2>1. SUFFICES ASSUME NEW t \in Tasks, SaysAborted(t)', NEW n \in NodeTasks,
                        nodeTask[n].owner = t, Running(n)
                 PROVE  machineCache'[nodeTask[n].machine].life = "Gone"
    BY DEF FirmOk, Running
  <2>2. SaysAborted(t)
    BY <2>1, Constants DEF SaysAborted
  <2>3. machineCache[nodeTask[n].machine].life = "Gone" /\ nodeTask[n].machine \in Machines
    BY <2>1, <2>2 DEF RolloutInv, FirmOk, IInv, NodeTasksOk, Running
  <2>4. machine[nodeTask[n].machine].life = "Gone"
    BY <2>3 DEF IInv, CachesOk
  <2>5. QED
    BY <2>3, <2>4
<1>4. QED
  BY <1>1, <1>2, <1>3 DEF RolloutInv

LEMMA RolloutInit == Init => RolloutInv
BY Constants DEF Init, ClusterInit, PassInit, RolloutInv, AbsentOk, CopyOk, FirmOk, ObjOk,
   SaysAborted, AbsentTask

LEMMA RolloutStartPass ==
  ASSUME IInv, RolloutInv, NEW t \in Tasks, StartPass(t)
  PROVE  RolloutInv'
<1> USE DEF clusterVars, serverVars, cacheVars
<1>1. CASE ReconcileMissing(t)
  BY <1>1, RolloutIdle DEF ReconcileMissing, Dequeue, passVars, SaysAborted, IInv, WorkerOk
<1>2. CASE ~ReconcileMissing(t)
  <2>1. /\ UNCHANGED <<task, machine, nodeTask, taskCache, machineCache>>
        /\ Exists(taskCache[t]) /\ cur' = t /\ before' = taskCache[t]
        /\ obj'.state = taskCache[t].state
        /\ pc' \in {"PatchMeta", "Machines"} /\ pc = "Idle"
    BY <1>2 DEF StartPass, ReconcileFinalizer, OpenScope, ScopeError, Dequeue, Begin, IInv, TypeOk,
       ClusterTypeOk, UpdateTask
  <2>2. pc' = "Machines" =>
          /\ machines' = machineCache
          /\ nodes' = [n \in NodeTasks |-> IF nodeTask[n].owner = t THEN nodeTask[n] ELSE NoNodeTask]
    BY <1>2 DEF StartPass, ReconcileFinalizer, OpenScope, ScopeError
  <2>3. \A k \in Tasks : SaysAborted(k)' => SaysAborted(k)
    BY <2>1 DEF SaysAborted
  <2>4. AbsentOk' /\ CopyOk' /\ ObjOk'
    BY <2>1, <2>2 DEF RolloutInv, AbsentOk, CopyOk, ObjOk, Exists
  <2>5. FirmOk'
    <3>1. ASSUME NEW k \in Tasks, SaysAborted(k)', NEW n \in NodeTasks, nodeTask[n].owner = k,
                 Running(n)
          PROVE  machineCache[nodeTask[n].machine].life = "Gone"
      BY <2>3, <3>1 DEF RolloutInv, FirmOk
    <3>2. ASSUME pc' = "Machines", SaysAborted(cur)', NEW n \in NodeTasks, nodes'[n].owner = t,
                 ~IsTerminated(nodes'[n].state)
          PROVE  machines'[nodes'[n].machine].life = "Gone"
      <4>1. nodes'[n] = nodeTask[n] /\ nodeTask[n].owner = t /\ Running(n)
        BY <2>2, <3>2, Constants DEF Running, NoNodeTask
      <4>2. SaysAborted(t)
        BY <2>1, <3>2 DEF SaysAborted
      <4>3. QED
        BY <2>2, <3>2, <4>1, <4>2 DEF RolloutInv, FirmOk
    <3>3. QED
      BY <2>1, <3>1, <3>2 DEF FirmOk, Running
  <2>6. QED
    BY <2>4, <2>5 DEF RolloutInv
<1>3. QED
  BY <1>1, <1>2

\* The heart of the argument: once a task was said to be aborted its passes find
\* nothing in progress, since they list as gone what was gone then.
LEMMA AbortedAgain ==
  ASSUME IInv, RolloutInv, pc = "Machines", SaysAborted(cur)
  PROVE  Stopping(before) /\ NoneInProgress(machines, nodes)
<1>1. cur \in Tasks /\ Halted(before) /\ Exists(before)
  BY DEF IInv, WorkerOk, AbortedOk
<1>2. ASSUME NEW m \in Machines, Exists(machines[m]), Reports(nodes, m, {"InProgress", "Unknown"})
      PROVE  FALSE
  <2>1. PICK n \in NodeTasks : nodes[n].machine = m /\ nodes[n].state \in {"InProgress", "Unknown"}
    BY <1>2 DEF Reports, LatestNodeTasks
  <2>2. nodes[n].owner = cur
    BY <1>2, <2>1, Constants DEF IInv, ScopeOk, NoNodeTask
  <2>3. machines[m].life = "Gone"
    BY <2>1, <2>2 DEF RolloutInv, FirmOk, IsTerminated
  <2>4. QED
    BY <1>2, <2>3 DEF Exists
<1>3. QED
  BY <1>1, <1>2 DEF Halted, Stopping, Exists, NoneInProgress

\* A pass that concludes Aborted has every unfinished node update on a machine
\* that its cache takes for gone.
LEMMA AbortedFirmly ==
  ASSUME IInv, RolloutInv, pc = "Machines", NoneInProgress(machines, nodes),
         NEW n \in NodeTasks, nodeTask[n].owner = cur, Running(n)
  PROVE  machineCache[nodeTask[n].machine].life = "Gone"
<1> DEFINE m == nodes[n].machine
<1>1. ScopeOk /\ cur # NoTask
  BY Constants DEF IInv, WorkerOk
<1>2. /\ nodes[n].owner = cur
      /\ m \in Machines /\ m = nodeTask[n].machine
      /\ ~IsTerminated(nodes[n].state)
  BY <1>1 DEF ScopeOk, Running
<1>3. n \in LatestNodeTasks(nodes, m)
  <2>1. ASSUME NEW k \in NodeTasks, nodes[k].machine = m PROVE k = n
    <3>1. nodes[k].owner = cur
      BY <1>1, <1>2, <2>1, Constants DEF ScopeOk, NoNodeTask
    <3>2. QED
      BY <1>1, <1>2, <2>1, <3>1 DEF ScopeOk
  <2>2. QED
    BY <2>1, Constants DEF LatestNodeTasks
<1>4. Reports(nodes, m, {"InProgress", "Unknown"})
  <2>1. nodes[n].state \in States
    BY DEF IInv, TypeOk, NodeUpdateTask
  <2>2. QED
    BY <1>2, <1>3, <2>1 DEF Reports, States, IsTerminated
<1>5. ~Exists(machines[m])
  BY <1>2, <1>4 DEF NoneInProgress
<1>6. machines[m].life = "Gone"
  <2>1. machines[m].life \in Lives /\ machines[m].life # "Absent"
    BY <1>1, <1>2 DEF IInv, TypeOk, Machine, ScopeOk
  <2>2. QED
    BY <1>5, <2>1 DEF Exists, Lives
<1>7. QED
  BY <1>2, <1>6 DEF RolloutInv, CopyOk

LEMMA RolloutReportState == ASSUME IInv, RolloutInv, ReportState PROVE RolloutInv'
<1>1. /\ UNCHANGED <<task, machine, nodeTask, taskCache, machineCache, cur, before, machines, nodes>>
      /\ pc = "Machines" /\ pc' \in {"Abort", "Normal"}
      /\ obj'.state = SummaryState(cur, before, machines, nodes)
      /\ cur \in Tasks
  BY DEF ReportState, clusterVars, serverVars, cacheVars, IInv, TypeOk, WorkerOk, UpdateTask
<1>2. SummaryState(cur, before, machines, nodes) \in {"InProgress", "Updated", "Aborted"}
  BY DEF SummaryState
<1>3. SaysAborted(cur) => obj'.state = "Aborted"
  BY <1>1, AbortedAgain DEF SummaryState
<1>4. \A t \in Tasks : SaysAborted(t)' /\ ~SaysAborted(t) =>
        t = cur /\ NoneInProgress(machines, nodes)
  BY <1>1 DEF SaysAborted, SummaryState
<1>5. AbsentOk' /\ CopyOk'
  BY <1>1 DEF RolloutInv, AbsentOk, CopyOk
<1>6. FirmOk'
  <2>1. ASSUME NEW t \in Tasks, SaysAborted(t)', NEW n \in NodeTasks, nodeTask[n].owner = t,
               Running(n)
        PROVE  machineCache[nodeTask[n].machine].life = "Gone"
    <3>1. CASE SaysAborted(t)
      BY <2>1, <3>1 DEF RolloutInv, FirmOk
    <3>2. CASE ~SaysAborted(t)
      BY <1>1, <1>4, <2>1, <3>2, AbortedFirmly
    <3>3. QED
      BY <3>1, <3>2
  <2>2. QED
    BY <1>1, <2>1 DEF FirmOk, Running
<1>7. ObjOk'
  BY <1>1, <1>2, <1>3 DEF ObjOk, SaysAborted
<1>8. QED
  BY <1>5, <1>6, <1>7 DEF RolloutInv

LEMMA RolloutContinuePass ==
  ASSUME IInv, RolloutInv, ContinuePass, ~ReportState
  PROVE  RolloutInv'
<1> USE DEF IInv, TypeOk, ClusterTypeOk
<1>1. ASSUME NEW m \in Machines, PatchMachine(m) PROVE RolloutInv'
  <2>1. Steady
    BY <1>1 DEF PatchMachine, Steady, Running, cacheVars
  <2>2. QED
    BY <1>1, <2>1, RolloutSteady DEF PatchMachine
<1>2. ASSUME NEW n \in NodeTasks, AbortNodeTask(n) PROVE RolloutInv'
  <2>1. Steady
    <3>1. \A k \in NodeTasks : /\ nodeTask'[k].owner = nodeTask[k].owner
                               /\ nodeTask'[k].machine = nodeTask[k].machine
                               /\ nodeTask'[k].state = nodeTask[k].state
      BY <1>2 DEF AbortNodeTask, NodeUpdateTask
    <3>2. UNCHANGED <<task, taskCache, machineCache>>
      BY <1>2 DEF AbortNodeTask, cacheVars
    <3>3. QED
      BY <3>1, <3>2 DEF Steady, Running, cacheVars
  <2>2. QED
    BY <1>2, <2>1, RolloutSteady DEF AbortNodeTask, Leave
<1>3. CASE AbortDone \/ NormalBlocked \/ NormalPreflightFails \/ NormalNothingToDo
  <2>1. Steady
    BY <1>3 DEF AbortDone, NormalBlocked, NormalPreflightFails, NormalNothingToDo, clusterVars,
       serverVars, Steady, Running, cacheVars
  <2>2. QED
    BY <1>3, <2>1, RolloutSteady DEF AbortDone, NormalBlocked, NormalPreflightFails,
       NormalNothingToDo, Leave
<1>4. ASSUME NEW m \in Machines, CreateNodeTask(m) PROVE RolloutInv'
  <2>1. ~SaysAborted(cur) /\ UNCHANGED <<task, taskCache, machineCache>>
    BY <1>4 DEF CreateNodeTask, cacheVars, WorkerOk, AbortedOk, Halted, Stopping, Exists
  <2>2. \A n \in NodeTasks : nodeTask'[n] = nodeTask[n] \/ nodeTask'[n].owner = cur
    BY <1>4 DEF CreateNodeTask
  <2>3. Steady
    BY <2>1, <2>2 DEF Steady, Running, cacheVars
  <2>4. QED
    BY <1>4, <2>3, RolloutSteady DEF CreateNodeTask, Leave
<1>5. CASE PatchMeta
  <2>1. obj'.state = obj.state /\ cur \in Tasks
    BY <1>5 DEF PatchMeta, Final, UpdateTask, WorkerOk
  <2>2. \A t \in Tasks : /\ task'[t].state = task[t].state
                         /\ task'[t].life = "Absent" => task'[t] = task[t]
                         /\ task[t].life # "Absent" => task'[t].life # "Absent"
    BY <1>5, <2>1 DEF PatchMeta, UpdateTask, Exists
  <2>3. Steady
    BY <1>5, <2>2 DEF PatchMeta, Steady, Running, cacheVars
  <2>4. QED
    BY <1>5, <2>1, <2>3, RolloutSteady DEF PatchMeta
<1>6. CASE PatchStatus
  <2>1. /\ UNCHANGED <<machine, nodeTask, taskCache, machineCache>>
        /\ pc' = "Idle" /\ cur' = NoTask /\ cur \in Tasks /\ task[cur].life # "Absent"
    BY <1>6, Constants DEF PatchStatus, EndPass, cacheVars, WorkerOk, RolloutInv, AbsentOk
  <2>2. UNCHANGED task \/ task' = [task EXCEPT ![cur].state = obj.state]
    BY <1>6 DEF PatchStatus
  <2>3. \A t \in Tasks : /\ task'[t].state = "Aborted" => SaysAborted(t)
                         /\ task'[t].life = task[t].life
                         /\ task[t].life = "Absent" => task'[t] = task[t]
    BY <2>1, <2>2 DEF SaysAborted, UpdateTask
  <2>4. QED
    BY <2>1, <2>3, RolloutIdle
<1>7. QED
  BY <1>1, <1>2, <1>3, <1>4, <1>5, <1>6 DEF ContinuePass

LEMMA RolloutManager ==
  ASSUME IInv, RolloutInv, SyncMachines \/ SyncTasks \/ Resync \/ Restart
  PROVE  RolloutInv'
<1> USE DEF clusterVars, serverVars, cacheVars
<1>1. CASE Restart
  BY <1>1, RolloutIdle DEF Restart, SaysAborted
<1>2. CASE ~Restart
  <2>1. /\ UNCHANGED <<task, machine, nodeTask, cur, pc, before, obj, machines, nodes>>
        /\ taskCache' \in {taskCache, task}
        /\ machineCache' \in {machineCache, machine}
    BY <1>2 DEF SyncMachines, SyncTasks, Resync, passVars
  <2>2. \A t \in Tasks : SaysAborted(t)' => SaysAborted(t)
    BY <2>1 DEF SaysAborted
  <2>3. \A m \in Machines : machineCache[m].life = "Gone" => machineCache'[m].life = "Gone"
    BY <2>1 DEF IInv, CachesOk
  <2>4. AbsentOk'
    BY <2>1 DEF RolloutInv, AbsentOk
  <2>5. CopyOk'
    BY <2>1, <2>3 DEF RolloutInv, CopyOk
  <2>6. pc # "Idle" => cur \in Tasks /\ (SaysAborted(cur)' => SaysAborted(cur))
    BY <2>1 DEF IInv, WorkerOk, SaysAborted
  <2>7. FirmOk'
    <3>1. ASSUME NEW t \in Tasks, SaysAborted(t)', NEW n \in NodeTasks, nodeTask[n].owner = t,
                 Running(n)
          PROVE  machineCache'[nodeTask[n].machine].life = "Gone"
      BY <2>2, <2>3, <3>1 DEF RolloutInv, FirmOk, IInv, NodeTasksOk, Running
    <3>2. QED
      BY <2>1, <2>6, <3>1 DEF RolloutInv, FirmOk, Running
  <2>8. ObjOk'
    BY <2>1, <2>6 DEF RolloutInv, ObjOk
  <2>9. QED
    BY <2>4, <2>5, <2>7, <2>8 DEF RolloutInv
<1>3. QED
  BY <1>1, <1>2

LEMMA RolloutEnvironment ==
  ASSUME IInv, RolloutInv, Environment, UNCHANGED <<queue, passVars>>
  PROVE  RolloutInv'
<1>1. Evolve
  BY EnvironmentEvolves DEF IInv, TypeOk
<1> DEFINE LivesOn == \A t \in Tasks : /\ task'[t].life = "Absent" => task'[t] = task[t]
                                       /\ task[t].life # "Absent" => task'[t].life # "Absent"
<1>2. LivesOn
  <2> USE DEF IInv, TypeOk, ClusterTypeOk, UpdateTask
  <2>1. CASE UNCHANGED task
    BY <2>1
  <2>2. ASSUME NEW t \in Tasks, CreateTask(t) PROVE LivesOn
    BY <2>2 DEF CreateTask
  <2>3. ASSUME NEW t \in Tasks, AbortTask(t) PROVE LivesOn
    BY <2>3 DEF AbortTask, Exists
  <2>4. ASSUME NEW t \in Tasks, DeleteTask(t) PROVE LivesOn
    BY <2>4 DEF DeleteTask
  <2>5. ASSUME NEW t \in Tasks, AbortOlderTask(t) PROVE LivesOn
    BY <2>5 DEF AbortOlderTask, Exists
  <2>6. QED
    BY <2>1, <2>2, <2>3, <2>4, <2>5 DEF Environment, UpdateHook, OtherActors, Surroundings,
       AnnotateMachine, ForgetUpToDate, JoinMachine, DeleteMachine, RemoveMachine, LoseHealth,
       RegainHealth, ReportProgress, CollectNodeTask
<1>3. Steady
  BY <1>1, <1>2 DEF Evolve, TasksEvolve, NodeTasksEvolve, NoNodeTask, Steady, Running, cacheVars
<1>4. QED
  BY <1>3, RolloutSteady DEF passVars

LEMMA RolloutNext == ASSUME IInv, RolloutInv, [Next]_vars PROVE RolloutInv'
<1>1. CASE UNCHANGED vars
  <2>1. Steady
    BY <1>1 DEF vars, clusterVars, serverVars, cacheVars, Steady, Running
  <2>2. QED
    BY <1>1, <2>1, RolloutSteady DEF vars, passVars
<1>2. CASE Manager
  BY <1>2, RolloutStartPass, RolloutReportState, RolloutContinuePass, RolloutManager
  DEF Manager, Work
<1>3. CASE Environment /\ UNCHANGED <<queue, passVars>>
  BY <1>3, RolloutEnvironment
<1>4. QED
  BY <1>1, <1>2, <1>3 DEF Next
-----------------------------------------------------------------------------
\* The state that a step stores is the one its pass has concluded.
LEMMA StatesStored ==
  ASSUME IInv, [Next]_vars, NEW t \in Tasks, task'[t].state # task[t].state
  PROVE  /\ t = cur /\ pc = "PatchStatus" /\ Exists(task[t])
         /\ task'[t].state = obj.state /\ obj.state # before.state
<1> USE DEF IInv, TypeOk, ClusterTypeOk
<1>1. CASE UNCHANGED task
  BY <1>1
<1>2. CASE PatchStatus
  BY <1>2 DEF PatchStatus, UpdateTask
<1>3. CASE PatchMeta
  BY <1>3 DEF PatchMeta, UpdateTask
<1>4. ASSUME NEW k \in Tasks, CreateTask(k) \/ AbortOlderTask(k) \/ AbortTask(k) \/ DeleteTask(k)
      PROVE  FALSE
  <2>1. task[k] \in UpdateTask
    OBVIOUS
  <2>2. \/ \E l \in Lives : task' = [task EXCEPT ![k].life = l]
        \/ task' = [task EXCEPT ![k].phase = "Abort"]
    BY <1>4 DEF CreateTask, AbortOlderTask, AbortTask, DeleteTask, Lives
  <2>3. task'[k].state = task[k].state /\ \A i \in Tasks \ {k} : task'[i] = task[i]
    BY <2>1, <2>2 DEF UpdateTask
  <2>4. QED
    BY <2>3
<1>5. CASE UNCHANGED vars
  BY <1>5 DEF vars, clusterVars, serverVars
<1>6. CASE Manager /\ ~PatchStatus /\ ~PatchMeta
  <2>1. UNCHANGED task
    BY <1>6 DEF Manager, Work, StartPass, ReconcileMissing, ReconcileFinalizer, OpenScope,
       ScopeError, ContinuePass, PatchMachine, ReportState, AbortNodeTask, AbortDone, NormalBlocked,
       NormalPreflightFails, NormalNothingToDo, CreateNodeTask, SyncMachines, SyncTasks, Resync,
       Restart, clusterVars, serverVars
  <2>2. QED
    BY <2>1
<1>7. CASE Environment
  <2>1. CASE \E k \in Tasks :
               CreateTask(k) \/ AbortOlderTask(k) \/ AbortTask(k) \/ DeleteTask(k)
    BY <1>4, <2>1
  <2>2. CASE UNCHANGED task
    BY <2>2
  <2>3. QED
    BY <1>7, <2>1, <2>2 DEF Environment, UpdateHook, OtherActors, Surroundings, AnnotateMachine,
       ForgetUpToDate, JoinMachine, DeleteMachine, RemoveMachine, LoseHealth, RegainHealth,
       ReportProgress, CollectNodeTask
<1>8. QED
  BY <1>2, <1>3, <1>5, <1>6, <1>7 DEF Next

\* Aborted is final, whatever the caches lag behind: what a pass stores over it is
\* Aborted again, because nothing it can list is in progress.
THEOREM AbortedStandsHolds == Spec => AbortedStands
<1>1. Init => IInv /\ RolloutInv
  BY InvInit, RolloutInit
<1>2. IInv /\ RolloutInv /\ [Next]_vars => (IInv /\ RolloutInv)'
  BY InvNext, RolloutNext
<1>3. ASSUME IInv, RolloutInv, [Next]_vars, NEW t \in Tasks, task[t].state = "Aborted"
      PROVE  task'[t].state = "Aborted"
  <2>1. SUFFICES ASSUME task'[t].state # task[t].state PROVE FALSE
    BY <1>3
  <2>2. t = cur /\ pc = "PatchStatus" /\ task'[t].state = obj.state /\ obj.state # before.state
    BY <1>3, <2>1, StatesStored
  <2>3. obj.state = "Aborted"
    BY <1>3, <2>2 DEF RolloutInv, ObjOk, SaysAborted
  <2>4. QED
    BY <1>3, <2>1, <2>2, <2>3
<1>4. IInv /\ RolloutInv /\ [Next]_vars =>
        \A t \in Tasks : task[t].state = "Aborted" => task'[t].state = "Aborted"
  BY <1>3
<1>5. QED
  BY <1>1, <1>2, <1>4, PTL DEF Spec, AbortedStands

-----------------------------------------------------------------------------
(* Updated stands, too, where no machine was misjudged.                    *)

\* Every node update that the task has, or that its pass has listed, is Updated,
\* unless its machine is gone for good, and for the copies as well.
Done(t) ==
  /\ \A n \in NodeTasks : nodeTask[n].owner = t /\ nodeTask[n].state # "Updated" =>
       machineCache[nodeTask[n].machine].life = "Gone"
  /\ cur = t /\ pc = "Machines" =>
       \A n \in NodeTasks : nodes[n].owner = t /\ nodes[n].state # "Updated" =>
         machines[nodes[n].machine].life = "Gone"

Misled(t) == \E m \in Machines : <<t, m>> \in misled

DoneOk == \A t \in Tasks : Exists(task[t]) /\ SaysUpdated(t) => Done(t) \/ Misled(t)

\* So no pass concludes that the task is in progress again.
StandsOk ==
  pc # "Idle" /\ obj.state # before.state /\ Exists(task[cur]) /\ SaysUpdated(cur) =>
    obj.state \in {"Updated", "Aborted"} \/ Misled(cur)

OutcomeInv == RolloutInv /\ DoneOk /\ StandsOk

\* What FinalizerInv says of the task is enough to keep others from starting
\* anything for it.
LEMMA NodeTasksStayDone ==
  ASSUME IInv, FinalizerInv, Calm, NEW t \in Tasks, Exists(task[t]), SaysUpdated(t), Done(t),
         ~Misled(t)', NEW n \in NodeTasks, nodeTask'[n].owner = t, nodeTask'[n].state # "Updated"
  PROVE  machineCache'[nodeTask'[n].machine].life = "Gone"
<1>1. Settled(t) /\ taskCache[t].life # "Gone" /\ t # NoTask
  BY Constants DEF FinalizerInv, SettledOk, ReleaseOk, Exists
<1>2. nodeTask'[n].owner = nodeTask[n].owner /\ nodeTask'[n].machine = nodeTask[n].machine
  <2>1. SUFFICES ASSUME <<t, nodeTask'[n].machine>> \in misled PROVE FALSE
    BY <1>1 DEF Calm
  <2>2. <<t, nodeTask'[n].machine>> \in misled' /\ nodeTask'[n].machine \in Machines
    BY <2>1 DEF Calm, IInv, TypeOk, ClusterTypeOk
  <2>3. QED
    BY <2>2 DEF Misled
<1>3. nodeTask[n].state # "Updated"
  <2>1. nodeTask[n].machine \in Machines
    BY <1>1, <1>2 DEF IInv, NodeTasksOk
  <2>2. <<t, nodeTask[n].machine>> \notin misled'
    BY <2>1 DEF Misled
  <2>3. QED
    BY <1>1, <1>2, <2>2 DEF Calm
<1>4. QED
  BY <1>2, <1>3 DEF Done, Calm

\* A calm step of or beside a pass.
LEMMA OutcomeCalm ==
  ASSUME IInv, FinalizerInv, OutcomeInv, RolloutInv', Calm, UNCHANGED <<cur, before>>,
         obj'.state = obj.state,
         \/ UNCHANGED <<pc, machines, nodes>>
         \/ pc \notin {"Idle", "Machines"} /\ pc' \in {"PatchMeta", "PatchStatus"},
         \A t \in Tasks :
           Exists(task'[t]) /\ SaysUpdated(t)' => Exists(task[t]) /\ SaysUpdated(t)
  PROVE  OutcomeInv'
<1>1. DoneOk'
  <2>1. SUFFICES ASSUME NEW t \in Tasks, Exists(task'[t]), SaysUpdated(t)', ~Misled(t)'
                 PROVE  Done(t)'
    BY DEF DoneOk, Exists
  <2>2. Exists(task[t]) /\ SaysUpdated(t) /\ Done(t)
    BY <2>1 DEF OutcomeInv, DoneOk, Misled, Calm
  <2>3. ASSUME NEW n \in NodeTasks, nodeTask'[n].owner = t, nodeTask'[n].state # "Updated"
        PROVE  machineCache'[nodeTask'[n].machine].life = "Gone"
    BY <2>1, <2>2, <2>3, NodeTasksStayDone
  <2>4. QED
    BY <2>2, <2>3 DEF Done
<1>2. StandsOk'
  <2>1. SUFFICES ASSUME pc' # "Idle", obj'.state # before'.state, Exists(task'[cur]),
                        SaysUpdated(cur)', ~Misled(cur)
                 PROVE  obj'.state \in {"Updated", "Aborted"}
    BY DEF StandsOk, Exists, SaysUpdated, Misled, Calm
  <2>2. pc # "Idle" /\ cur \in Tasks
    BY <2>1 DEF IInv, WorkerOk
  <2>3. Exists(task[cur]) /\ SaysUpdated(cur)
    BY <2>1, <2>2 DEF SaysUpdated
  <2>4. QED
    BY <2>1, <2>2, <2>3 DEF OutcomeInv, StandsOk
<1>3. QED
  BY <1>1, <1>2 DEF OutcomeInv

\* A step that brings news to the caches, stores a state, or ends the pass.
LEMMA OutcomeNews ==
  ASSUME IInv, OutcomeInv, RolloutInv', UNCHANGED <<machine, nodeTask, misled>>,
         \/ pc' = "Idle" /\ cur' = NoTask
         \/ UNCHANGED <<pc, cur, before, obj, machines, nodes>>,
         \A t \in Tasks :
           /\ task'[t].life = task[t].life
           /\ SaysUpdated(t)' => SaysUpdated(t),
         \A m \in Machines : machineCache'[m] \in {machineCache[m], machine[m]}
  PROVE  OutcomeInv'
<1>1. DoneOk'
  <2>1. SUFFICES ASSUME NEW t \in Tasks, Exists(task'[t]), SaysUpdated(t)', ~Misled(t)
                 PROVE  Done(t)'
    BY DEF DoneOk, Exists, Misled
  <2>2. Done(t) /\ t # NoTask
    BY <2>1, Constants DEF OutcomeInv, DoneOk, Exists
  <2>3. ASSUME NEW n \in NodeTasks, nodeTask[n].owner = t, nodeTask[n].state # "Updated"
        PROVE  machineCache'[nodeTask[n].machine].life = "Gone"
    BY <2>2, <2>3 DEF Done, IInv, NodeTasksOk, CachesOk
  <2>4. QED
    BY <2>2, <2>3 DEF Done
<1>2. StandsOk'
  BY DEF OutcomeInv, StandsOk, IInv, WorkerOk, Exists, SaysUpdated, Misled
<1>3. QED
  BY <1>1, <1>2 DEF OutcomeInv

LEMMA OutcomeInit == Init => OutcomeInv
BY RolloutInit DEF Init, ClusterInit, PassInit, OutcomeInv, DoneOk, StandsOk, AbsentTask, Exists

LEMMA OutcomeStartPass ==
  ASSUME IInv, HonestInv, OutcomeInv, RolloutInv', NEW t \in Tasks, StartPass(t)
  PROVE  OutcomeInv'
<1> USE DEF clusterVars, serverVars, cacheVars
<1>1. CASE ReconcileMissing(t)
  BY <1>1, OutcomeNews DEF ReconcileMissing, passVars, SaysUpdated
<1>2. CASE ~ReconcileMissing(t)
  <2>1. /\ UNCHANGED <<task, machine, nodeTask, taskCache, machineCache, misled>>
        /\ cur' = t /\ before' = taskCache[t] /\ obj'.state = taskCache[t].state
        /\ pc' \in {"PatchMeta", "Machines"} /\ pc = "Idle"
    BY <1>2 DEF StartPass, ReconcileFinalizer, OpenScope, ScopeError, Dequeue, Begin, IInv, TypeOk,
       ClusterTypeOk, UpdateTask
  <2>2. pc' = "Machines" =>
          /\ machines' = machineCache
          /\ nodes' = [n \in NodeTasks |-> IF nodeTask[n].owner = t THEN nodeTask[n] ELSE NoNodeTask]
    BY <1>2 DEF StartPass, ReconcileFinalizer, OpenScope, ScopeError
  <2>3. \A k \in Tasks : SaysUpdated(k)' => SaysUpdated(k)
    BY <2>1 DEF SaysUpdated
  <2>4. ASSUME NEW k \in Tasks, Exists(task[k]), SaysUpdated(k), ~Misled(k) PROVE Done(k)'
    <3>1. \A n \in NodeTasks : nodeTask[n].owner = k /\ nodeTask[n].state # "Updated" =>
            machineCache[nodeTask[n].machine].life = "Gone"
      BY <2>4 DEF OutcomeInv, DoneOk, Done
    <3>2. ASSUME cur' = k, pc' = "Machines", NEW n \in NodeTasks, nodes'[n].owner = k,
                 nodes'[n].state # "Updated"
          PROVE  machines'[nodes'[n].machine].life = "Gone"
      <4>1. nodes'[n] = nodeTask[n]
        BY <2>1, <2>2, <3>2, Constants DEF NoNodeTask
      <4>2. QED
        BY <2>2, <3>1, <3>2, <4>1
    <3>3. QED
      BY <2>1, <3>1, <3>2 DEF Done
  <2>5. DoneOk'
    BY <2>1, <2>3, <2>4 DEF DoneOk, Exists, Misled
  <2>6. StandsOk'
    BY <2>1 DEF StandsOk
  <2>7. QED
    BY <2>5, <2>6 DEF OutcomeInv
<1>3. QED
  BY <1>1, <1>2

\* A pass that works for a task said to be Updated finds it Updated again, unless
\* it is to stop it: then it finds nothing in progress.
LEMMA UpdatedAgain ==
  ASSUME IInv, FinalizerInv, OutcomeInv, pc = "Machines", Exists(task[cur]), SaysUpdated(cur),
         ~Misled(cur)
  PROVE  SummaryState(cur, before, machines, nodes) \in {"Updated", "Aborted"}
<1>1. cur \in Tasks /\ Exists(before) /\ ScopeOk
  BY DEF IInv, WorkerOk
<1>2. Settled(cur) /\ Done(cur)
  BY <1>1 DEF FinalizerInv, SettledOk, OutcomeInv, DoneOk
<1>3. ASSUME NEW m \in Machines, Exists(machines[m]), NEW n \in LatestNodeTasks(nodes, m)
      PROVE  nodes[n].state = "Updated"
  <2>1. nodes[n].machine = m /\ nodes[n].owner = cur
    BY <1>1, <1>3, Constants DEF LatestNodeTasks, ScopeOk, NoNodeTask
  <2>2. QED
    BY <1>2, <1>3, <2>1 DEF Done, Exists, LatestNodeTasks
<1>4. NoneInProgress(machines, nodes)
  BY <1>3 DEF NoneInProgress, Reports
<1>5. CASE Stopping(before)
  BY <1>4, <1>5 DEF SummaryState
<1>6. CASE ~Stopping(before)
  <2>1. PassCovered(cur)
    BY <1>1, <1>2, <1>6 DEF Settled, Halted, Stopping, Exists
  <2>2. ASSUME NEW m \in Machines, Exists(machines[m]),
               HasNodeTask(nodes, m) \/ InScope(machines[m], cur)
        PROVE  Reports(nodes, m, {"Updated"})
    <3>1. PICK n \in NodeTasks : nodes[n].machine = m
      BY <2>1, <2>2 DEF PassCovered, InScope, HasNodeTask, Misled
    <3>2. \A k \in NodeTasks : nodes[k].machine = m => k = n
      BY <1>1, <3>1, Constants DEF ScopeOk, NoNodeTask
    <3>3. n \in LatestNodeTasks(nodes, m)
      BY <3>1, <3>2, Constants DEF LatestNodeTasks
    <3>4. QED
      BY <1>3, <2>2, <3>3 DEF Reports
  <2>3. AllUpdated(cur, machines, nodes)
    BY <2>2 DEF AllUpdated
  <2>4. QED
    BY <1>6, <2>3 DEF SummaryState
<1>7. QED
  BY <1>5, <1>6

\* A pass that concludes Updated has counted every node update, but for those whose
\* machines its cache takes for gone.
LEMMA DoneDecision ==
  ASSUME IInv, OutcomeInv, pc = "Machines", AllUpdated(cur, machines, nodes),
         NEW n \in NodeTasks, nodeTask[n].owner = cur, nodeTask[n].state # "Updated"
  PROVE  machineCache[nodeTask[n].machine].life = "Gone"
<1> DEFINE m == nodes[n].machine
<1>1. ScopeOk /\ cur # NoTask
  BY Constants DEF IInv, WorkerOk
<1>2. /\ nodes[n].owner = cur /\ nodes[n].state # "Updated"
      /\ m \in Machines /\ m = nodeTask[n].machine /\ machines[m].life # "Absent"
  BY <1>1 DEF ScopeOk, IsTerminated
<1>3. \A k \in NodeTasks : nodes[k].machine = m => k = n
  BY <1>1, <1>2, Constants DEF ScopeOk, NoNodeTask
<1>4. HasNodeTask(nodes, m) /\ ~Reports(nodes, m, {"Updated"})
  BY <1>2, <1>3 DEF HasNodeTask, Reports, LatestNodeTasks
<1>5. ~Exists(machines[m])
  BY <1>2, <1>4 DEF AllUpdated
<1>6. machines[m].life \in Lives
  BY <1>2 DEF IInv, TypeOk, Machine
<1>7. machines[m].life = "Gone"
  BY <1>2, <1>5, <1>6 DEF Exists, Lives
<1>8. QED
  BY <1>2, <1>7 DEF OutcomeInv, RolloutInv, CopyOk

LEMMA OutcomeReportState ==
  ASSUME IInv, FinalizerInv, OutcomeInv, RolloutInv', ReportState
  PROVE  OutcomeInv'
<1>1. /\ UNCHANGED <<task, machine, nodeTask, taskCache, machineCache, cur, before, machines, nodes>>
      /\ pc = "Machines" /\ pc' \in {"Abort", "Normal"} /\ cur \in Tasks
      /\ obj'.state = SummaryState(cur, before, machines, nodes)
      /\ misled \subseteq misled'
  BY DEF ReportState, clusterVars, serverVars, cacheVars, IInv, TypeOk, WorkerOk, UpdateTask
<1>2. ASSUME NEW t \in Tasks, Exists(task[t]), SaysUpdated(t)', ~Misled(t)' PROVE Done(t)'
  <2>1. CASE SaysUpdated(t)
    BY <1>1, <1>2, <2>1 DEF OutcomeInv, DoneOk, Done, Misled
  <2>2. CASE ~SaysUpdated(t)
    <3>1. t = cur /\ SummaryState(cur, before, machines, nodes) = "Updated"
      BY <1>1, <1>2, <2>2 DEF SaysUpdated
    <3>2. AllUpdated(cur, machines, nodes)
      BY <3>1 DEF SummaryState
    <3>3. QED
      BY <1>1, <3>1, <3>2, DoneDecision DEF Done
  <2>3. QED
    BY <2>1, <2>2
<1>3. DoneOk'
  BY <1>1, <1>2 DEF DoneOk, Exists, Misled
<1>4. StandsOk'
  <2>1. SUFFICES ASSUME Exists(task[cur]), SaysUpdated(cur)', ~Misled(cur)
                 PROVE  obj'.state \in {"Updated", "Aborted"}
    BY <1>1 DEF StandsOk, Exists, SaysUpdated, Misled
  <2>2. SaysUpdated(cur) \/ obj'.state = "Updated"
    BY <1>1, <2>1 DEF SaysUpdated
  <2>3. QED
    BY <1>1, <2>1, <2>2, UpdatedAgain
<1>5. QED
  BY <1>3, <1>4 DEF OutcomeInv

LEMMA OutcomePass ==
  ASSUME IInv, HonestInv, FinalizerInv, OutcomeInv, RolloutInv', ContinuePass, ~ReportState
  PROVE  OutcomeInv'
<1>1. CASE PatchStatus
  <2>1. UNCHANGED <<machine, nodeTask, taskCache, machineCache, misled>>
        /\ pc' = "Idle" /\ cur' = NoTask /\ cur \in Tasks
    BY <1>1, Constants DEF PatchStatus, EndPass, cacheVars, IInv, WorkerOk
  <2>2. \A t \in Tasks : /\ task'[t].life = task[t].life
                         /\ \/ task'[t].state = task[t].state
                            \/ t = cur /\ task'[t].state = obj.state
    BY <1>1, <2>1 DEF PatchStatus, IInv, TypeOk, ClusterTypeOk, UpdateTask
  <2>3. \A t \in Tasks : SaysUpdated(t)' => SaysUpdated(t)
    BY <2>1, <2>2, Constants DEF SaysUpdated
  <2>4. QED
    BY <2>1, <2>2, <2>3, OutcomeNews
<1>2. CASE ~PatchStatus
  <2>1. Calm /\ UNCHANGED <<taskCache, machineCache>>
    BY PassCalm DEF Calm
  <2>2. /\ UNCHANGED <<cur, before>> /\ cur \in Tasks
        /\ \/ UNCHANGED <<pc, machines, nodes>>
           \/ pc \notin {"Idle", "Machines"} /\ pc' \in {"PatchMeta", "PatchStatus"}
    BY <1>2 DEF ContinuePass, PatchMachine, AbortNodeTask, AbortDone, NormalBlocked,
       NormalPreflightFails, NormalNothingToDo, CreateNodeTask, PatchMeta, Leave, IInv, WorkerOk
  <2>3. obj'.state = obj.state
    BY <1>2 DEF ContinuePass, PatchMachine, AbortNodeTask, AbortDone, NormalBlocked,
       NormalPreflightFails, NormalNothingToDo, CreateNodeTask, PatchMeta, Final, IInv, TypeOk,
       UpdateTask
  <2>4. \A t \in Tasks : /\ task'[t].state = task[t].state
                         /\ Exists(task'[t]) => Exists(task[t])
    <3>1. CASE PatchMeta
      BY <2>2, <3>1 DEF PatchMeta, IInv, TypeOk, ClusterTypeOk, UpdateTask, Exists
    <3>2. CASE ~PatchMeta
      BY <1>2, <3>2 DEF ContinuePass, PatchMachine, AbortNodeTask, AbortDone, NormalBlocked,
         NormalPreflightFails, NormalNothingToDo, CreateNodeTask, clusterVars, serverVars
    <3>3. QED
      BY <3>1, <3>2
  <2>5. \A t \in Tasks : Exists(task'[t]) /\ SaysUpdated(t)' => Exists(task[t]) /\ SaysUpdated(t)
    BY <2>1, <2>2, <2>3, <2>4 DEF SaysUpdated
  <2>6. QED
    BY <2>1, <2>2, <2>3, <2>5, OutcomeCalm
<1>3. QED
  BY <1>1, <1>2

LEMMA OutcomeManager ==
  ASSUME IInv, OutcomeInv, RolloutInv', SyncMachines \/ SyncTasks \/ Resync \/ Restart
  PROVE  OutcomeInv'
<1>1. /\ UNCHANGED <<task, machine, nodeTask, misled>>
      /\ taskCache' \in {taskCache, task} /\ machineCache' \in {machineCache, machine}
      /\ \/ UNCHANGED <<pc, cur, before, obj, machines, nodes>>
         \/ pc' = "Idle" /\ cur' = NoTask
  BY DEF SyncMachines, SyncTasks, Resync, Restart, serverVars, cacheVars, clusterVars, passVars
<1>2. \A t \in Tasks : SaysUpdated(t)' => SaysUpdated(t)
  BY <1>1, Constants DEF SaysUpdated
<1>3. QED
  BY <1>1, <1>2, OutcomeNews

LEMMA OutcomeEnvironment ==
  ASSUME IInv, HonestInv, FinalizerInv, OutcomeInv, RolloutInv', Environment,
         UNCHANGED <<queue, passVars>>
  PROVE  OutcomeInv'
BY FinalizerCollect, EnvironmentTasks, OutcomeCalm DEF passVars

LEMMA OutcomeNext ==
  ASSUME IInv, HonestInv, FinalizerInv, OutcomeInv, [Next]_vars
  PROVE  OutcomeInv'
<1>1. RolloutInv'
  BY RolloutNext DEF OutcomeInv
<1>2. CASE UNCHANGED vars
  <2>1. UNCHANGED <<task, machine, nodeTask, taskCache, machineCache, misled, pc, cur, before, obj,
                    machines, nodes>>
    BY <1>2 DEF vars, clusterVars, serverVars, cacheVars, passVars
  <2>2. \A t \in Tasks : SaysUpdated(t)' => SaysUpdated(t)
    BY <2>1 DEF SaysUpdated
  <2>3. QED
    BY <1>1, <2>1, <2>2, OutcomeNews
<1>3. CASE Manager
  BY <1>1, <1>3, OutcomeStartPass, OutcomeReportState, OutcomePass, OutcomeManager DEF Manager, Work
<1>4. CASE Environment /\ UNCHANGED <<queue, passVars>>
  BY <1>1, <1>4, OutcomeEnvironment
<1>5. QED
  BY <1>2, <1>3, <1>4 DEF Next

\* A terminated task is Updated, and found so again; or Aborted, for good.  Where a
\* later pass says Aborted over Updated it has read that the task is to stop, and
\* the task is to stop still.
LEMMA OutcomeStep ==
  ASSUME IInv, FinalizerInv, OutcomeInv, [Next]_vars, NEW t \in Tasks, IsTerminated(task[t].state)
  PROVE  \/ task'[t].state = task[t].state
         \/ task'[t].state = "Aborted" /\ Stopping(task[t])
         \/ task[t].state = "Updated" /\ Misled(t)
<1>1. SUFFICES ASSUME task'[t].state # task[t].state,
                      task[t].state = "Updated" => ~Misled(t)
               PROVE  task'[t].state = "Aborted" /\ Stopping(task[t])
  OBVIOUS
<1>2. /\ t = cur /\ pc = "PatchStatus" /\ Exists(task[t])
      /\ task'[t].state = obj.state /\ obj.state # before.state
  BY <1>1, StatesStored
<1>3. CASE task[t].state = "Aborted"
  BY <1>1, <1>2, <1>3 DEF OutcomeInv, RolloutInv, ObjOk, SaysAborted
<1>4. CASE task[t].state = "Updated"
  <2>1. obj.state \in {"Updated", "Aborted"}
    BY <1>1, <1>2, <1>4 DEF OutcomeInv, StandsOk, SaysUpdated
  <2>2. obj.state = "Aborted" /\ SaysAborted(t)
    BY <1>1, <1>2, <1>4, <2>1 DEF SaysAborted
  <2>3. Halted(taskCache[t])
    BY <2>2 DEF IInv, AbortedOk
  <2>4. Halted(task[t])
    BY <2>3 DEF IInv, CachesOk
  <2>5. QED
    BY <1>2, <2>2, <2>4 DEF Halted, Stopping, Exists
<1>5. task[t].state # "Failed"
  BY DEF FinalizerInv, ReleaseOk
<1>6. QED
  BY <1>3, <1>4, <1>5 DEF IsTerminated

\* The outcome of a task stands, whatever copies it is reconciled on afterwards:
\* Aborted always, Updated unless it was said with a machine left out, or the task
\* is stopped after all.
THEOREM OutcomeStandsHolds == Spec => OutcomeStands
<1> DEFINE Inv == IInv /\ HonestInv /\ FinalizerInv /\ OutcomeInv
<1>1. Init => Inv
  BY InvInit, HonestInit, FinalizerInit, OutcomeInit
<1>2. Inv /\ [Next]_vars => Inv'
  BY InvNext, HonestNext, FinalizerNext, OutcomeNext
<1>3. Inv /\ [Next]_vars =>
        \A t \in Tasks : IsTerminated(task[t].state) =>
          \/ task'[t].state = task[t].state
          \/ task'[t].state = "Aborted" /\ Stopping(task[t])
          \/ task[t].state = "Updated" /\ \E m \in Machines : <<t, m>> \in misled
  BY OutcomeStep DEF Misled
<1> HIDE DEF Inv
<1>4. QED
  BY <1>1, <1>2, <1>3, PTL DEF Spec, OutcomeStands

=============================================================================
