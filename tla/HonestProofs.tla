---------------------------- MODULE HonestProofs ----------------------------
(***************************************************************************)
(* A task reports Updated only when every machine that carries its          *)
(* annotation is, although the pass that decides it works on cached         *)
(* machines and on a listing that ages: except on machines whose annotation *)
(* its listing did not show.                                                *)
(***************************************************************************)
EXTENDS UpdateTaskProofs

Annotated(m, t) == Exists(machine[m]) /\ machine[m].running = t

\* Tasks and machines that are not there yet are blank, in the server, in the caches
\* and in the copies of a pass.
BlankOk ==
  /\ \A t \in Tasks :
       /\ task[t].life = "Absent" => task[t] = AbsentTask
       /\ taskCache[t].life = "Absent" => taskCache[t] = AbsentTask
       /\ taskCache[t].life # "Absent" => task[t].life # "Absent"
  /\ \A m \in Machines :
       /\ machine[m].life = "Absent" => machine[m].running = NoTask
       /\ machineCache[m].life = "Absent" => machineCache[m].running = NoTask
       /\ machines[m].life = "Absent" => machines[m].running = NoTask
  /\ cur # NoTask => task[cur].life # "Absent"

\* As long as its task exists a pass can rely on the node update tasks it listed.
ListingStands ==
  pc = "Machines" /\ Exists(task[cur]) =>
    \A n \in NodeTasks : nodes[n].owner = cur => nodeTask[n].owner = cur

Honest(t) ==
  \A m \in Machines : Annotated(m, t) =>
    \/ \E n \in NodeTasks :
         nodeTask[n].owner = t /\ nodeTask[n].machine = m /\ nodeTask[n].state = "Updated"
    \/ <<t, m>> \in misled

SaysUpdated(t) ==
  \/ task[t].state = "Updated"
  \/ taskCache[t].state = "Updated"
  \/ cur = t /\ obj.state = "Updated"

HonestOk == \A t \in Tasks : Exists(task[t]) /\ SaysUpdated(t) => Honest(t)

HonestInv == BlankOk /\ ListingStands /\ HonestOk

-----------------------------------------------------------------------------
(* Steps that leave alone what the invariant speaks of.                    *)

\* A task that exists goes on existing from before; annotated machines stay as
\* they are or are no longer annotated; node updates of existing tasks stay.
Gentle ==
  /\ \A t \in Tasks :
       /\ Exists(task'[t]) /\ SaysUpdated(t)' => Exists(task[t]) /\ SaysUpdated(t)
       /\ task[t].life # "Absent" => \A m \in Machines : Annotated(m, t)' => Annotated(m, t)
  /\ \A n \in NodeTasks :
       nodeTask[n].owner # NoTask /\ Exists(task[nodeTask[n].owner]) =>
         /\ nodeTask'[n].owner = nodeTask[n].owner
         /\ nodeTask'[n].machine = nodeTask[n].machine
         /\ nodeTask[n].state = "Updated" => nodeTask'[n].state = "Updated"
  /\ misled \subseteq misled'

LEMMA HonestGentle ==
  ASSUME IInv, HonestInv, Gentle, BlankOk',
         \/ pc' # "Machines"
         \/ UNCHANGED <<pc, cur, nodes>> /\ (Exists(task'[cur]) => Exists(task[cur]))
  PROVE  HonestInv'
<1>1. ListingStands'
  <2>1. SUFFICES ASSUME pc = "Machines", UNCHANGED <<pc, cur, nodes>>,
                        Exists(task'[cur]), Exists(task[cur])
                 PROVE  ListingStands'
    BY DEF ListingStands, Exists
  <2>2. cur \in Tasks /\ cur # NoTask
    BY <2>1, Constants DEF IInv, WorkerOk
  <2>3. QED
    BY <2>1, <2>2 DEF HonestInv, ListingStands, Gentle
<1>2. HonestOk'
  <2>1. SUFFICES ASSUME NEW t \in Tasks, Exists(task'[t]), SaysUpdated(t)', NEW m \in Machines,
                        Annotated(m, t)'
                 PROVE  \/ \E n \in NodeTasks :
                             nodeTask'[n].owner = t /\ nodeTask'[n].machine = m
                               /\ nodeTask'[n].state = "Updated"
                        \/ <<t, m>> \in misled'
    BY DEF HonestOk, Honest, Exists
  <2>2. Exists(task[t]) /\ Honest(t) /\ Annotated(m, t)
    BY <2>1 DEF Gentle, HonestInv, HonestOk, Exists
  <2>3. QED
    BY <2>2, Constants DEF Honest, Gentle
<1>3. QED
  BY <1>1, <1>2 DEF HonestInv

-----------------------------------------------------------------------------
(* What each step does.                                                    *)

LEMMA HonestInit == Init => HonestInv
BY Constants DEF Init, ClusterInit, PassInit, HonestInv, BlankOk, ListingStands, HonestOk,
   Annotated, SaysUpdated, AbsentTask, NoMachines, Exists

LEMMA HonestHook ==
  ASSUME IInv, HonestInv, UpdateHook, UNCHANGED <<queue, passVars>>
  PROVE  Gentle /\ BlankOk'
<1> USE DEF IInv, TypeOk, ClusterTypeOk, HonestInv, BlankOk, Gentle, Annotated, SaysUpdated, Exists,
    passVars, cacheVars
<1>1. ASSUME NEW m \in Machines, NEW t \in Tasks, AnnotateMachine(m, t) PROVE Gentle /\ BlankOk'
  BY <1>1 DEF AnnotateMachine, Machine
<1>2. ASSUME NEW m \in Machines, ForgetUpToDate(m) PROVE Gentle /\ BlankOk'
  BY <1>2 DEF ForgetUpToDate, Machine
<1>3. ASSUME NEW t \in Tasks, CreateTask(t) PROVE Gentle /\ BlankOk'
  <2>1. task[t] = AbsentTask /\ taskCache[t] = AbsentTask /\ cur # t
    BY <1>3, Constants DEF CreateTask
  <2>2. task'[t].life = "Live" /\ task'[t].state = "Unknown"
    BY <1>3, <2>1 DEF CreateTask, AbsentTask
  <2>3. \A k \in Tasks \ {t} : task'[k] = task[k]
    BY <1>3 DEF CreateTask
  <2>4. UNCHANGED <<machine, nodeTask, taskCache, machineCache, machines, misled, cur, obj>>
    BY <1>3 DEF CreateTask
  <2>5. BlankOk'
    BY <2>1, <2>2, <2>3, <2>4
  <2>6. ~SaysUpdated(t)'
    BY <2>1, <2>2, <2>4 DEF AbsentTask
  <2>7. Gentle
    BY <2>1, <2>2, <2>3, <2>4, <2>6
  <2>8. QED
    BY <2>5, <2>7
<1>4. ASSUME NEW t \in Tasks, AbortOlderTask(t) PROVE Gentle /\ BlankOk'
  BY <1>4 DEF AbortOlderTask, UpdateTask
<1>5. QED
  BY <1>1, <1>2, <1>3, <1>4 DEF UpdateHook

LEMMA HonestOthers ==
  ASSUME IInv, HonestInv, OtherActors, UNCHANGED <<queue, passVars>>
  PROVE  Gentle /\ BlankOk'
<1> USE DEF IInv, TypeOk, ClusterTypeOk, HonestInv, BlankOk, Gentle, Annotated, SaysUpdated, Exists,
    passVars, cacheVars
<1>1. ASSUME NEW t \in Tasks, AbortTask(t) PROVE Gentle /\ BlankOk'
  BY <1>1 DEF AbortTask, UpdateTask
<1>2. ASSUME NEW t \in Tasks, DeleteTask(t) PROVE Gentle /\ BlankOk'
  BY <1>2 DEF DeleteTask, UpdateTask
<1>3. ASSUME NEW m \in Machines, JoinMachine(m) PROVE Gentle /\ BlankOk'
  BY <1>3, Constants DEF JoinMachine, Machine
<1>4. ASSUME NEW m \in Machines, DeleteMachine(m) PROVE Gentle /\ BlankOk'
  BY <1>4 DEF DeleteMachine, Machine
<1>5. ASSUME NEW m \in Machines, RemoveMachine(m) PROVE Gentle /\ BlankOk'
  BY <1>5 DEF RemoveMachine, Machine
<1>6. ASSUME NEW m \in Machines, LoseHealth(m) PROVE Gentle /\ BlankOk'
  BY <1>6 DEF LoseHealth, Machine
<1>7. ASSUME NEW m \in Machines, RegainHealth(m) PROVE Gentle /\ BlankOk'
  BY <1>7 DEF RegainHealth, Machine
<1>8. ASSUME NEW n \in NodeTasks, NEW s \in States, ReportProgress(n, s) PROVE Gentle /\ BlankOk'
  BY <1>8 DEF ReportProgress, NodeUpdateTask, IsTerminated
<1>9. ASSUME NEW n \in NodeTasks, CollectNodeTask(n) PROVE Gentle /\ BlankOk'
  BY <1>9 DEF CollectNodeTask
<1>10. QED
  BY <1>1, <1>2, <1>3, <1>4, <1>5, <1>6, <1>7, <1>8, <1>9 DEF OtherActors, Surroundings

LEMMA HonestEnvironment ==
  ASSUME IInv, HonestInv, Environment, UNCHANGED <<queue, passVars>>
  PROVE  HonestInv'
<1>1. Gentle /\ BlankOk'
  BY HonestHook, HonestOthers DEF Environment
<1>2. pc = "Machines" /\ Exists(task'[cur]) => Exists(task[cur])
  <2>1. SUFFICES ASSUME pc = "Machines", Exists(task'[cur]), ~Exists(task[cur]) PROVE FALSE
    OBVIOUS
  <2>2. cur \in Tasks /\ task[cur].life = "Gone"
    BY <2>1, Constants DEF IInv, WorkerOk, HonestInv, BlankOk, Exists, TypeOk, ClusterTypeOk,
       UpdateTask, Lives
  <2>3. task'[cur].life = "Gone"
    BY <2>2 DEF IInv, TypeOk, ClusterTypeOk, UpdateTask, Environment, UpdateHook, OtherActors,
       Surroundings, AnnotateMachine, ForgetUpToDate, CreateTask, AbortOlderTask, AbortTask, DeleteTask,
       Exists,       JoinMachine, DeleteMachine, RemoveMachine, LoseHealth, RegainHealth, ReportProgress,
       CollectNodeTask
  <2>4. QED
    BY <2>1, <2>3 DEF Exists
<1>3. QED
  BY <1>1, <1>2, HonestGentle DEF passVars

\* A pass that begins knows, if it opens its scope, what the cache knows.
LEMMA HonestStartPass ==
  ASSUME IInv, HonestInv, NEW t \in Tasks, StartPass(t)
  PROVE  HonestInv'
<1> USE DEF clusterVars, serverVars, cacheVars
<1>1. CASE ReconcileMissing(t)
  <2>1. Gentle /\ BlankOk' /\ pc' # "Machines"
    BY <1>1 DEF ReconcileMissing, Dequeue, passVars, Gentle, Annotated, SaysUpdated, HonestInv,
       BlankOk, Exists
  <2>2. QED
    BY <2>1, HonestGentle
<1>2. CASE ~ReconcileMissing(t)
  <2>1. /\ UNCHANGED <<task, machine, nodeTask, taskCache, machineCache, misled>>
        /\ Exists(taskCache[t]) /\ cur' = t
        /\ machines' \in {machines, machineCache}
        /\ obj'.state = taskCache[t].state
        /\ pc' \in {"PatchMeta", "Machines"} /\ pc = "Idle"
    BY <1>2 DEF StartPass, ReconcileFinalizer, OpenScope, ScopeError, Dequeue, Begin, IInv, TypeOk,
       ClusterTypeOk, UpdateTask
  <2>2. BlankOk'
    BY <2>1 DEF HonestInv, BlankOk, Exists
  <2>3. Gentle
    BY <2>1 DEF Gentle, Annotated, SaysUpdated, Exists
  <2>4. CASE pc' = "PatchMeta"
    BY <2>1, <2>2, <2>3, <2>4, HonestGentle
  <2>5. CASE pc' = "Machines"
    <3>1. OpenScope(t)
      BY <1>2, <2>5 DEF StartPass, ReconcileFinalizer, ScopeError
    <3>2. /\ machines' = machineCache
          /\ nodes' = [n \in NodeTasks |-> IF nodeTask[n].owner = t THEN nodeTask[n] ELSE NoNodeTask]
      BY <3>1 DEF OpenScope
    <3>3. ListingStands'
      BY <2>1, <3>2, Constants DEF ListingStands, NoNodeTask, Exists
    <3>4. HonestOk'
      BY <2>1 DEF HonestInv, HonestOk, Honest, Annotated, SaysUpdated, Exists
    <3>5. QED
      BY <2>2, <3>3, <3>4 DEF HonestInv
  <2>6. QED
    BY <2>1, <2>4, <2>5
<1>3. QED
  BY <1>1, <1>2

\* The decision: if every machine the pass counted is Updated, so is every machine
\* that carries the annotation now, unless the listing does not show it.
LEMMA UpdatedDecision ==
  ASSUME IInv, HonestInv, pc = "Machines", Exists(task[cur]), AllUpdated(cur, machines, nodes),
         NEW m \in Machines, Annotated(m, cur), m \notin Unseen
  PROVE  \E n \in NodeTasks :
           nodeTask[n].owner = cur /\ nodeTask[n].machine = m /\ nodeTask[n].state = "Updated"
<1>1. cur \in Tasks /\ cur # NoTask
  BY Constants DEF IInv, WorkerOk
<1>2. Exists(machines[m]) /\ machines[m].running = cur
  <2>1. machines[m].running = cur
    BY DEF Unseen, InScope, Annotated
  <2>2. machines[m].life \in Lives /\ machines[m].life # "Absent"
    BY <1>1, <2>1 DEF HonestInv, BlankOk, IInv, TypeOk, Machine
  <2>3. machines[m].life # "Gone"
    BY DEF IInv, ScopeOk, Annotated, Exists
  <2>4. QED
    BY <2>1, <2>2, <2>3 DEF Lives, Exists
<1>3. PICK n \in NodeTasks : nodes[n].machine = m /\ nodes[n].state = "Updated"
  BY <1>2 DEF AllUpdated, InScope, Reports, LatestNodeTasks
<1>4. nodes[n].owner = cur
  BY <1>3, Constants DEF IInv, ScopeOk, NoNodeTask
<1>5. nodeTask[n].owner = cur
  BY <1>4 DEF HonestInv, ListingStands
<1>6. nodeTask[n].machine = m /\ nodeTask[n].state = "Updated"
  BY <1>3, <1>5 DEF IInv, ScopeOk, IsTerminated
<1>7. QED
  BY <1>5, <1>6

LEMMA HonestReportState == ASSUME IInv, HonestInv, ReportState PROVE HonestInv'
<1>1. /\ UNCHANGED <<task, machine, nodeTask, taskCache, machineCache, machines, cur>>
      /\ pc = "Machines" /\ pc' # "Machines"
      /\ obj'.state = SummaryState(cur, before, machines, nodes)
      /\ misled \subseteq misled'
      /\ obj'.state = "Updated" => {cur} \X Unseen \subseteq misled'
  BY DEF ReportState, serverVars, IInv, TypeOk, UpdateTask
<1>2. BlankOk' /\ ListingStands'
  BY <1>1 DEF HonestInv, BlankOk, ListingStands
<1>3. HonestOk'
  <2>1. SUFFICES ASSUME NEW t \in Tasks, Exists(task[t]), SaysUpdated(t)' PROVE Honest(t)'
    BY <1>1 DEF HonestOk, Exists
  <2>2. CASE SaysUpdated(t)
    BY <1>1, <2>1, <2>2 DEF HonestInv, HonestOk, Honest, Annotated, Exists
  <2>3. CASE ~SaysUpdated(t)
    <3>1. cur = t /\ obj'.state = "Updated"
      BY <1>1, <2>1, <2>3 DEF SaysUpdated
    <3>2. AllUpdated(cur, machines, nodes)
      BY <1>1, <3>1 DEF SummaryState
    <3>3. \A m \in Unseen : <<t, m>> \in misled'
      BY <1>1, <3>1
    <3>4. QED
      BY <1>1, <2>1, <3>1, <3>2, <3>3, UpdatedDecision DEF Honest, Annotated, Exists
  <2>4. QED
    BY <2>2, <2>3
<1>4. QED
  BY <1>2, <1>3 DEF HonestInv

\* The other steps of a pass change nothing that matters here.
LEMMA HonestPass ==
  ASSUME IInv, HonestInv, ContinuePass, ~ReportState
  PROVE  HonestInv'
<1> USE DEF IInv, TypeOk, ClusterTypeOk, HonestInv, Exists
<1>1. /\ UNCHANGED <<taskCache, machineCache, misled>>
      /\ \A m \in Machines : machines'[m].life = "Absent" => machines'[m].running = NoTask
  BY DEF BlankOk, NoMachines, Leave, EndPass, ContinuePass, PatchMachine, AbortNodeTask, AbortDone, NormalBlocked, NormalPreflightFails,
     NormalNothingToDo, CreateNodeTask, PatchMeta, PatchStatus, clusterVars, serverVars, cacheVars
<1>2. ASSUME NEW m \in Machines, PatchMachine(m) PROVE HonestInv'
  <2>1. UNCHANGED <<task, nodeTask, pc, cur, obj, machines, nodes>>
    BY <1>2 DEF PatchMachine
  <2>2. \A k \in Machines :
          machine'[k].life = machine[k].life /\ machine'[k].running = machine[k].running
    BY <1>2 DEF PatchMachine, Machine
  <2>3. Gentle /\ BlankOk'
    BY <1>1, <2>1, <2>2 DEF Gentle, BlankOk, Annotated, SaysUpdated
  <2>4. QED
    BY <1>1, <2>1, <2>3, HonestGentle
<1>3. ASSUME NEW n \in NodeTasks, AbortNodeTask(n) PROVE HonestInv'
  <2>1. UNCHANGED <<task, machine, cur, obj, taskCache>> /\ pc' # "Machines"
    BY <1>3 DEF AbortNodeTask, Leave, cacheVars
  <2>2. \A k \in NodeTasks : /\ nodeTask'[k].owner = nodeTask[k].owner
                             /\ nodeTask'[k].machine = nodeTask[k].machine
                             /\ nodeTask'[k].state = nodeTask[k].state
    BY <1>3 DEF AbortNodeTask, NodeUpdateTask
  <2>3. Gentle /\ BlankOk'
    BY <1>1, <2>1, <2>2 DEF Gentle, BlankOk, Annotated, SaysUpdated
  <2>4. QED
    BY <1>1, <2>1, <2>3, HonestGentle
<1>4. CASE AbortDone \/ NormalBlocked \/ NormalPreflightFails \/ NormalNothingToDo
  <2>1. UNCHANGED <<task, machine, nodeTask, cur, obj, taskCache>> /\ pc' # "Machines"
    BY <1>4 DEF AbortDone, NormalBlocked, NormalPreflightFails, NormalNothingToDo, Leave,
       clusterVars, serverVars, cacheVars
  <2>2. Gentle /\ BlankOk'
    BY <1>1, <2>1 DEF Gentle, BlankOk, Annotated, SaysUpdated
  <2>3. QED
    BY <1>1, <2>1, <2>2, HonestGentle
<1>5. ASSUME NEW m \in Machines, CreateNodeTask(m) PROVE HonestInv'
  <2>1. UNCHANGED <<task, machine, cur, obj, taskCache>> /\ pc' # "Machines"
    BY <1>5 DEF CreateNodeTask, Leave, cacheVars
  <2>2. \A k \in NodeTasks : nodeTask[k].owner # NoTask => nodeTask'[k] = nodeTask[k]
    BY <1>5 DEF CreateNodeTask
  <2>3. Gentle /\ BlankOk'
    BY <1>1, <2>1, <2>2 DEF Gentle, BlankOk, Annotated, SaysUpdated
  <2>4. QED
    BY <1>1, <2>1, <2>3, HonestGentle
<1>6. CASE PatchMeta
  <2>1. UNCHANGED <<machine, nodeTask, cur, taskCache>> /\ pc' # "Machines"
    BY <1>6 DEF PatchMeta, cacheVars
  <2>2. obj'.state = obj.state /\ cur \in Tasks
    BY <1>6 DEF PatchMeta, Final, UpdateTask, WorkerOk
  <2>3. \A t \in Tasks : /\ task'[t].state = task[t].state
                         /\ Exists(task'[t]) => Exists(task[t])
                         /\ task'[t].life = "Absent" => task'[t] = task[t]
                         /\ task[t].life # "Absent" => task'[t].life # "Absent"
    <3>1. \/ UNCHANGED task
          \/ /\ Exists(task[cur])
             /\ \E f \in {obj'.finalizers}, l \in {"Gone", task[cur].life} :
                  task' = [task EXCEPT ![cur].finalizers = f, ![cur].life = l]
      BY <1>6 DEF PatchMeta
    <3>2. CASE UNCHANGED task
      BY <3>2
    <3>3. ASSUME Exists(task[cur]),
                 NEW f, NEW l \in {"Gone", task[cur].life},
                 task' = [task EXCEPT ![cur].finalizers = f, ![cur].life = l],
                 NEW t \in Tasks
          PROVE  /\ task'[t].state = task[t].state
                 /\ Exists(task'[t]) => Exists(task[t])
                 /\ task'[t].life = "Absent" => task'[t] = task[t]
                 /\ task[t].life # "Absent" => task'[t].life # "Absent"
      <4>1. CASE t # cur
        BY <3>3, <4>1
      <4>2. CASE t = cur
        <5>1. /\ task'[t].state = task[t].state
              /\ task'[t].life = l
          BY <2>2, <3>3, <4>2 DEF UpdateTask
        <5>2. QED
          BY <3>3, <4>2, <5>1
      <4>3. QED
        BY <4>1, <4>2
    <3>4. QED
      BY <3>1, <3>2, <3>3
  <2>4. BlankOk'
    BY <1>1, <2>1, <2>3, Constants DEF BlankOk
  <2>5. \A t \in Tasks : SaysUpdated(t)' => SaysUpdated(t)
    BY <1>1, <2>1, <2>2, <2>3 DEF SaysUpdated
  <2>6. \A t \in Tasks, m \in Machines : Annotated(m, t)' => Annotated(m, t)
    BY <2>1 DEF Annotated
  <2>7. Gentle
    BY <1>1, <2>1, <2>3, <2>5, <2>6 DEF Gentle
  <2>8. QED
    BY <1>1, <2>1, <2>4, <2>7, HonestGentle
<1>7. CASE PatchStatus
  <2>1. UNCHANGED <<machine, nodeTask, taskCache>> /\ pc' # "Machines" /\ cur' = NoTask
    BY <1>7 DEF PatchStatus, EndPass, cacheVars
  <2>2. cur \in Tasks
    BY <1>7 DEF PatchStatus, WorkerOk
  <2>3. \A t \in Tasks : /\ task'[t].state = task[t].state \/ (t = cur /\ task'[t].state = obj.state)
                         /\ task'[t].life = task[t].life
                         /\ task'[t].life = "Absent" => task'[t] = task[t]
    BY <1>7, <2>2 DEF PatchStatus, UpdateTask
  <2>4. BlankOk'
    BY <1>1, <2>1, <2>3, Constants DEF BlankOk
  <2>5. \A t \in Tasks : SaysUpdated(t)' => SaysUpdated(t)
    BY <1>1, <2>1, <2>2, <2>3, Constants DEF SaysUpdated
  <2>6. \A t \in Tasks, m \in Machines : Annotated(m, t)' => Annotated(m, t)
    BY <2>1 DEF Annotated
  <2>7. Gentle
    BY <1>1, <2>1, <2>3, <2>5, <2>6 DEF Gentle
  <2>8. QED
    BY <1>1, <2>1, <2>4, <2>7, HonestGentle
<1>8. QED
  BY <1>2, <1>3, <1>4, <1>5, <1>6, <1>7 DEF ContinuePass

\* The informers and the manager.
LEMMA HonestManager ==
  ASSUME IInv, HonestInv, SyncMachines \/ SyncTasks \/ Resync \/ Restart
  PROVE  HonestInv'
<1>1. /\ UNCHANGED <<task, machine, nodeTask, misled>>
      /\ taskCache' \in {taskCache, task}
      /\ machineCache' \in {machineCache, machine}
      /\ \/ UNCHANGED <<pc, cur, obj, machines, nodes>>
         \/ pc' = "Idle" /\ cur' = NoTask /\ machines' = NoMachines
  BY DEF SyncMachines, SyncTasks, Resync, Restart, serverVars, cacheVars, clusterVars, passVars
<1>2. BlankOk'
  BY <1>1 DEF HonestInv, BlankOk, NoMachines
<1>3. ListingStands'
  BY <1>1 DEF HonestInv, ListingStands
<1>4. \A t \in Tasks : SaysUpdated(t)' => SaysUpdated(t)
  BY <1>1, Constants DEF SaysUpdated
<1>5. HonestOk'
  BY <1>1, <1>4 DEF HonestInv, HonestOk, Honest, Annotated, Exists
<1>6. QED
  BY <1>2, <1>3, <1>5 DEF HonestInv

LEMMA HonestNext == ASSUME IInv, HonestInv, [Next]_vars PROVE HonestInv'
<1>1. CASE UNCHANGED vars
  BY <1>1 DEF vars, clusterVars, serverVars, cacheVars, passVars, HonestInv, BlankOk,
     ListingStands, HonestOk, Honest, Annotated, SaysUpdated, Exists
<1>2. CASE Manager
  BY <1>2, HonestStartPass, HonestReportState, HonestPass, HonestManager DEF Manager, Work
<1>3. CASE Environment /\ UNCHANGED <<queue, passVars>>
  BY <1>3, HonestEnvironment
<1>4. QED
  BY <1>1, <1>2, <1>3 DEF Next

-----------------------------------------------------------------------------
\* A task never reports Updated while a machine that carries its annotation has no
\* Updated node update, whatever calls fail, whatever machines come and go, however
\* far the caches trail and wherever the manager is restarted: except where the pass
\* that said so had not seen the annotation.
THEOREM UpdatedIsHonestHolds == Spec => []UpdatedIsHonest
<1>1. IInv /\ HonestInv => UpdatedIsHonest
  BY DEF HonestInv, HonestOk, Honest, SaysUpdated, Annotated, UpdatedIsHonest
<1>2. Init => IInv /\ HonestInv
  BY InvInit, HonestInit
<1>3. IInv /\ HonestInv /\ [Next]_vars => (IInv /\ HonestInv)'
  BY InvNext, HonestNext
<1>4. QED
  BY <1>1, <1>2, <1>3, PTL DEF Spec

=============================================================================
