-------------------------- MODULE UpdateTaskProofs --------------------------
(***************************************************************************)
(* Safety of the UpdateTask controller for any number of tasks, machines   *)
(* and node update tasks, any number of failures, and whatever the caches  *)
(* lag behind.                                                             *)
(***************************************************************************)
EXTENDS UpdateTaskProperties, TLAPS

-----------------------------------------------------------------------------
(* The inductive invariant.                                                *)

\* Once true of a task in the server, and hence in the cache, it stays true.
Halted(o) == o.life \in {"Deleting", "Gone"} \/ o.phase = "Abort"

\* The worker has a task exactly during a pass, read while the task existed;
\* what it read is no newer than the cache, and decides the branch it takes.
WorkerOk ==
  /\ pc = "Idle" => cur = NoTask
  /\ pc # "Idle" => /\ cur \in Tasks
                    /\ Exists(before)
                    /\ Halted(before) => Halted(taskCache[cur])
  /\ pc = "Abort" => Stopping(before)
  /\ pc = "Normal" => ~Stopping(before)

\* The caches are behind the server, never ahead of it.
CachesOk ==
  /\ \A t \in Tasks : Halted(taskCache[t]) => Halted(task[t])
  /\ \A m \in Machines :
       /\ machineCache[m].life # "Absent" => machine[m].life # "Absent"
       /\ machineCache[m].life = "Gone" => machine[m].life = "Gone"

\* A node update task names a machine the manager has heard of, and is asked to
\* abort only for a task that the manager knows is being stopped.
NodeTasksOk ==
  \A n \in NodeTasks : nodeTask[n].owner # NoTask =>
    /\ nodeTask[n].machine \in Machines
    /\ machineCache[nodeTask[n].machine].life # "Absent"
    /\ nodeTask[n].state = "Aborted" => nodeTask[n].phase = "Abort"
    /\ nodeTask[n].phase = "Abort" =>
         /\ Halted(taskCache[nodeTask[n].owner])
         /\ cur = nodeTask[n].owner => Halted(before)

\* While a pass uses its copies: they cover every node update task that the
\* task has now, terminal states in them are still true, and machines that
\* were unknown or gone then are accounted for now.
ScopeOk ==
  pc \in {"Machines", "Abort", "Normal"} =>
    /\ \A n \in NodeTasks :
         /\ nodes[n].owner = cur \/ nodes[n] = NoNodeTask
         /\ nodes[n].owner = cur => nodes[n].machine \in Machines
                                     /\ machines[nodes[n].machine].life # "Absent"
         /\ nodeTask[n].owner = cur => nodes[n].owner = cur
                                        /\ nodes[n].machine = nodeTask[n].machine
         /\ nodeTask[n].owner = cur /\ IsTerminated(nodes[n].state)
              => nodeTask[n].state = nodes[n].state
    /\ \A n, k \in NodeTasks :
         nodes[n].owner = cur /\ nodes[k].owner = cur /\ nodes[n].machine = nodes[k].machine
           => n = k
    /\ \A m \in Machines :
         /\ machines[m].life # "Absent" => machineCache[m].life # "Absent"
         /\ machines[m].life = "Gone" => machine[m].life = "Gone"

\* Aborted, wherever it is stored or about to be stored, is final: the task is
\* known to be stopped, so no pass can start a node update for it again.
SaysAborted(t) ==
  \/ task[t].state = "Aborted"
  \/ taskCache[t].state = "Aborted"
  \/ cur = t /\ obj.state = "Aborted"

AbortedOk ==
  \A t \in Tasks : SaysAborted(t) =>
    /\ Quiet(t)
    /\ Halted(taskCache[t])
    /\ cur = t => Halted(before)

IInv ==
  /\ TypeOk
  /\ WorkerOk
  /\ CachesOk
  /\ NodeTasksOk
  /\ ScopeOk
  /\ OneNodeTaskPerMachine
  /\ SerialUpdate
  /\ AbortedOk

\* What the assumptions on the constants are used for.
LEMMA Constants ==
  /\ NoTask \notin Tasks
  /\ NoMachine \notin Machines
  /\ \A n \in NodeTasks : n \in Nat
  /\ \A m \in Machines : m \in Nat
  /\ MaxChurn \in Nat /\ MaxFaults \in Nat
BY ClusterAssumption DEF ClusterAssumption, NoMachine

-----------------------------------------------------------------------------
(* Types.                                                                  *)

LEMMA DisturbType == ASSUME churn \in 0..MaxChurn, Disturb PROVE churn' \in 0..MaxChurn
BY Constants DEF Disturb

LEMMA FaultType == ASSUME faults \in 0..MaxFaults, Fault PROVE faults' \in 0..MaxFaults
BY Constants DEF Fault

\* The records the model starts from and resets to are well formed.
LEMMA RecordTypes ==
  /\ AbsentTask \in UpdateTask
  /\ NoNodeTask \in NodeUpdateTask
  /\ NoMachines \in [Machines -> Machine]
  /\ NoNodes \in [NodeTasks -> NodeUpdateTask]
BY DEF AbsentTask, UpdateTask, NoNodeTask, NodeUpdateTask, NoMachines, NoNodes, Machine,
       Lives, Phases, States, UpToDateValues

LEMMA TypeInit == Init => TypeOk
<1>1. SUFFICES ASSUME Init PROVE TypeOk
  OBVIOUS
<1>2. ClusterTypeOk
  BY <1>1, RecordTypes, Constants
  DEF Init, ClusterInit, ClusterTypeOk, Machine, Lives, UpToDateValues
<1>3. QED
  BY <1>1, <1>2, RecordTypes DEF Init, PassInit, TypeOk, Locations

\* A machine whose fields are changed one at a time keeps its type.
LEMMA MachineUpdates ==
  ASSUME NEW o \in Machine
  PROVE  /\ \A t \in Tasks : [o EXCEPT !.running = t] \in Machine
         /\ \A c \in UpToDateValues : [o EXCEPT !.upToDate = c] \in Machine
         /\ \A l \in Lives : [o EXCEPT !.life = l] \in Machine
         /\ \A h \in {"Healthy", "Unhealthy"} : [o EXCEPT !.health = h] \in Machine
<1>1. ASSUME NEW t \in Tasks PROVE [o EXCEPT !.running = t] \in Machine
  BY DEF Machine
<1>2. ASSUME NEW c \in UpToDateValues PROVE [o EXCEPT !.upToDate = c] \in Machine
  BY DEF Machine
<1>3. ASSUME NEW l \in Lives PROVE [o EXCEPT !.life = l] \in Machine
  BY DEF Machine
<1>4. ASSUME NEW h \in {"Healthy", "Unhealthy"} PROVE [o EXCEPT !.health = h] \in Machine
  BY DEF Machine
<1>5. QED
  BY <1>1, <1>2, <1>3, <1>4

\* So does a node update.
LEMMA NodeTaskUpdates ==
  ASSUME NEW o \in NodeUpdateTask
  PROVE  /\ [o EXCEPT !.phase = "Abort"] \in NodeUpdateTask
         /\ \A s \in States : [o EXCEPT !.state = s] \in NodeUpdateTask
<1>1. [o EXCEPT !.phase = "Abort"] \in NodeUpdateTask
  BY DEF NodeUpdateTask, Phases
<1>2. ASSUME NEW s \in States PROVE [o EXCEPT !.state = s] \in NodeUpdateTask
  BY DEF NodeUpdateTask
<1>3. QED
  BY <1>1, <1>2

\* A node update task of a task names a machine (NodeTasksOk).
NodeTasksNamed == \A n \in NodeTasks :
  nodeTask[n].owner # NoTask => nodeTask[n].machine \in Machines

LEMMA CollectType ==
  ASSUME ClusterTypeOk, NodeTasksNamed, NEW n \in NodeTasks, CollectNodeTask(n)
  PROVE  /\ nodeTask' \in [NodeTasks -> NodeUpdateTask]
         /\ misled' \in SUBSET (Tasks \X Machines)
         /\ churn' \in 0..MaxChurn
<1>1. PICK t \in Tasks :
        /\ nodeTask[n].owner = t /\ task[t].life = "Gone"
        /\ \/ UNCHANGED <<misled, churn>>
           \/ Disturb /\ misled' = misled \cup {<<t, nodeTask[n].machine>>}
  BY DEF CollectNodeTask
<1>2. nodeTask' \in [NodeTasks -> NodeUpdateTask]
  BY RecordTypes DEF CollectNodeTask, ClusterTypeOk
<1>3. nodeTask[n].machine \in Machines
  BY <1>1, Constants DEF NodeTasksNamed
<1>4. QED
  BY <1>1, <1>2, <1>3, DisturbType DEF ClusterTypeOk

\* The environment leaves the controller alone and the cluster well formed.
LEMMA TypeEnvironment ==
  ASSUME ClusterTypeOk, NodeTasksNamed, Environment
  PROVE  ClusterTypeOk'
<1> USE DEF ClusterTypeOk, cacheVars
<1> "None" \in UpToDateValues /\ {"Live", "Deleting", "Gone"} \subseteq Lives
  BY DEF UpToDateValues, Lives
<1>1. ASSUME NEW m \in Machines, NEW t \in Tasks, AnnotateMachine(m, t) PROVE ClusterTypeOk'
  <2>1. [machine[m] EXCEPT !.running = t] \in Machine
    BY MachineUpdates
  <2>2. QED
    BY <1>1, <2>1 DEF AnnotateMachine
<1>2. ASSUME NEW m \in Machines, ForgetUpToDate(m) PROVE ClusterTypeOk'
  <2>1. [machine[m] EXCEPT !.upToDate = "None"] \in Machine
    BY MachineUpdates
  <2>2. QED
    BY <1>2, <2>1 DEF ForgetUpToDate
<1>3. ASSUME NEW t \in Tasks, CreateTask(t) PROVE ClusterTypeOk'
  BY <1>3 DEF CreateTask, UpdateTask, Lives
<1>4. ASSUME NEW t \in Tasks, AbortTask(t) PROVE ClusterTypeOk'
  BY <1>4, DisturbType DEF AbortTask, UpdateTask, Phases
<1>5. ASSUME NEW t \in Tasks, DeleteTask(t) PROVE ClusterTypeOk'
  BY <1>5, DisturbType DEF DeleteTask, UpdateTask, Lives
<1>6. ASSUME NEW m \in Machines, JoinMachine(m) PROVE ClusterTypeOk'
  <2>1. [machine[m] EXCEPT !.life = "Live"] \in Machine
    BY MachineUpdates
  <2>2. QED
    BY <1>6, <2>1, DisturbType DEF JoinMachine
<1>7. ASSUME NEW m \in Machines, DeleteMachine(m) PROVE ClusterTypeOk'
  <2>1. [machine[m] EXCEPT !.life = "Deleting"] \in Machine
    BY MachineUpdates
  <2>2. QED
    BY <1>7, <2>1, DisturbType DEF DeleteMachine
<1>8. ASSUME NEW m \in Machines, RemoveMachine(m) PROVE ClusterTypeOk'
  <2>1. [machine[m] EXCEPT !.life = "Gone"] \in Machine
    BY MachineUpdates
  <2>2. QED
    BY <1>8, <2>1 DEF RemoveMachine
<1>9. ASSUME NEW m \in Machines, LoseHealth(m) PROVE ClusterTypeOk'
  <2>1. [machine[m] EXCEPT !.health = "Unhealthy"] \in Machine
    BY MachineUpdates
  <2>2. QED
    BY <1>9, <2>1, DisturbType DEF LoseHealth
<1>10. ASSUME NEW m \in Machines, RegainHealth(m) PROVE ClusterTypeOk'
  <2>1. [machine[m] EXCEPT !.health = "Healthy"] \in Machine
    BY MachineUpdates
  <2>2. QED
    BY <1>10, <2>1 DEF RegainHealth
<1>11. ASSUME NEW n \in NodeTasks, NEW s \in States, ReportProgress(n, s) PROVE ClusterTypeOk'
  <2>1. [nodeTask[n] EXCEPT !.state = s] \in NodeUpdateTask
    BY NodeTaskUpdates
  <2>2. QED
    BY <1>11, <2>1 DEF ReportProgress
<1>12. ASSUME NEW n \in NodeTasks, CollectNodeTask(n) PROVE ClusterTypeOk'
  BY <1>12, CollectType DEF CollectNodeTask
<1>13. ASSUME NEW t \in Tasks, AbortOlderTask(t) PROVE ClusterTypeOk'
  BY <1>13 DEF AbortOlderTask, UpdateTask, Phases
<1>14. QED
  BY <1>1, <1>2, <1>3, <1>4, <1>5, <1>6, <1>7, <1>8, <1>9, <1>10, <1>11, <1>12, <1>13
  DEF Environment, UpdateHook, OtherActors, Surroundings

LEMMA WantedType ==
  ASSUME NEW ns \in [NodeTasks -> NodeUpdateTask], NEW m \in Machines,
         NEW old \in UpToDateValues, NEW c \in WantedUpToDate(ns, m, old)
  PROVE  c \in UpToDateValues
<1>1. CASE HasNodeTask(ns, m)
  <2>1. PICK n \in LatestNodeTasks(ns, m) :
          c = CASE ns[n].state = "Updated" -> "True"
                [] ns[n].state = "Unknown" -> old
                [] OTHER -> ns[n].state
    BY <1>1 DEF WantedUpToDate
  <2>2. ns[n].state \in States
    BY DEF LatestNodeTasks, NodeUpdateTask
  <2>3. QED
    BY <2>1, <2>2 DEF States, UpToDateValues
<1>2. CASE ~HasNodeTask(ns, m)
  BY <1>2 DEF WantedUpToDate, UpToDateValues
<1>3. QED
  BY <1>1, <1>2

LEMMA FinalType == ASSUME NEW o \in UpdateTask PROVE Final(o) \in UpdateTask
BY DEF Final, UpdateTask

LEMMA TypeStartPass ==
  ASSUME TypeOk, NEW t \in Tasks, StartPass(t)
  PROVE  TypeOk'
<1> USE DEF TypeOk, ClusterTypeOk, clusterVars, serverVars, cacheVars, Locations
<1>1. CASE ReconcileMissing(t)
  BY <1>1 DEF ReconcileMissing, Dequeue, passVars
<1>2. CASE ReconcileFinalizer(t)
  BY <1>2 DEF ReconcileFinalizer, Dequeue, Begin, UpdateTask
<1>3. CASE OpenScope(t)
  <2>1. nodes' \in [NodeTasks -> NodeUpdateTask]
    BY <1>3, RecordTypes DEF OpenScope
  <2>2. todo' \in SUBSET Machines
    BY <1>3 DEF OpenScope, MachinesToPatch
  <2>3. QED
    BY <1>3, <2>1, <2>2 DEF OpenScope, Dequeue, Begin
<1>4. CASE ScopeError(t)
  BY <1>4, FaultType DEF ScopeError, Dequeue, Begin
<1>5. QED
  BY <1>1, <1>2, <1>3, <1>4 DEF StartPass

LEMMA TypeLeave ==
  ASSUME TypeOk, NEW r \in {"No", "Yes"}, Leave(r)
  PROVE  /\ queue' \in SUBSET Tasks /\ pc' \in Locations
         /\ cur' \in Tasks \cup {NoTask} /\ before' \in UpdateTask
         /\ machines' \in [Machines -> Machine] /\ nodes' \in [NodeTasks -> NodeUpdateTask]
         /\ todo' \in SUBSET Machines /\ toAbort' \in SUBSET NodeTasks
         /\ retry' \in {"No", "Yes"}
BY RecordTypes DEF Leave, TypeOk, Locations

LEMMA TypeEndPass ==
  ASSUME TypeOk, cur \in Tasks, NEW r \in {"No", "Yes"}, EndPass(r)
  PROVE  /\ queue' \in SUBSET Tasks /\ pc' \in Locations
         /\ cur' \in Tasks \cup {NoTask} /\ before' \in UpdateTask /\ obj' \in UpdateTask
         /\ machines' \in [Machines -> Machine] /\ nodes' \in [NodeTasks -> NodeUpdateTask]
         /\ todo' \in SUBSET Machines /\ toAbort' \in SUBSET NodeTasks
         /\ retry' \in {"No", "Yes"}
BY RecordTypes DEF EndPass, TypeOk, Locations

\* Every action of a pass; a pass always has a task.
LEMMA TypeContinuePass ==
  ASSUME TypeOk, pc # "Idle" => cur \in Tasks, ContinuePass
  PROVE  TypeOk'
<1> USE DEF TypeOk, ClusterTypeOk, clusterVars, serverVars, cacheVars
<1>1. ASSUME NEW m \in Machines, PatchMachine(m) PROVE TypeOk'
  <2>1. machine' \in [Machines -> Machine]
    <3>1. machines[m].upToDate \in UpToDateValues
      BY DEF Machine
    <3>2. CASE \E c \in WantedUpToDate(nodes, m, machines[m].upToDate) :
                 machine' = [machine EXCEPT ![m].upToDate = c]
      <4>1. PICK c \in WantedUpToDate(nodes, m, machines[m].upToDate) :
              machine' = [machine EXCEPT ![m].upToDate = c]
        BY <3>2
      <4>2. c \in UpToDateValues
        BY <3>1, WantedType
      <4>3. [machine[m] EXCEPT !.upToDate = c] \in Machine
        BY <4>2, MachineUpdates
      <4>4. QED
        BY <4>1, <4>3
    <3>3. CASE UNCHANGED machine
      BY <3>3
    <3>4. QED
      BY <1>1, <3>2, <3>3 DEF PatchMachine
  <2>2. faults' \in 0..MaxFaults
    BY <1>1, FaultType DEF PatchMachine
  <2>3. QED
    BY <1>1, <2>1, <2>2 DEF PatchMachine
<1>2. CASE ReportState
  <2>1. SummaryState(cur, before, machines, nodes) \in States
    BY DEF SummaryState, States
  <2>2. obj' \in UpdateTask
    BY <1>2, <2>1 DEF ReportState, UpdateTask
  <2>3. misled' \in SUBSET (Tasks \X Machines)
    BY <1>2 DEF ReportState, Unseen
  <2>4. QED
    BY <1>2, <2>2, <2>3 DEF ReportState, Locations
<1>3. ASSUME NEW n \in NodeTasks, AbortNodeTask(n) PROVE TypeOk'
  <2>1. nodeTask' \in [NodeTasks -> NodeUpdateTask]
    <3>1. [nodeTask[n] EXCEPT !.phase = "Abort"] \in NodeUpdateTask
      BY NodeTaskUpdates
    <3>2. QED
      BY <1>3, <3>1 DEF AbortNodeTask
  <2>2. faults' \in 0..MaxFaults
    BY <1>3, FaultType DEF AbortNodeTask
  <2>3. CASE Leave("Yes")
    BY <1>3, <2>1, <2>2, <2>3, TypeLeave DEF AbortNodeTask
  <2>4. CASE UNCHANGED <<queue, pc, cur, before, machines, nodes, todo, retry>>
             /\ toAbort' = toAbort \ {n}
    BY <1>3, <2>1, <2>2, <2>4 DEF AbortNodeTask
  <2>5. QED
    BY <1>3, <2>3, <2>4 DEF AbortNodeTask
<1>4. CASE AbortDone
  BY <1>4, TypeLeave DEF AbortDone
<1>5. CASE NormalBlocked
  BY <1>5, TypeLeave DEF NormalBlocked
<1>6. CASE NormalPreflightFails
  BY <1>6, TypeLeave, FaultType DEF NormalPreflightFails
<1>7. CASE NormalNothingToDo
  BY <1>7, TypeLeave DEF NormalNothingToDo
<1>8. ASSUME NEW m \in Machines, CreateNodeTask(m) PROVE TypeOk'
  <2>1. cur \in Tasks
    BY <1>8 DEF CreateNodeTask
  <2>2. nodeTask' \in [NodeTasks -> NodeUpdateTask]
    BY <1>8, <2>1 DEF CreateNodeTask, NodeUpdateTask, Phases, States
  <2>3. faults' \in 0..MaxFaults
    BY <1>8, FaultType DEF CreateNodeTask
  <2>4. QED
    BY <1>8, <2>2, <2>3, TypeLeave DEF CreateNodeTask
<1>9. CASE PatchMeta
  <2>1. obj' \in UpdateTask
    BY <1>9, FinalType DEF PatchMeta
  <2>2. task' \in [Tasks -> UpdateTask]
    BY <1>9, <2>1 DEF PatchMeta, UpdateTask, Lives
  <2>3. faults' \in 0..MaxFaults
    BY <1>9, FaultType DEF PatchMeta
  <2>4. QED
    BY <1>9, <2>1, <2>2, <2>3 DEF PatchMeta, Locations
<1>10. CASE PatchStatus
  <2>1. task' \in [Tasks -> UpdateTask]
    <3>1. obj.state \in States
      BY DEF UpdateTask
    <3>2. CASE task' = [task EXCEPT ![cur].state = obj.state]
      BY <3>1, <3>2 DEF UpdateTask
    <3>3. CASE UNCHANGED task
      BY <3>3
    <3>4. QED
      BY <1>10, <3>2, <3>3 DEF PatchStatus
  <2>2. faults' \in 0..MaxFaults
    BY <1>10, FaultType DEF PatchStatus
  <2>3. \E r \in {"No", "Yes"} : EndPass(r)
    BY <1>10 DEF PatchStatus
  <2>4. cur \in Tasks
    BY <1>10 DEF PatchStatus
  <2>5. QED
    BY <1>10, <2>1, <2>2, <2>3, <2>4, TypeEndPass DEF PatchStatus
<1>11. QED
  BY <1>1, <1>2, <1>3, <1>4, <1>5, <1>6, <1>7, <1>8, <1>9, <1>10 DEF ContinuePass

LEMMA TypeManager ==
  ASSUME TypeOk, SyncMachines \/ SyncTasks \/ Resync \/ Restart
  PROVE  TypeOk'
<1> USE DEF TypeOk, ClusterTypeOk, clusterVars, serverVars, cacheVars, passVars
<1>1. CASE SyncMachines
  BY <1>1 DEF SyncMachines
<1>2. CASE SyncTasks
  BY <1>2 DEF SyncTasks
<1>3. CASE Resync
  BY <1>3 DEF Resync
<1>4. CASE Restart
  BY <1>4, FaultType, RecordTypes DEF Restart, Locations
<1>5. QED
  BY <1>1, <1>2, <1>3, <1>4

-----------------------------------------------------------------------------
(* What the environment can do to the objects the invariant speaks of.     *)

\* Nobody but the controller stores a state, and a stopped task stays stopped.
TasksEvolve == \A t \in Tasks :
  /\ task'[t].state = task[t].state
  /\ Halted(task[t]) => Halted(task'[t])

\* A machine is never unheard of again, and never comes back.
MachinesEvolve == \A m \in Machines :
  /\ machine[m].life # "Absent" => machine'[m].life # "Absent"
  /\ machine[m].life = "Gone" => machine'[m].life = "Gone"

\* A node update task is collected, or keeps its identity and, once
\* terminated, its state; it gives up only when asked to.
NodeTasksEvolve == \A n \in NodeTasks :
  \/ nodeTask'[n] = NoNodeTask
  \/ /\ nodeTask'[n].owner = nodeTask[n].owner
     /\ nodeTask'[n].machine = nodeTask[n].machine
     /\ nodeTask'[n].phase = nodeTask[n].phase
     /\ \/ nodeTask'[n].state = nodeTask[n].state
        \/ /\ ~IsTerminated(nodeTask[n].state)
           /\ nodeTask'[n].state = "Aborted" => nodeTask[n].phase = "Abort"

Evolve == TasksEvolve /\ MachinesEvolve /\ NodeTasksEvolve /\ UNCHANGED <<taskCache, machineCache>>

LEMMA EnvironmentEvolves == ASSUME ClusterTypeOk, Environment PROVE Evolve
<1> USE DEF ClusterTypeOk, cacheVars, Evolve, TasksEvolve, MachinesEvolve, NodeTasksEvolve
<1>1. ASSUME NEW m \in Machines, NEW t \in Tasks, AnnotateMachine(m, t) PROVE Evolve
  BY <1>1 DEF AnnotateMachine, Machine
<1>2. ASSUME NEW m \in Machines, ForgetUpToDate(m) PROVE Evolve
  BY <1>2 DEF ForgetUpToDate, Machine
<1>3. ASSUME NEW t \in Tasks, CreateTask(t) PROVE Evolve
  BY <1>3 DEF CreateTask, UpdateTask, Halted
<1>4. ASSUME NEW t \in Tasks, AbortTask(t) PROVE Evolve
  BY <1>4 DEF AbortTask, UpdateTask, Halted
<1>5. ASSUME NEW t \in Tasks, DeleteTask(t) PROVE Evolve
  BY <1>5 DEF DeleteTask, UpdateTask, Halted
<1>6. ASSUME NEW m \in Machines, JoinMachine(m) PROVE Evolve
  BY <1>6 DEF JoinMachine, Machine
<1>7. ASSUME NEW m \in Machines, DeleteMachine(m) PROVE Evolve
  BY <1>7 DEF DeleteMachine, Machine
<1>8. ASSUME NEW m \in Machines, RemoveMachine(m) PROVE Evolve
  BY <1>8 DEF RemoveMachine, Machine
<1>9. ASSUME NEW m \in Machines, LoseHealth(m) PROVE Evolve
  BY <1>9 DEF LoseHealth, Machine
<1>10. ASSUME NEW m \in Machines, RegainHealth(m) PROVE Evolve
  BY <1>10 DEF RegainHealth, Machine
<1>11. ASSUME NEW n \in NodeTasks, NEW s \in States, ReportProgress(n, s) PROVE Evolve
  BY <1>11 DEF ReportProgress, NodeUpdateTask
<1>12. ASSUME NEW n \in NodeTasks, CollectNodeTask(n) PROVE Evolve
  BY <1>12 DEF CollectNodeTask
<1>13. ASSUME NEW t \in Tasks, AbortOlderTask(t) PROVE Evolve
  BY <1>13 DEF AbortOlderTask, UpdateTask, Halted
<1>14. QED
  BY <1>1, <1>2, <1>3, <1>4, <1>5, <1>6, <1>7, <1>8, <1>9, <1>10, <1>11, <1>12, <1>13
  DEF Environment, UpdateHook, OtherActors, Surroundings

\* Such steps preserve the invariant if the worker keeps its task and either
\* stays where it is or is done with its copies.
LEMMA InvEvolve ==
  ASSUME IInv, TypeOk', Evolve, UNCHANGED <<cur, before>>, obj'.state = obj.state,
         \/ UNCHANGED <<pc, machines, nodes>>
         \/ pc # "Idle" /\ pc' \in {"PatchMeta", "PatchStatus"}
  PROVE  IInv'
<1> USE DEF Evolve, cacheVars
<1>1. WorkerOk'
  BY DEF IInv, WorkerOk
<1>2. CachesOk'
  BY DEF IInv, CachesOk, TasksEvolve, MachinesEvolve
<1>3. NodeTasksOk'
  BY DEF IInv, NodeTasksOk, NodeTasksEvolve, NoNodeTask
<1>4. ScopeOk'
  <2>1. SUFFICES ASSUME UNCHANGED <<pc, machines, nodes>>, pc \in {"Machines", "Abort", "Normal"}
                 PROVE  ScopeOk'
    BY DEF ScopeOk
  <2>2. ScopeOk /\ cur # NoTask
    BY <2>1, Constants DEF IInv, WorkerOk
  <2>3. QED
    BY <2>1, <2>2 DEF ScopeOk, MachinesEvolve, NodeTasksEvolve, NoNodeTask
<1>5. OneNodeTaskPerMachine'
  BY DEF IInv, OneNodeTaskPerMachine, NodeTasksEvolve, NoNodeTask
<1>6. SerialUpdate'
  BY DEF IInv, SerialUpdate, Running, NodeTasksEvolve, NoNodeTask, IsTerminated
<1>7. AbortedOk'
  <2>1. SUFFICES ASSUME NEW t \in Tasks, SaysAborted(t)'
                 PROVE  Quiet(t)' /\ Halted(taskCache[t]) /\ (cur = t => Halted(before))
    BY DEF AbortedOk, Halted
  <2>2. SaysAborted(t)
    BY <2>1 DEF SaysAborted, TasksEvolve
  <2>3. Quiet(t) /\ Halted(taskCache[t]) /\ (cur = t => Halted(before))
    BY <2>2 DEF IInv, AbortedOk
  <2>4. Quiet(t)'
    <3>1. SUFFICES ASSUME NEW n \in NodeTasks, (nodeTask[n].owner = t)', Running(n)'
                   PROVE  ~Exists(machine'[nodeTask'[n].machine])
      BY DEF Quiet, Exists
    <3>2. nodeTask[n].owner = t /\ Running(n) /\ nodeTask'[n].machine = nodeTask[n].machine
      BY <3>1, Constants DEF Running, NodeTasksEvolve, NoNodeTask, IsTerminated
    <3>3. nodeTask[n].machine \in Machines /\ machine[nodeTask[n].machine].life # "Absent"
      BY <3>2, Constants DEF IInv, NodeTasksOk, CachesOk
    <3>4. machine[nodeTask[n].machine].life = "Gone"
      BY <2>3, <3>2, <3>3 DEF Quiet, Exists, IInv, TypeOk, ClusterTypeOk, Machine, Lives
    <3>5. QED
      BY <3>2, <3>3, <3>4 DEF MachinesEvolve, Exists
  <2>5. QED
    BY <2>3, <2>4
<1>8. QED
  BY <1>1, <1>2, <1>3, <1>4, <1>5, <1>6, <1>7 DEF IInv

-----------------------------------------------------------------------------
(* What each step of the controller does to the invariant.                 *)

\* Steps that give up the pass, or never begin one, and store no new object.
LEMMA InvIdle ==
  ASSUME IInv, TypeOk', UNCHANGED <<task, machine, nodeTask>>,
         pc' = "Idle", cur' = NoTask,
         \A t \in Tasks : taskCache'[t] \in {taskCache[t], task[t]},
         \A m \in Machines : machineCache'[m] \in {machineCache[m], machine[m]}
  PROVE  IInv'
<1>1. WorkerOk'
  BY DEF WorkerOk
<1>2. CachesOk'
  BY DEF IInv, CachesOk
<1>3. NodeTasksOk'
  BY Constants DEF IInv, NodeTasksOk, CachesOk, TypeOk, ClusterTypeOk, NodeUpdateTask
<1>4. ScopeOk' /\ OneNodeTaskPerMachine' /\ SerialUpdate'
  BY DEF IInv, ScopeOk, OneNodeTaskPerMachine, SerialUpdate, Running
<1>5. AbortedOk'
  BY Constants DEF IInv, AbortedOk, SaysAborted, Quiet, Running, CachesOk, Exists
<1>6. QED
  BY <1>1, <1>2, <1>3, <1>4, <1>5 DEF IInv

\* A pass begins on a task that exists in the cache.
LEMMA InvBegin ==
  ASSUME IInv, TypeOk', NEW t \in Tasks, Dequeue(t), Begin(t), obj'.state = taskCache[t].state,
         UNCHANGED <<task, machine, nodeTask, cacheVars>>,
         pc' \in {"PatchMeta", "Machines"}, ScopeOk'
  PROVE  IInv'
<1> USE DEF cacheVars, Dequeue, Begin
<1>1. WorkerOk'
  BY DEF IInv, WorkerOk
<1>2. CachesOk' /\ OneNodeTaskPerMachine' /\ SerialUpdate'
  BY DEF IInv, CachesOk, OneNodeTaskPerMachine, SerialUpdate, Running
<1>3. NodeTasksOk'
  BY DEF IInv, NodeTasksOk
<1>4. AbortedOk'
  BY DEF IInv, AbortedOk, SaysAborted, Quiet, Running, Exists
<1>5. QED
  BY <1>1, <1>2, <1>3, <1>4 DEF IInv

LEMMA InvStartPass ==
  ASSUME IInv, TypeOk', NEW t \in Tasks, StartPass(t)
  PROVE  IInv'
<1> USE DEF clusterVars, serverVars
<1>1. CASE ReconcileMissing(t)
  BY <1>1, InvIdle DEF ReconcileMissing, Dequeue, passVars, cacheVars, IInv, WorkerOk
<1>2. CASE ReconcileFinalizer(t)
  BY <1>2, InvBegin DEF ReconcileFinalizer, ScopeOk, IInv, TypeOk, ClusterTypeOk, UpdateTask
<1>3. CASE OpenScope(t)
  <2>1. ScopeOk'
    <3>1. cur' = t /\ t # NoTask /\ UNCHANGED <<machine, machineCache, nodeTask>>
      BY <1>3, Constants DEF OpenScope, Begin, cacheVars
    <3>2. machines' = machineCache
          /\ \A n \in NodeTasks : nodes'[n] = IF nodeTask[n].owner = t THEN nodeTask[n] ELSE NoNodeTask
      BY <1>3 DEF OpenScope
    <3>3. QED
      BY <3>1, <3>2 DEF ScopeOk, IInv, NodeTasksOk, CachesOk, OneNodeTaskPerMachine, NoNodeTask
  <2>2. QED
    BY <1>3, <2>1, InvBegin DEF OpenScope
<1>4. CASE ScopeError(t)
  BY <1>4, InvBegin DEF ScopeError, ScopeOk
<1>5. QED
  BY <1>1, <1>2, <1>3, <1>4 DEF StartPass

LEMMA InvPatchMachine ==
  ASSUME IInv, TypeOk', NEW m \in Machines, PatchMachine(m)
  PROVE  IInv'
<1>1. Evolve
  BY DEF PatchMachine, Evolve, TasksEvolve, MachinesEvolve, NodeTasksEvolve, cacheVars,
         IInv, TypeOk, ClusterTypeOk, Machine
<1>2. QED
  BY <1>1, InvEvolve DEF PatchMachine

\* The heart of the argument for Aborted: no listed machine reports a running
\* node update, the list covers every node update task of the task, and a
\* machine that is not listed is gone.
LEMMA AbortedDecision ==
  ASSUME IInv, pc = "Machines", NoneInProgress(machines, nodes)
  PROVE  Quiet(cur)
<1>1. SUFFICES ASSUME NEW n \in NodeTasks, nodeTask[n].owner = cur, Running(n)
               PROVE  ~Exists(machine[nodeTask[n].machine])
  BY DEF Quiet
<1>2. ScopeOk /\ cur # NoTask
  BY Constants DEF IInv, WorkerOk
<1> DEFINE m == nodes[n].machine
<1>3. /\ nodes[n].owner = cur
      /\ m \in Machines /\ m = nodeTask[n].machine
      /\ ~IsTerminated(nodes[n].state)
  BY <1>1, <1>2 DEF ScopeOk, Running
<1>4. n \in LatestNodeTasks(nodes, m)
  <2>1. ASSUME NEW k \in NodeTasks, nodes[k].machine = m PROVE k = n
    <3>1. nodes[k].owner = cur
      BY <1>2, <1>3, <2>1, Constants DEF ScopeOk, NoNodeTask
    <3>2. QED
      BY <1>2, <1>3, <2>1, <3>1 DEF ScopeOk
  <2>2. QED
    BY <2>1, Constants DEF LatestNodeTasks
<1>5. Reports(nodes, m, {"InProgress", "Unknown"})
  <2>1. nodes[n].state \in States
    BY DEF IInv, TypeOk, NodeUpdateTask
  <2>2. QED
    BY <1>3, <1>4, <2>1 DEF Reports, States, IsTerminated
<1>6. ~Exists(machines[m])
  BY <1>3, <1>5 DEF NoneInProgress
<1>7. machines[m].life = "Gone"
  <2>1. machines[m].life \in Lives /\ machines[m].life # "Absent"
    BY <1>2, <1>3 DEF IInv, TypeOk, Machine, ScopeOk
  <2>2. QED
    BY <1>6, <2>1 DEF Exists, Lives
<1>8. QED
  BY <1>2, <1>3, <1>7 DEF ScopeOk, Exists

LEMMA InvReportState == ASSUME IInv, TypeOk', ReportState PROVE IInv'
<1> USE DEF ReportState, Unfinished, clusterVars, serverVars, cacheVars
<1>1. WorkerOk'
  BY DEF IInv, WorkerOk
<1>2. CachesOk' /\ NodeTasksOk' /\ OneNodeTaskPerMachine' /\ SerialUpdate'
  BY DEF IInv, CachesOk, NodeTasksOk, OneNodeTaskPerMachine, SerialUpdate, Running
<1>3. ScopeOk'
  BY DEF IInv, ScopeOk
<1>4. AbortedOk'
  <2>1. SUFFICES ASSUME NEW t \in Tasks, SaysAborted(t)'
                 PROVE  Quiet(t) /\ Halted(taskCache[t]) /\ (cur = t => Halted(before))
    BY DEF AbortedOk, Quiet, Running, Exists
  <2>2. CASE SaysAborted(t)
    BY <2>2 DEF IInv, AbortedOk
  <2>3. CASE ~SaysAborted(t)
    <3>1. cur = t /\ SummaryState(cur, before, machines, nodes) = "Aborted"
      BY <2>1, <2>3 DEF SaysAborted, IInv, TypeOk, UpdateTask
    <3>2. Stopping(before) /\ NoneInProgress(machines, nodes)
      BY <3>1 DEF SummaryState
    <3>3. Quiet(t)
      BY <3>1, <3>2, AbortedDecision
    <3>4. Halted(before) /\ Halted(taskCache[t])
      BY <3>1, <3>2 DEF Stopping, Halted, IInv, WorkerOk
    <3>5. QED
      BY <3>3, <3>4
  <2>4. QED
    BY <2>2, <2>3
<1>5. QED
  BY <1>1, <1>2, <1>3, <1>4 DEF IInv

\* The branches of Reconcile that only conclude the pass.
LEMMA InvConclude ==
  ASSUME IInv, TypeOk', AbortDone \/ NormalBlocked \/ NormalPreflightFails \/ NormalNothingToDo
  PROVE  IInv'
<1>1. Evolve
  BY DEF AbortDone, NormalBlocked, NormalPreflightFails, NormalNothingToDo, clusterVars,
         serverVars, cacheVars, Evolve, TasksEvolve, MachinesEvolve, NodeTasksEvolve
<1>2. UNCHANGED <<cur, before, obj>> /\ pc # "Idle" /\ pc' = "PatchMeta"
  BY DEF AbortDone, NormalBlocked, NormalPreflightFails, NormalNothingToDo, Leave
<1>3. QED
  BY <1>1, <1>2, InvEvolve

LEMMA InvAbortNodeTask ==
  ASSUME IInv, TypeOk', NEW n \in NodeTasks, AbortNodeTask(n)
  PROVE  IInv'
<1> USE DEF cacheVars
<1>1. CASE UNCHANGED nodeTask /\ Leave("Yes")
  <2>1. Evolve
    BY <1>1 DEF AbortNodeTask, Evolve, TasksEvolve, MachinesEvolve, NodeTasksEvolve
  <2>2. QED
    BY <1>1, <2>1, InvEvolve DEF AbortNodeTask, Leave
<1>2. CASE /\ nodeTask[n].owner = cur
           /\ nodeTask' = [nodeTask EXCEPT ![n].phase = "Abort"]
           /\ UNCHANGED <<pc, cur, before, machines, nodes>>
  <2>1. /\ UNCHANGED <<task, machine, taskCache, machineCache, obj>>
        /\ pc = "Abort"
    BY <1>2 DEF AbortNodeTask
  <2>2. /\ cur \in Tasks
        /\ Halted(before) /\ Halted(taskCache[cur])
    BY <2>1 DEF IInv, WorkerOk, Stopping, Halted
  <2>3. \A k \in NodeTasks :
          /\ nodeTask'[k].owner = nodeTask[k].owner
          /\ nodeTask'[k].machine = nodeTask[k].machine
          /\ nodeTask'[k].state = nodeTask[k].state
          /\ k # n => nodeTask'[k] = nodeTask[k]
    BY <1>2 DEF IInv, TypeOk, ClusterTypeOk, NodeUpdateTask
  <2>4. WorkerOk' /\ CachesOk'
    BY <1>2, <2>1 DEF IInv, WorkerOk, CachesOk
  <2>5. NodeTasksOk'
    <3>1. SUFFICES ASSUME NEW k \in NodeTasks, nodeTask'[k].owner # NoTask
                   PROVE  /\ nodeTask'[k].machine \in Machines
                          /\ machineCache[nodeTask'[k].machine].life # "Absent"
                          /\ nodeTask'[k].state = "Aborted" => nodeTask'[k].phase = "Abort"
                          /\ nodeTask'[k].phase = "Abort" =>
                               /\ Halted(taskCache[nodeTask'[k].owner])
                               /\ cur = nodeTask'[k].owner => Halted(before)
      BY <1>2, <2>1 DEF NodeTasksOk, Halted
    <3>2. CASE k = n
      <4>1. nodeTask'[n].phase = "Abort"
        BY <1>2 DEF IInv, TypeOk, ClusterTypeOk, NodeUpdateTask
      <4>2. QED
        BY <1>2, <2>2, <2>3, <3>1, <3>2, <4>1 DEF IInv, NodeTasksOk
    <3>3. CASE k # n
      BY <2>3, <3>1, <3>3 DEF IInv, NodeTasksOk
    <3>4. QED
      BY <3>2, <3>3
  <2>6. ScopeOk' /\ OneNodeTaskPerMachine' /\ SerialUpdate'
    BY <1>2, <2>1, <2>3 DEF IInv, ScopeOk, OneNodeTaskPerMachine, SerialUpdate, Running
  <2>7. AbortedOk'
    BY <1>2, <2>1, <2>3 DEF IInv, AbortedOk, SaysAborted, Quiet, Running, Exists
  <2>8. QED
    BY <2>4, <2>5, <2>6, <2>7 DEF IInv
<1>3. QED
  BY <1>1, <1>2 DEF AbortNodeTask

\* Not Blocked, seen from now: every node update of the task has ended, and
\* none of them failed or, as this is no pass that aborts, was aborted.
LEMMA NotBlocked ==
  ASSUME IInv, pc = "Normal", ~Blocked, NEW n \in NodeTasks, nodeTask[n].owner = cur
  PROVE  nodeTask[n].state = "Updated"
<1>1. cur # NoTask /\ ~Halted(before)
  BY Constants DEF IInv, WorkerOk, Halted, Stopping, Exists
<1>2. Listed(n)
  BY <1>1 DEF IInv, ScopeOk, Listed
<1>3. IsTerminated(nodes[n].state) /\ nodes[n].state # "Failed"
  BY <1>2 DEF Blocked
<1>4. nodeTask[n].state = nodes[n].state
  BY <1>3 DEF IInv, ScopeOk
<1>5. nodeTask[n].state # "Aborted"
  BY <1>1 DEF IInv, NodeTasksOk
<1>6. QED
  BY <1>3, <1>4, <1>5 DEF IsTerminated

LEMMA InvCreateNodeTask ==
  ASSUME IInv, TypeOk', NEW m \in Machines, CreateNodeTask(m)
  PROVE  IInv'
<1> USE DEF cacheVars
<1>1. CASE UNCHANGED nodeTask
  <2>1. Evolve
    BY <1>1 DEF CreateNodeTask, Evolve, TasksEvolve, MachinesEvolve, NodeTasksEvolve
  <2>2. QED
    BY <1>1, <2>1, InvEvolve DEF CreateNodeTask, Leave
<1>2. ASSUME NEW n \in NodeTasks, nodeTask[n].owner = NoTask,
             nodeTask' = [nodeTask EXCEPT ![n] =
               [owner |-> cur, machine |-> m, phase |-> "Update", state |-> "Unknown"]]
      PROVE  IInv'
  <2>1. /\ UNCHANGED <<task, machine, taskCache, machineCache, cur, before, obj>>
        /\ pc = "Normal" /\ pc' = "PatchMeta" /\ ~Blocked
    BY DEF CreateNodeTask, Leave
  <2>2. /\ nodeTask'[n] = [owner |-> cur, machine |-> m, phase |-> "Update", state |-> "Unknown"]
        /\ \A k \in NodeTasks : k # n => nodeTask'[k] = nodeTask[k]
    BY <1>2 DEF IInv, TypeOk, ClusterTypeOk
  <2>3. cur # NoTask /\ ~Halted(before)
    BY <2>1, Constants DEF IInv, WorkerOk, Halted, Stopping, Exists
  <2>4. \A k \in NodeTasks : nodeTask[k].owner = cur =>
          nodeTask[k].state = "Updated" /\ nodeTask[k].machine # m
    <3>1. ~HasNodeTask(nodes, m)
      BY DEF CreateNodeTask, NextMachines, Waiting
    <3>2. QED
      BY <2>1, <3>1, NotBlocked DEF IInv, ScopeOk, HasNodeTask
  <2>5. WorkerOk' /\ CachesOk' /\ ScopeOk'
    BY <2>1 DEF IInv, WorkerOk, CachesOk, ScopeOk
  <2>6. NodeTasksOk'
    <3>1. machineCache[m].life # "Absent"
      BY <2>1 DEF CreateNodeTask, NextMachines, Waiting, Exists, IInv, ScopeOk
    <3>2. QED
      BY <2>1, <2>2, <3>1 DEF IInv, NodeTasksOk
  <2>7. OneNodeTaskPerMachine'
    BY <2>2, <2>4 DEF IInv, OneNodeTaskPerMachine
  <2>8. SerialUpdate'
    BY <2>2, <2>4 DEF IInv, SerialUpdate, Running, IsTerminated
  <2>9. AbortedOk'
    <3>1. ~SaysAborted(cur)
      BY <2>1, <2>3 DEF IInv, AbortedOk, WorkerOk
    <3>2. QED
      BY <2>1, <2>2, <3>1 DEF IInv, AbortedOk, SaysAborted, Quiet, Running, Exists
  <2>10. QED
    BY <2>5, <2>6, <2>7, <2>8, <2>9 DEF IInv
<1>3. QED
  BY <1>1, <1>2 DEF CreateNodeTask

LEMMA InvPatchMeta == ASSUME IInv, TypeOk', PatchMeta PROVE IInv'
<1>1. obj'.state = obj.state
  BY DEF PatchMeta, Final, IInv, TypeOk, UpdateTask
<1>2. Evolve
  BY DEF PatchMeta, Evolve, TasksEvolve, MachinesEvolve, NodeTasksEvolve, Halted, cacheVars,
         IInv, TypeOk, ClusterTypeOk, UpdateTask
<1>3. QED
  BY <1>1, <1>2, InvEvolve DEF PatchMeta

\* The status patch stores what the pass concluded; that was already true of
\* the pass's own copy.
LEMMA InvPatchStatus == ASSUME IInv, TypeOk', PatchStatus PROVE IInv'
<1> USE DEF cacheVars
<1>1. pc' = "Idle" /\ cur' = NoTask /\ cur \in Tasks
  BY DEF PatchStatus, EndPass, IInv, WorkerOk
<1>2. CASE UNCHANGED task
  BY <1>1, <1>2, InvIdle DEF PatchStatus
<1>3. CASE task' = [task EXCEPT ![cur].state = obj.state]
  <2>1. UNCHANGED <<machine, nodeTask, taskCache, machineCache>>
    BY DEF PatchStatus
  <2>2. \A t \in Tasks :
          /\ Halted(task'[t]) <=> Halted(task[t])
          /\ task'[t].state = "Aborted" => SaysAborted(t)
    BY <1>3 DEF IInv, TypeOk, ClusterTypeOk, UpdateTask, Halted, SaysAborted
  <2>3. WorkerOk' /\ CachesOk'
    BY <1>1, <2>1, <2>2 DEF IInv, WorkerOk, CachesOk
  <2>4. NodeTasksOk' /\ ScopeOk'
    BY <1>1, <2>1, Constants DEF IInv, NodeTasksOk, ScopeOk, TypeOk, ClusterTypeOk, NodeUpdateTask
  <2>5. OneNodeTaskPerMachine' /\ SerialUpdate'
    BY <2>1 DEF IInv, OneNodeTaskPerMachine, SerialUpdate, Running
  <2>6. AbortedOk'
    BY <1>1, <2>1, <2>2, Constants DEF IInv, AbortedOk, SaysAborted, Quiet, Running, Exists
  <2>7. QED
    BY <2>3, <2>4, <2>5, <2>6 DEF IInv
<1>4. QED
  BY <1>2, <1>3 DEF PatchStatus

LEMMA InvContinuePass == ASSUME IInv, TypeOk', ContinuePass PROVE IInv'
BY InvPatchMachine, InvReportState, InvAbortNodeTask, InvConclude, InvCreateNodeTask,
   InvPatchMeta, InvPatchStatus DEF ContinuePass

\* An informer that catches up while a pass is under way.
LEMMA InvSync ==
  ASSUME IInv, TypeOk', UNCHANGED <<task, machine, nodeTask, passVars>>,
         taskCache' \in {taskCache, task}, machineCache' \in {machineCache, machine}
  PROVE  IInv'
<1> USE DEF passVars
<1>1. WorkerOk' /\ CachesOk'
  BY DEF IInv, WorkerOk, CachesOk
<1>2. NodeTasksOk'
  BY Constants DEF IInv, NodeTasksOk, CachesOk, TypeOk, ClusterTypeOk, NodeUpdateTask
<1>3. ScopeOk'
  BY DEF IInv, ScopeOk, CachesOk
<1>4. OneNodeTaskPerMachine' /\ SerialUpdate'
  BY DEF IInv, OneNodeTaskPerMachine, SerialUpdate, Running
<1>5. AbortedOk'
  BY DEF IInv, AbortedOk, SaysAborted, Quiet, Running, CachesOk, Exists
<1>6. QED
  BY <1>1, <1>2, <1>3, <1>4, <1>5 DEF IInv

LEMMA InvManager ==
  ASSUME IInv, TypeOk', SyncMachines \/ SyncTasks \/ Resync \/ Restart
  PROVE  IInv'
<1> USE DEF clusterVars, serverVars, cacheVars
<1>1. CASE SyncMachines
  BY <1>1, InvSync DEF SyncMachines
<1>2. CASE SyncTasks
  BY <1>2, InvSync DEF SyncTasks
<1>3. CASE Resync
  BY <1>3, InvSync DEF Resync
<1>4. CASE Restart
  BY <1>4, InvIdle DEF Restart
<1>5. QED
  BY <1>1, <1>2, <1>3, <1>4

-----------------------------------------------------------------------------
(* The theorems.                                                           *)

LEMMA InvInit == Init => IInv
<1>1. SUFFICES ASSUME Init PROVE IInv
  OBVIOUS
<1>2. TypeOk
  BY <1>1, TypeInit
<1>3. /\ \A t \in Tasks : task[t] = AbsentTask /\ taskCache[t] = AbsentTask
      /\ \A n \in NodeTasks : nodeTask[n] = NoNodeTask
      /\ machineCache = machine
      /\ \A m \in Machines : machine[m].life # "Gone"
      /\ pc = "Idle" /\ cur = NoTask
  BY <1>1 DEF Init, ClusterInit, PassInit
<1>4. WorkerOk /\ CachesOk /\ NodeTasksOk /\ ScopeOk
  BY <1>3 DEF WorkerOk, CachesOk, NodeTasksOk, ScopeOk, Halted, AbsentTask, NoNodeTask
<1>5. OneNodeTaskPerMachine /\ SerialUpdate /\ AbortedOk
  BY <1>3, Constants DEF OneNodeTaskPerMachine, SerialUpdate, Running, AbortedOk, SaysAborted,
     AbsentTask, NoNodeTask
<1>6. QED
  BY <1>2, <1>4, <1>5 DEF IInv

LEMMA InvNext == ASSUME IInv, [Next]_vars PROVE IInv'
<1>1. CASE UNCHANGED vars
  <2>1. TypeOk'
    BY <1>1 DEF vars, clusterVars, serverVars, cacheVars, passVars, IInv, TypeOk, ClusterTypeOk
  <2>2. QED
    BY <1>1, <2>1, InvSync DEF vars, clusterVars, serverVars, cacheVars
<1>2. ASSUME NEW t \in Tasks, StartPass(t) PROVE IInv'
  BY <1>2, TypeStartPass, InvStartPass DEF IInv
<1>3. CASE ContinuePass
  BY <1>3, TypeContinuePass, InvContinuePass DEF IInv, WorkerOk
<1>4. CASE SyncMachines \/ SyncTasks \/ Resync \/ Restart
  BY <1>4, TypeManager, InvManager DEF IInv
<1>5. CASE Environment /\ UNCHANGED <<queue, passVars>>
  <2>1. ClusterTypeOk' /\ Evolve
    BY <1>5, TypeEnvironment, EnvironmentEvolves DEF IInv, TypeOk, NodeTasksOk, NodeTasksNamed
  <2>2. TypeOk'
    BY <1>5, <2>1 DEF IInv, TypeOk, passVars
  <2>3. QED
    BY <1>5, <2>1, <2>2, InvEvolve DEF passVars
<1>6. QED
  BY <1>1, <1>2, <1>3, <1>4, <1>5 DEF Next, Manager, Work

\* The invariant, in every behaviour of the controller and its environment.
THEOREM Invariance == Spec => []IInv
<1>1. IInv /\ [Next]_vars => IInv'
  BY InvNext
<1>2. QED
  BY InvInit, <1>1, PTL DEF Spec

\* Every object, cache and copy is well formed in every reachable state.
THEOREM TypeCorrect == Spec => []TypeOk
<1>1. IInv => TypeOk
  BY DEF IInv
<1>2. QED
  BY Invariance, <1>1, PTL

\* reconcileNormal never creates a second node update for a machine.
THEOREM OneNodeTaskPerMachineHolds == Spec => []OneNodeTaskPerMachine
<1>1. IInv => OneNodeTaskPerMachine
  BY DEF IInv
<1>2. QED
  BY Invariance, <1>1, PTL

\* A task's node updates run one at a time, across passes, failed calls and
\* restarts of the manager.
THEOREM SerialUpdateHolds == Spec => []SerialUpdate
<1>1. IInv => SerialUpdate
  BY DEF IInv
<1>2. QED
  BY Invariance, <1>1, PTL

\* Aborted means quiet, however stale the caches it was concluded from.
THEOREM AbortedIsQuietHolds == Spec => []AbortedIsQuiet
<1>1. IInv => AbortedIsQuiet
  BY DEF IInv, AbortedOk, SaysAborted, AbortedIsQuiet
<1>2. QED
  BY Invariance, <1>1, PTL

\* Only CreateNodeTask gives a node update task an owner.
LEMMA OnlyCreated ==
  ASSUME IInv, Next, NEW n \in NodeTasks, nodeTask[n].owner = NoTask, nodeTask'[n].owner # NoTask
  PROVE  \E m \in Machines : CreateNodeTask(m) /\ nodeTask'[n].owner = cur
<1> USE DEF IInv, TypeOk, ClusterTypeOk, clusterVars, serverVars, cacheVars
<1>1. ASSUME NEW t \in Tasks, StartPass(t) PROVE FALSE
  BY <1>1 DEF StartPass, ReconcileMissing, ReconcileFinalizer, OpenScope, ScopeError
<1>2. CASE ContinuePass
  <2>1. ASSUME NEW m \in Machines, CreateNodeTask(m) PROVE nodeTask'[n].owner = cur
    BY <2>1 DEF CreateNodeTask
  <2>2. ASSUME NEW k \in NodeTasks, AbortNodeTask(k) PROVE FALSE
    BY <2>2 DEF AbortNodeTask, NodeUpdateTask
  <2>3. ASSUME UNCHANGED nodeTask PROVE FALSE
    BY <2>3
  <2>4. QED
    BY <1>2, <2>1, <2>2, <2>3 DEF ContinuePass, PatchMachine, ReportState, AbortDone,
       NormalBlocked, NormalPreflightFails, NormalNothingToDo, PatchMeta, PatchStatus
<1>3. CASE SyncMachines \/ SyncTasks \/ Resync \/ Restart
  BY <1>3 DEF SyncMachines, SyncTasks, Resync, Restart
<1>4. CASE Environment
  BY <1>4, EnvironmentEvolves DEF Evolve, NodeTasksEvolve, NoNodeTask
<1>5. QED
  BY <1>1, <1>2, <1>3, <1>4 DEF Next, Manager, Work

\* Each node update starts only when all earlier ones of its task are Updated,
\* so a failed or aborted one is the last.
THEOREM RolloutStopsAtFailureHolds == Spec => RolloutStopsAtFailure
<1> DEFINE Step == \A n \in NodeTasks :
      nodeTask[n].owner = NoTask /\ nodeTask'[n].owner # NoTask =>
        \A k \in NodeTasks :
          nodeTask[k].owner = nodeTask'[n].owner => nodeTask[k].state = "Updated"
<1>1. ASSUME IInv, Next PROVE Step
  BY <1>1, OnlyCreated, NotBlocked DEF CreateNodeTask
<1>2. ASSUME UNCHANGED vars PROVE Step
  BY <1>2 DEF vars, clusterVars, serverVars
<1>3. IInv /\ [Next]_vars => [Step]_vars
  BY <1>1, <1>2
<1>4. QED
  BY Invariance, <1>3, PTL DEF Spec, RolloutStopsAtFailure

-----------------------------------------------------------------------------
(* No unfinished task is forgotten, although nothing but its own requeues  *)
(* brings it back.                                                         *)

\* The UpdateTask cache never runs ahead of the server, field by field: what it
\* shows and the server does not have is gone for good.
CacheBehind == \A t \in Tasks :
  /\ taskCache[t].phase = "Abort" => task[t].phase = "Abort"
  /\ taskCache[t].life # "Absent" => task[t].life # "Absent"
  /\ taskCache[t].life = "Deleting" => task[t].life \in {"Deleting", "Gone"}
  /\ taskCache[t].life = "Gone" => task[t].life = "Gone"

\* An unfinished task, as the cache has it, is queued, being reconciled, or due
\* to be queued by the change the cache has not seen.
Remembered(t) ==
  Exists(taskCache[t]) /\ ~IsTerminated(taskCache[t].state) =>
    t \in queue \/ cur = t \/ taskCache[t] # task[t]

\* While a pass works on a task, a change of it that the cache delivers queues it.
PassRemembers == cur # NoTask => cur \in queue \/ taskCache[cur] = before

QueueInv ==
  /\ CacheBehind
  /\ \A t \in Tasks : Remembered(t)
  /\ PassRemembers

LEMMA QueueInit == Init => QueueInv
BY DEF Init, ClusterInit, PassInit, QueueInv, CacheBehind, Remembered, PassRemembers,
   AbsentTask, Exists

\* What others do to tasks leads away from what the cache shows.
LEMMA QueueEnvironment ==
  ASSUME IInv, QueueInv, Environment, UNCHANGED <<queue, passVars>>
  PROVE  QueueInv'
<1>1. task \in [Tasks -> UpdateTask] /\ UNCHANGED <<taskCache, machineCache>>
  BY EnvironmentEvolves DEF IInv, TypeOk, ClusterTypeOk, Evolve
<1> USE DEF passVars, cacheVars
<1>2. SUFFICES /\ CacheBehind'
               /\ \A t \in Tasks : Exists(taskCache[t]) /\ taskCache[t] = task'[t]
                                    => taskCache[t] = task[t]
  BY <1>1 DEF QueueInv, Remembered, PassRemembers, Exists, IsTerminated
<1>3. CASE UNCHANGED task
  BY <1>1, <1>3 DEF QueueInv, CacheBehind
<1>4. ASSUME NEW t \in Tasks, CreateTask(t)
      PROVE /\ CacheBehind'
            /\ \A k \in Tasks : Exists(taskCache[k]) /\ taskCache[k] = task'[k]
                                 => taskCache[k] = task[k]
  BY <1>1, <1>4 DEF CreateTask, QueueInv, CacheBehind, UpdateTask, Exists
<1>5. ASSUME NEW t \in Tasks, AbortTask(t)
      PROVE /\ CacheBehind'
            /\ \A k \in Tasks : Exists(taskCache[k]) /\ taskCache[k] = task'[k]
                                 => taskCache[k] = task[k]
  BY <1>1, <1>5 DEF AbortTask, QueueInv, CacheBehind, UpdateTask, Exists
<1>6. ASSUME NEW t \in Tasks, DeleteTask(t)
      PROVE /\ CacheBehind'
            /\ \A k \in Tasks : Exists(taskCache[k]) /\ taskCache[k] = task'[k]
                                 => taskCache[k] = task[k]
  BY <1>1, <1>6 DEF DeleteTask, QueueInv, CacheBehind, UpdateTask, Exists
<1>7. ASSUME NEW t \in Tasks, AbortOlderTask(t)
      PROVE /\ CacheBehind'
            /\ \A k \in Tasks : Exists(taskCache[k]) /\ taskCache[k] = task'[k]
                                 => taskCache[k] = task[k]
  BY <1>1, <1>7 DEF AbortOlderTask, QueueInv, CacheBehind, UpdateTask, Exists
<1>8. QED
  BY <1>3, <1>4, <1>5, <1>6, <1>7 DEF Environment, UpdateHook, OtherActors, Surroundings,
     AnnotateMachine, ForgetUpToDate, JoinMachine, DeleteMachine, RemoveMachine, LoseHealth,
     RegainHealth, ReportProgress, CollectNodeTask

LEMMA QueueStartPass ==
  ASSUME IInv, QueueInv, NEW t \in Tasks, StartPass(t)
  PROVE  QueueInv'
<1>1. /\ UNCHANGED <<task, taskCache>> /\ queue' = queue \ {t} /\ cur = NoTask
      /\ \/ ~Exists(taskCache[t]) /\ UNCHANGED cur
         \/ cur' = t /\ before' = taskCache[t]
  BY DEF StartPass, ReconcileMissing, ReconcileFinalizer, OpenScope, ScopeError, Dequeue, Begin,
         clusterVars, serverVars, cacheVars, passVars, IInv, WorkerOk
<1>2. CacheBehind'
  BY <1>1 DEF QueueInv, CacheBehind
<1>3. \A k \in Tasks : Remembered(k)'
  BY <1>1, Constants DEF QueueInv, Remembered, Exists, IsTerminated
<1>4. PassRemembers'
  BY <1>1 DEF PassRemembers
<1>5. QED
  BY <1>2, <1>3, <1>4 DEF QueueInv

\* The steps of a pass up to its last change only the finalizer of its own task.
LEMMA QueueMidPass ==
  ASSUME IInv, QueueInv, ContinuePass, ~PatchStatus
  PROVE  QueueInv'
<1>1. UNCHANGED <<taskCache, queue, cur, before>> /\ cur \in Tasks
  BY DEF ContinuePass, PatchMachine, ReportState, AbortNodeTask, AbortDone, NormalBlocked,
     NormalPreflightFails, NormalNothingToDo, CreateNodeTask, PatchMeta, Leave, clusterVars,
     serverVars, cacheVars, IInv, WorkerOk
<1>2. /\ \A t \in Tasks \ {cur} : task'[t] = task[t]
      /\ task'[cur].phase = task[cur].phase
      /\ task[cur].life # "Absent" => task'[cur].life # "Absent"
      /\ task[cur].life = "Deleting" => task'[cur].life \in {"Deleting", "Gone"}
      /\ task[cur].life = "Gone" => task'[cur].life = "Gone"
  <2>1. CASE PatchMeta
    BY <1>1, <2>1 DEF PatchMeta, Exists, IInv, TypeOk, ClusterTypeOk, UpdateTask
  <2>2. CASE ~PatchMeta
    <3>1. UNCHANGED task
      BY <2>2 DEF ContinuePass, PatchMachine, ReportState, AbortNodeTask, AbortDone, NormalBlocked,
         NormalPreflightFails, NormalNothingToDo, CreateNodeTask, clusterVars, serverVars
    <3>2. QED
      BY <3>1
  <2>3. QED
    BY <2>1, <2>2
<1>3. CacheBehind'
  BY <1>1, <1>2 DEF QueueInv, CacheBehind
<1>4. \A t \in Tasks : Remembered(t)'
  BY <1>1, <1>2 DEF QueueInv, Remembered, Exists, IsTerminated
<1>5. PassRemembers'
  BY <1>1 DEF QueueInv, PassRemembers
<1>6. QED
  BY <1>3, <1>4, <1>5 DEF QueueInv

\* A pass ends without a requeue only when its task was terminated before, or
\* its last write made the cached task out of date.
LEMMA QueuePatchStatus ==
  ASSUME IInv, QueueInv, PatchStatus
  PROVE  QueueInv'
<1>1. /\ cur \in Tasks /\ cur' = NoTask
      /\ UNCHANGED taskCache
      /\ Exists(before)
      /\ task \in [Tasks -> UpdateTask] /\ obj \in UpdateTask
      /\ queue \subseteq queue'
      /\ \A t \in Tasks \ {cur} : task'[t] = task[t]
  BY DEF PatchStatus, EndPass, cacheVars, IInv, WorkerOk, TypeOk, ClusterTypeOk
<1>2. task' = task \/ task' = [task EXCEPT ![cur].state = obj.state]
  BY DEF PatchStatus
<1>3. CacheBehind'
  BY <1>1, <1>2 DEF QueueInv, CacheBehind, UpdateTask
<1>4. \A t \in Tasks \ {cur} : Remembered(t)'
  BY <1>1 DEF QueueInv, Remembered, Exists, IsTerminated
<1>5. ASSUME NEW t \in Tasks, t = cur PROVE Remembered(t)'
  <2>1. SUFFICES ASSUME Exists(taskCache[cur]), ~IsTerminated(taskCache[cur].state),
                        taskCache[cur] = task'[cur], cur \notin queue'
                 PROVE  FALSE
    BY <1>1, <1>5 DEF Remembered, Exists, IsTerminated
  <2>2. taskCache[cur] = before
    BY <1>1, <2>1, Constants DEF QueueInv, PassRemembers
  <2>3. IsTerminated(obj.state)
    BY <2>1 DEF PatchStatus, EndPass
  <2>4. obj.state # before.state
    BY <2>1, <2>2, <2>3
  <2>5. CASE task' = [task EXCEPT ![cur].state = obj.state]
    <3>1. task'[cur].state = obj.state
      BY <1>1, <2>5 DEF UpdateTask
    <3>2. QED
      BY <2>1, <2>2, <2>4, <3>1
  <2>6. CASE ~Exists(task[cur]) /\ UNCHANGED task
    BY <2>1, <2>6
  <2>7. CASE EndPass("Yes")
    BY <2>1, <2>7 DEF EndPass
  <2>8. QED
    BY <2>4, <2>5, <2>6, <2>7 DEF PatchStatus
<1>6. PassRemembers'
  BY <1>1 DEF PassRemembers
<1>7. QED
  BY <1>3, <1>4, <1>5, <1>6 DEF QueueInv

LEMMA QueueManager ==
  ASSUME IInv, QueueInv, SyncMachines \/ SyncTasks \/ Resync \/ Restart
  PROVE  QueueInv'
<1> USE DEF QueueInv, CacheBehind, Remembered, PassRemembers, Exists, IsTerminated, clusterVars,
    serverVars, cacheVars, passVars
<1>1. CASE SyncMachines
  BY <1>1 DEF SyncMachines
<1>2. CASE SyncTasks
  BY <1>2, Constants DEF SyncTasks, IInv, TypeOk
<1>3. CASE Resync
  BY <1>3 DEF Resync
<1>4. CASE Restart
  BY <1>4 DEF Restart
<1>5. QED
  BY <1>1, <1>2, <1>3, <1>4

LEMMA QueueNext == ASSUME IInv, QueueInv, [Next]_vars PROVE QueueInv'
<1>1. CASE UNCHANGED vars
  BY <1>1 DEF vars, clusterVars, serverVars, cacheVars, passVars, QueueInv, CacheBehind, Remembered,
     PassRemembers, Exists, IsTerminated
<1>2. CASE Next
  BY <1>2, QueueStartPass, QueueMidPass, QueuePatchStatus, QueueManager, QueueEnvironment
  DEF Next, Manager, Work
<1>3. QED
  BY <1>1, <1>2

-----------------------------------------------------------------------------

\* An unfinished task is always queued or being reconciled, once the cache shows
\* it: no pass, failed patch or restart drops it.
THEOREM NoLostTaskHolds == Spec => []NoLostTask
<1>1. IInv /\ QueueInv /\ [Next]_vars => QueueInv'
  BY QueueNext
<1>2. QueueInv => NoLostTask
  BY DEF QueueInv, Remembered, NoLostTask
<1>3. QED
  BY QueueInit, Invariance, <1>1, <1>2, PTL DEF Spec

=============================================================================
