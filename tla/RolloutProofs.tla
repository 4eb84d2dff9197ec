---------------------------- MODULE RolloutProofs ----------------------------
(***************************************************************************)
(* The UpdateTask controller implements RollingUpdate, for any number of   *)
(* tasks and machines and whatever the caches lag behind.                  *)
(***************************************************************************)
EXTENDS UpdateTaskRollout, OutcomeProofs

-----------------------------------------------------------------------------
(* A machine is missed only before its update has started.                 *)

InPass == pc \in {"Machines", "Abort", "Normal"}

\* The annotation of a machine with a node update has reached the cache, and the
\* copies of a pass that listed it; what a pass has seen of its annotations and
\* still stands the cache has, too.
KnownScope ==
  /\ \A n \in NodeTasks : nodeTask[n].owner # NoTask =>
       /\ task[nodeTask[n].owner].life # "Absent"
       /\ machine[nodeTask[n].machine].running = nodeTask[n].owner
            => machineCache[nodeTask[n].machine].running = nodeTask[n].owner
  /\ InPass => \A n \in NodeTasks : nodeTask[n].owner = cur =>
       \/ machineCache[nodeTask[n].machine].running # cur
       \/ machines[nodeTask[n].machine].running = cur
  /\ InPass => \A m \in Machines :
       machines[m].running = cur /\ machine[m].running = cur => machineCache[m].running = cur

\* Node updates are started only on machines the pass has seen in scope; nothing is
\* annotated with a task that exists.
Orderly ==
  /\ \A t \in Tasks : task[t].life # "Absent" =>
       /\ task'[t].life # "Absent"
       /\ \A m \in Machines : machine'[m].running = t => machine[m].running = t
  /\ \A n \in NodeTasks :
       \/ nodeTask'[n].owner = NoTask
       \/ /\ nodeTask'[n].owner = nodeTask[n].owner
          /\ nodeTask'[n].machine = nodeTask[n].machine
       \/ /\ pc = "Normal" /\ pc' = "PatchMeta"
          /\ nodeTask'[n].owner = cur
          /\ nodeTask'[n].machine \in Machines
          /\ machines[nodeTask'[n].machine].running = cur
  /\ UNCHANGED machineCache
  /\ \/ pc' \notin {"Machines", "Abort", "Normal"}
     \/ InPass /\ UNCHANGED <<cur, machines>>

LEMMA KnownOrderly ==
  ASSUME IInv, HonestInv, KnownScope, Orderly
  PROVE  KnownScope'
<1>1. ASSUME NEW n \in NodeTasks, nodeTask'[n].owner # NoTask
      PROVE  /\ task'[nodeTask'[n].owner].life # "Absent"
             /\ machine'[nodeTask'[n].machine].running = nodeTask'[n].owner
                  => machineCache'[nodeTask'[n].machine].running = nodeTask'[n].owner
  <2>1. CASE /\ nodeTask'[n].owner = nodeTask[n].owner
             /\ nodeTask'[n].machine = nodeTask[n].machine
    <3>1. nodeTask[n].owner \in Tasks /\ nodeTask[n].machine \in Machines
      BY <1>1, <2>1 DEF IInv, NodeTasksOk, TypeOk, ClusterTypeOk, NodeUpdateTask
    <3>2. QED
      BY <1>1, <2>1, <3>1 DEF Orderly, KnownScope
  <2>2. CASE /\ pc = "Normal"
             /\ nodeTask'[n].owner = cur
             /\ nodeTask'[n].machine \in Machines
             /\ machines[nodeTask'[n].machine].running = cur
    <3>1. cur \in Tasks /\ task[cur].life # "Absent"
      BY <2>2, Constants DEF IInv, WorkerOk, HonestInv, BlankOk
    <3>2. QED
      BY <2>2, <3>1 DEF Orderly, KnownScope, InPass
  <2>3. QED
    BY <1>1, <2>1, <2>2 DEF Orderly
<1>2. CASE pc' \notin {"Machines", "Abort", "Normal"}
  BY <1>1, <1>2 DEF KnownScope, InPass
<1>3. CASE InPass /\ pc' # "PatchMeta" /\ UNCHANGED <<cur, machines>>
  <2>1. cur \in Tasks /\ task[cur].life # "Absent"
    BY <1>3, Constants DEF InPass, IInv, WorkerOk, HonestInv, BlankOk
  <2>2. \A n \in NodeTasks : nodeTask'[n].owner = cur =>
          nodeTask[n].owner = cur /\ nodeTask'[n].machine = nodeTask[n].machine
    BY <1>3, <2>1, Constants DEF Orderly
  <2>3. QED
    BY <1>1, <1>3, <2>1, <2>2 DEF Orderly, KnownScope, InPass
<1>4. QED
  BY <1>2, <1>3 DEF Orderly

LEMMA KnownPass == ASSUME IInv, ContinuePass PROVE Orderly
<1> USE DEF Orderly, InPass, IInv, TypeOk, ClusterTypeOk, clusterVars, serverVars, cacheVars, Leave
<1>1. ASSUME NEW m \in Machines, PatchMachine(m) PROVE Orderly
  BY <1>1 DEF PatchMachine, Machine
<1>2. CASE ReportState
  BY <1>2 DEF ReportState
<1>3. ASSUME NEW n \in NodeTasks, AbortNodeTask(n) PROVE Orderly
  <2>1. \A k \in NodeTasks : /\ nodeTask'[k].owner = nodeTask[k].owner
                             /\ nodeTask'[k].machine = nodeTask[k].machine
    BY <1>3 DEF AbortNodeTask, NodeUpdateTask
  <2>2. /\ UNCHANGED <<task, machine, machineCache, cur>>
        /\ pc = "Abort"
        /\ pc' = "PatchMeta" \/ UNCHANGED <<pc, machines>>
    BY <1>3 DEF AbortNodeTask
  <2>3. QED
    BY <2>1, <2>2
<1>4. CASE AbortDone \/ NormalBlocked \/ NormalNothingToDo \/ NormalPreflightFails
  BY <1>4 DEF AbortDone, NormalBlocked, NormalNothingToDo, NormalPreflightFails
<1>5. ASSUME NEW m \in Machines, CreateNodeTask(m) PROVE Orderly
  <2>1. machines[m].running = cur /\ pc = "Normal" /\ pc' = "PatchMeta"
    BY <1>5 DEF CreateNodeTask, NextMachines, Waiting, InScope
  <2>2. UNCHANGED <<task, machine, machineCache>>
    BY <1>5 DEF CreateNodeTask
  <2>3. \A n \in NodeTasks :
          \/ nodeTask'[n] = nodeTask[n]
          \/ nodeTask'[n].owner = cur /\ nodeTask'[n].machine = m
    BY <1>5 DEF CreateNodeTask
  <2>4. QED
    BY <2>1, <2>2, <2>3
<1>6. CASE PatchMeta
  <2>1. \A t \in Tasks : task[t].life # "Absent" => task'[t].life # "Absent"
    BY <1>6 DEF PatchMeta, UpdateTask
  <2>2. QED
    BY <1>6, <2>1 DEF PatchMeta
<1>7. CASE PatchStatus
  BY <1>7 DEF PatchStatus, EndPass, UpdateTask
<1>8. QED
  BY <1>1, <1>2, <1>3, <1>4, <1>5, <1>6, <1>7 DEF ContinuePass

LEMMA KnownEnvironment ==
  ASSUME IInv, Environment, UNCHANGED passVars
  PROVE  Orderly
<1>1. UNCHANGED <<machineCache, pc, cur, machines>>
  BY EnvironmentEvolves DEF passVars, Evolve, IInv, TypeOk
<1>2. \A n \in NodeTasks :
        \/ nodeTask'[n].owner = NoTask
        \/ /\ nodeTask'[n].owner = nodeTask[n].owner
           /\ nodeTask'[n].machine = nodeTask[n].machine
  BY EnvironmentEvolves DEF Evolve, NodeTasksEvolve, NoNodeTask, IInv, TypeOk
<1> DEFINE Stay == \A t \in Tasks : task[t].life # "Absent" => task'[t].life # "Absent"
           Taken == \A t \in Tasks, m \in Machines :
             task[t].life # "Absent" /\ machine'[m].running = t => machine[m].running = t
<1>3. Stay
  <2> USE DEF IInv, TypeOk, ClusterTypeOk, UpdateTask, Exists
  <2>1. \/ UNCHANGED task
        \/ \E k \in Tasks : CreateTask(k) \/ AbortOlderTask(k) \/ AbortTask(k) \/ DeleteTask(k)
    BY DEF Environment, UpdateHook, OtherActors, Surroundings, AnnotateMachine, ForgetUpToDate,
       JoinMachine, DeleteMachine, RemoveMachine, LoseHealth, RegainHealth, ReportProgress,
       CollectNodeTask
  <2>2. ASSUME NEW k \in Tasks,
               CreateTask(k) \/ AbortOlderTask(k) \/ AbortTask(k) \/ DeleteTask(k)
        PROVE  Stay
    <3>1. CASE CreateTask(k) \/ DeleteTask(k)
      <4>1. PICK l \in {"Live", "Deleting", "Gone"} : task' = [task EXCEPT ![k].life = l]
        BY <3>1 DEF CreateTask, DeleteTask
      <4>2. QED
        BY <4>1
    <3>2. CASE AbortOlderTask(k) \/ AbortTask(k)
      <4>1. task' = [task EXCEPT ![k].phase = "Abort"]
        BY <3>2 DEF AbortOlderTask, AbortTask
      <4>2. QED
        BY <4>1
    <3>3. QED
      BY <2>2, <3>1, <3>2
  <2>3. QED
    BY <2>1, <2>2
<1>4. Taken
  <2> USE DEF IInv, TypeOk, ClusterTypeOk, Machine
  <2>1. CASE UNCHANGED machine
    BY <2>1
  <2>2. ASSUME NEW m \in Machines, NEW t \in Tasks, AnnotateMachine(m, t) PROVE Taken
    BY <2>2 DEF AnnotateMachine
  <2>3. ASSUME NEW m \in Machines,
               \/ ForgetUpToDate(m) \/ JoinMachine(m) \/ DeleteMachine(m)
               \/ RemoveMachine(m) \/ LoseHealth(m) \/ RegainHealth(m)
        PROVE  Taken
    <3>1. \A i \in Machines : machine'[i].running = machine[i].running
      <4>1. CASE ForgetUpToDate(m)
        BY <4>1 DEF ForgetUpToDate
      <4>2. CASE JoinMachine(m) \/ DeleteMachine(m) \/ RemoveMachine(m)
        <5>1. PICK l \in {"Live", "Deleting", "Gone"} : machine' = [machine EXCEPT ![m].life = l]
          BY <4>2 DEF JoinMachine, DeleteMachine, RemoveMachine
        <5>2. QED
          BY <5>1
      <4>3. CASE LoseHealth(m) \/ RegainHealth(m)
        BY <4>3 DEF LoseHealth, RegainHealth
      <4>4. QED
        BY <2>3, <4>1, <4>2, <4>3
    <3>2. QED
      BY <3>1
  <2>4. CASE \/ \E t \in Tasks : \/ CreateTask(t) \/ AbortTask(t) \/ AbortOlderTask(t)
                                \/ DeleteTask(t)
             \/ \E n \in NodeTasks : CollectNodeTask(n)
             \/ \E n \in NodeTasks, s \in States : ReportProgress(n, s)
    BY <2>1, <2>4 DEF CreateTask, AbortTask, AbortOlderTask, DeleteTask, CollectNodeTask,
       ReportProgress
  <2>5. QED
    BY <2>2, <2>3, <2>4 DEF Environment, UpdateHook, OtherActors, Surroundings
<1>5. QED
  BY <1>1, <1>2, <1>3, <1>4 DEF Orderly, InPass

LEMMA KnownInit == Init => KnownScope
BY DEF Init, ClusterInit, PassInit, KnownScope, InPass, NoNodeTask

LEMMA KnownNext == ASSUME IInv, HonestInv, KnownScope, [Next]_vars PROVE KnownScope'
<1> USE DEF clusterVars, serverVars, cacheVars
<1>1. CASE ContinuePass \/ (Environment /\ UNCHANGED <<queue, passVars>>)
  BY <1>1, KnownPass, KnownEnvironment, KnownOrderly
<1>2. ASSUME NEW t \in Tasks, OpenScope(t) PROVE KnownScope'
  BY <1>2 DEF OpenScope, KnownScope, InPass
<1>3. ASSUME NEW t \in Tasks, ReconcileMissing(t) \/ ReconcileFinalizer(t) \/ ScopeError(t)
      PROVE  KnownScope'
  BY <1>3 DEF ReconcileMissing, ReconcileFinalizer, ScopeError, Dequeue, passVars, KnownScope, InPass
<1>4. CASE SyncMachines
  <2>1. \A n \in NodeTasks : nodeTask[n].owner # NoTask => nodeTask[n].machine \in Machines
    BY DEF IInv, NodeTasksOk
  <2>2. InPass => cur # NoTask
    BY Constants DEF InPass, IInv, WorkerOk
  <2>3. QED
    BY <1>4, <2>1, <2>2 DEF SyncMachines, passVars, KnownScope, InPass
<1>5. CASE SyncTasks \/ Resync \/ UNCHANGED vars
  BY <1>5 DEF SyncTasks, Resync, passVars, vars, KnownScope, InPass
<1>6. CASE Restart
  BY <1>6 DEF Restart, KnownScope, InPass
<1>7. QED
  BY <1>1, <1>2, <1>3, <1>4, <1>5, <1>6 DEF Next, Manager, Work, StartPass

-----------------------------------------------------------------------------
(* Reading the refinement mapping.                                         *)

RefineInv ==
  /\ IInv
  /\ HonestInv
  /\ FinalizerInv
  /\ OutcomeInv
  /\ KnownScope

Refines(t) == [Rollout(t)!Next]_(Rollout(t)!vars)

\* The update of a machine is none, or that of its one node update task.
LEMMA UpdateIsNone ==
  \A t \in Tasks, m \in Machines : UpdatesOf(t, m) = {} => UpdateOf(t)[m] = "None"
BY DEF UpdateOf

UpdateReadable ==
  \A t \in Tasks, n \in NodeTasks :
    nodeTask[n].owner = t /\ nodeTask[n].machine \in Machines =>
      UpdateOf(t)[nodeTask[n].machine] = Progress(nodeTask[n].state)

LEMMA UpdateIsThat == OneNodeTaskPerMachine => UpdateReadable
<1>1. SUFFICES ASSUME OneNodeTaskPerMachine, NEW t \in Tasks, NEW n \in NodeTasks,
                      nodeTask[n].owner = t, nodeTask[n].machine \in Machines
               PROVE  UpdateOf(t)[nodeTask[n].machine] = Progress(nodeTask[n].state)
  BY DEF UpdateReadable
<1> DEFINE m == nodeTask[n].machine
           k == CHOOSE i \in UpdatesOf(t, m) : TRUE
<1>2. n \in UpdatesOf(t, m)
  BY <1>1 DEF UpdatesOf
<1>3. k \in UpdatesOf(t, m)
  BY <1>2
<1>4. k = n
  BY <1>1, <1>2, <1>3, Constants DEF OneNodeTaskPerMachine, UpdatesOf
<1>5. UpdateOf(t)[m] = Progress(nodeTask[k].state)
  BY <1>1, <1>2 DEF UpdateOf
<1>6. QED
  BY <1>4, <1>5

\* It stays what it is when the node update tasks of the machine do.
LEMMA UpdateKept ==
  ASSUME NEW t \in Tasks, NEW m \in Machines,
         \A n \in NodeTasks :
           /\ (nodeTask'[n].owner = t /\ nodeTask'[n].machine = m)
                <=> (nodeTask[n].owner = t /\ nodeTask[n].machine = m)
           /\ nodeTask[n].owner = t /\ nodeTask[n].machine = m
                => Progress(nodeTask'[n].state) = Progress(nodeTask[n].state)
  PROVE  UpdateOf(t)'[m] = UpdateOf(t)[m]
<1>1. UpdatesOf(t, m)' = UpdatesOf(t, m)
  BY DEF UpdatesOf
<1>2. CASE UpdatesOf(t, m) = {}
  BY <1>1, <1>2 DEF UpdateOf
<1>3. CASE UpdatesOf(t, m) # {}
  <2> DEFINE k == CHOOSE n \in UpdatesOf(t, m) : TRUE
  <2>1. k \in UpdatesOf(t, m)
    BY <1>3
  <2>2. UpdateOf(t)[m] = Progress(nodeTask[k].state)
    BY <1>3 DEF UpdateOf
  <2>3. UpdateOf(t)'[m] = Progress(nodeTask'[k].state)
    BY <1>1, <1>3 DEF UpdateOf, Progress, IsTerminated
  <2>4. QED
    BY <2>1, <2>2, <2>3 DEF UpdatesOf
<1>4. QED
  BY <1>2, <1>3

\* Both are functions on the machines, to be compared machine by machine.
LEMMA UpdateShape ==
  ASSUME NEW t \in Tasks
  PROVE  /\ UpdateOf(t) = [m \in Machines |-> UpdateOf(t)[m]]
         /\ UpdateOf(t)' = [m \in Machines |-> UpdateOf(t)'[m]]
BY DEF UpdateOf

LEMMA SameUpdates ==
  ASSUME NEW t \in Tasks, UNCHANGED nodeTask
  PROVE  UpdateOf(t)' = UpdateOf(t)
BY DEF UpdateOf, UpdatesOf, Progress, IsTerminated

LEMMA SameTask ==
  ASSUME NEW t \in Tasks, task'[t] = task[t]
  PROVE  LifeOf(t)' = LifeOf(t) /\ task'[t].state = task[t].state
BY DEF LifeOf, Stopping

LEMMA SameMissed ==
  ASSUME NEW t \in Tasks, UNCHANGED misled
  PROVE  MissedBy(t)' = MissedBy(t)
BY DEF MissedBy

LEMMA SameMachines ==
  ASSUME NEW t \in Tasks, UNCHANGED machine
  PROVE  There' = There /\ ScopeOf(t)' = ScopeOf(t)
BY DEF There, ScopeOf, InScope

-----------------------------------------------------------------------------
(* What each step is for a task of the roll-out.                           *)

\* Nothing in the server.
LEMMA RefinesSilent ==
  ASSUME UNCHANGED <<serverVars, misled>>, NEW t \in Tasks
  PROVE  Refines(t)
BY SameUpdates, SameTask, SameMachines, SameMissed DEF serverVars, Refines, Rollout!vars

\* What a pass leaves out when it says Updated has no node update yet: its task
\* has missed it.
LEMMA RefinesReportState ==
  ASSUME RefineInv, ReportState, NEW t \in Tasks
  PROVE  Refines(t)
<1>1. UNCHANGED serverVars /\ cur \in Tasks
  BY DEF ReportState, RefineInv, IInv, WorkerOk
<1>2. /\ UpdateOf(t)' = UpdateOf(t) /\ LifeOf(t)' = LifeOf(t)
      /\ There' = There /\ ScopeOf(t)' = ScopeOf(t)
  BY <1>1, SameUpdates, SameTask, SameMachines DEF serverVars
<1>3. UNCHANGED misled \/ misled' = misled \cup ({cur} \X Unseen)
  BY DEF ReportState
<1>4. CASE t # cur \/ UNCHANGED misled
  <2>1. MissedBy(t)' = MissedBy(t)
    BY <1>1, <1>3, <1>4 DEF MissedBy
  <2>2. QED
    BY <1>1, <1>2, <2>1 DEF serverVars, Refines, Rollout!vars
<1>5. CASE t = cur /\ misled' = misled \cup ({cur} \X Unseen)
  <2>1. Unseen \subseteq {m \in Machines : UpdateOf(t)[m] = "None"}
    <3>1. SUFFICES ASSUME NEW m \in Unseen, UpdatesOf(t, m) # {}
                   PROVE  FALSE
      BY UpdateIsNone DEF Unseen
    <3>2. PICK n \in NodeTasks : nodeTask[n].owner = t /\ nodeTask[n].machine = m
      BY <3>1 DEF UpdatesOf
    <3>3. InPass
      BY DEF ReportState, InPass
    <3>4. machine[m].running = t => machineCache[m].running = t
      BY <1>1, <1>5, <3>2, Constants DEF RefineInv, KnownScope
    <3>5. machineCache[m].running = t => machines[m].running = t
      BY <1>5, <3>2, <3>3 DEF RefineInv, KnownScope
    <3>6. QED
      BY <1>5, <3>4, <3>5 DEF Unseen, InScope
  <2>2. /\ MissedBy(t) \subseteq MissedBy(t)'
        /\ MissedBy(t)' \subseteq MissedBy(t) \cup {m \in Machines : UpdateOf(t)[m] = "None"}
    BY <1>1, <1>5, <2>1 DEF MissedBy, Unseen
  <2>3. LifeOf(t) # "Absent"
    BY <1>1, <1>5, Constants DEF LifeOf, RefineInv, HonestInv, BlankOk
  <2>4. Rollout(t)!Miss
    BY <1>1, <1>2, <2>2, <2>3 DEF serverVars, Rollout!Miss
  <2>5. QED
    BY <2>4 DEF Refines, Rollout!Next
<1>6. QED
  BY <1>3, <1>4, <1>5

\* A change of another task.
LEMMA RefinesOther ==
  ASSUME UNCHANGED <<machine, nodeTask, misled>>, NEW t \in Tasks, task'[t] = task[t]
  PROVE  Refines(t)
BY SameUpdates, SameTask, SameMachines, SameMissed DEF Refines, Rollout!vars

\* A task that may lose its finalizer, or has none, keeps nothing running.
LEMMA KeptIsQuiet ==
  ASSUME RefineInv, NEW t \in Tasks, Unstarted(t) \/ Kept(t),
         NEW m \in Machines, UpdateOf(t)[m] = "Running"
  PROVE  There[m] = "Gone" \/ m \in MissedBy(t)
<1>1. PICK n \in NodeTasks : nodeTask[n].owner = t /\ nodeTask[n].machine = m
  BY UpdateIsNone DEF UpdatesOf
<1>2. Running(n)
  BY <1>1, UpdateIsThat, Constants
  DEF UpdateReadable, Progress, IsTerminated, Running, RefineInv, IInv
<1>3. ~Exists(machine[m]) \/ <<t, m>> \in misled
  BY <1>1, <1>2 DEF Unstarted, Kept
<1>4. machine[m].life # "Absent" /\ machine[m].life \in Lives
  BY <1>1, Constants DEF RefineInv, IInv, NodeTasksOk, CachesOk, TypeOk, ClusterTypeOk, Machine
<1>5. QED
  BY <1>3, <1>4 DEF There, Exists, Lives, MissedBy

LEMMA RefinesTaskSteps ==
  ASSUME RefineInv, NEW k \in Tasks,
         CreateTask(k) \/ AbortOlderTask(k) \/ AbortTask(k) \/ DeleteTask(k),
         NEW t \in Tasks
  PROVE  Refines(t)
<1>1. UNCHANGED <<machine, nodeTask, misled>>
  BY DEF CreateTask, AbortOlderTask, AbortTask, DeleteTask, cacheVars
<1>2. CASE t # k
  <2>1. task'[t] = task[t]
    BY <1>2
    DEF CreateTask, AbortOlderTask, AbortTask, DeleteTask, RefineInv, IInv, TypeOk, ClusterTypeOk
  <2>2. QED
    BY <1>1, <2>1, RefinesOther
<1>3. CASE t = k
  <2>1. /\ UpdateOf(t)' = UpdateOf(t) /\ There' = There /\ ScopeOf(t)' = ScopeOf(t)
        /\ MissedBy(t)' = MissedBy(t)
    BY <1>1, SameUpdates, SameMachines, SameMissed
  <2>2. task[t] \in UpdateTask /\ (task[t].life = "Absent" => task[t] = AbsentTask)
    BY DEF RefineInv, HonestInv, BlankOk, IInv, TypeOk, ClusterTypeOk
  <2>3. task \in [Tasks -> UpdateTask]
    BY DEF RefineInv, IInv, TypeOk, ClusterTypeOk
  <2>4. CASE CreateTask(t)
    <3>1. task[t] = AbsentTask /\ task'[t] = [task[t] EXCEPT !.life = "Live"]
      BY <2>2, <2>3, <2>4 DEF CreateTask
    <3>2. LifeOf(t) = "Absent" /\ LifeOf(t)' = "Live" /\ task'[t].state = task[t].state
      BY <3>1 DEF LifeOf, AbsentTask, Stopping
    <3>3. Rollout(t)!Create
      BY <2>1, <3>2 DEF Rollout!Create
    <3>4. QED
      BY <3>3 DEF Refines, Rollout!Next
  <2>5. CASE AbortOlderTask(t) \/ AbortTask(t)
    <3>1. /\ Exists(task[t])
          /\ task'[t].life = task[t].life /\ task'[t].phase = "Abort"
          /\ task'[t].state = task[t].state
      BY <2>2, <2>3, <2>5 DEF AbortOlderTask, AbortTask, UpdateTask
    <3>2. CASE task[t].life = "Live" /\ task[t].phase = "Update"
      <4>1. LifeOf(t) = "Live" /\ LifeOf(t)' = "Stopped"
        BY <3>1, <3>2 DEF LifeOf, Stopping
      <4>2. Rollout(t)!Stop
        BY <2>1, <3>1, <4>1 DEF Rollout!Stop
      <4>3. QED
        BY <4>2 DEF Refines, Rollout!Next
    <3>3. CASE task[t].life = "Deleting" \/ task[t].phase = "Abort"
      <4>1. LifeOf(t)' = LifeOf(t)
        BY <3>1, <3>3 DEF LifeOf, Stopping, Exists
      <4>2. QED
        BY <2>1, <3>1, <4>1 DEF Refines, Rollout!vars
    <3>4. QED
      BY <2>2, <3>1, <3>2, <3>3 DEF Exists, UpdateTask, Phases
  <2>6. CASE DeleteTask(t)
    <3>1. /\ task[t].life = "Live" /\ task'[t].life \in {"Gone", "Deleting"}
          /\ task'[t].phase = task[t].phase /\ task'[t].state = task[t].state
      BY <2>2, <2>3, <2>6 DEF DeleteTask, UpdateTask
    <3>2. LifeOf(t) \in {"Live", "Stopped"}
      BY <3>1 DEF LifeOf
    <3>3. CASE task'[t].life = "Gone"
      <4>1. LifeOf(t)' = "Over"
        BY <3>3 DEF LifeOf
      <4>2. Unstarted(t) \/ Kept(t)
        BY <2>2, <2>3, <2>6, <3>3 DEF DeleteTask, RefineInv, FinalizerInv, SettledOk, Settled, UpdateTask
      <4>3. Rollout(t)!Finish
        BY <2>1, <3>1, <3>2, <4>1, <4>2, KeptIsQuiet DEF Rollout!Finish
      <4>4. QED
        BY <4>3 DEF Refines, Rollout!Next
    <3>4. CASE task'[t].life = "Deleting"
      <4>1. LifeOf(t)' = "Stopped"
        BY <3>4 DEF LifeOf, Stopping
      <4>2. LifeOf(t) = "Live" => Rollout(t)!Stop
        BY <2>1, <3>1, <4>1 DEF Rollout!Stop
      <4>3. LifeOf(t) = "Stopped" => UNCHANGED Rollout(t)!vars
        BY <2>1, <3>1, <4>1 DEF Rollout!vars
      <4>4. QED
        BY <3>2, <4>2, <4>3 DEF Refines, Rollout!Next
    <3>5. QED
      BY <3>1, <3>3, <3>4
  <2>7. QED
    BY <1>3, <2>4, <2>5, <2>6
<1>4. QED
  BY <1>2, <1>3

\* A machine is annotated: with a task that is not there yet, and so taken from
\* any other.
LEMMA RefinesAnnotate ==
  ASSUME RefineInv, NEW m \in Machines, NEW k \in Tasks, AnnotateMachine(m, k), NEW t \in Tasks
  PROVE  Refines(t)
<1>1. /\ UNCHANGED <<task, nodeTask, misled>> /\ task[k].life = "Absent"
      /\ \A i \in Machines : /\ machine'[i].life = machine[i].life
                             /\ i # m => machine'[i].running = machine[i].running
      /\ machine'[m].running = k
  BY DEF AnnotateMachine, RefineInv, IInv, TypeOk, ClusterTypeOk, Machine, cacheVars
<1>2. UpdateOf(t)' = UpdateOf(t) /\ LifeOf(t)' = LifeOf(t) /\ MissedBy(t)' = MissedBy(t)
  BY <1>1, SameUpdates, SameTask, SameMissed
<1>3. There' = There
  BY <1>1 DEF There
<1>4. ScopeOf(t)' \in SUBSET Machines
  BY DEF ScopeOf
<1>5. \A i \in ScopeOf(t)' \ ScopeOf(t) : LifeOf(t) = "Absent" /\ There[i] = "There"
  <2>1. machine[m].life \in {"Live", "Deleting"}
    BY DEF AnnotateMachine, Exists
  <2>2. \A i \in ScopeOf(t)' \ ScopeOf(t) : i = m /\ t = k
    BY <1>1 DEF ScopeOf, InScope
  <2>3. QED
    BY <1>1, <2>1, <2>2 DEF LifeOf, There
<1>6. Rollout(t)!Annotate
  BY <1>1, <1>2, <1>3, <1>4, <1>5 DEF Rollout!Annotate
<1>7. QED
  BY <1>6 DEF Refines, Rollout!Next

\* A machine changes, but is there as before.
LEMMA RefinesMachine ==
  ASSUME UNCHANGED <<task, nodeTask, misled>>, NEW t \in Tasks,
         \A m \in Machines :
           /\ machine'[m].running = machine[m].running
           /\ \/ machine'[m].life = machine[m].life
              \/ machine[m].life = "Live" /\ machine'[m].life = "Deleting"
  PROVE  Refines(t)
<1>1. UpdateOf(t)' = UpdateOf(t) /\ LifeOf(t)' = LifeOf(t) /\ MissedBy(t)' = MissedBy(t)
  BY SameUpdates, SameTask, SameMissed
<1>2. There' = There /\ ScopeOf(t)' = ScopeOf(t)
  BY DEF There, ScopeOf, InScope
<1>3. QED
  BY <1>1, <1>2 DEF Refines, Rollout!vars

LEMMA RefinesMachineSteps ==
  ASSUME RefineInv, NEW m \in Machines, NEW t \in Tasks,
         \/ ForgetUpToDate(m) \/ DeleteMachine(m) \/ LoseHealth(m) \/ RegainHealth(m)
         \/ PatchMachine(m)
  PROVE  Refines(t)
<1>1. UNCHANGED <<task, nodeTask, misled>>
  BY DEF ForgetUpToDate, DeleteMachine, LoseHealth, RegainHealth, PatchMachine, cacheVars
<1>2. \A i \in Machines :
        /\ machine'[i].running = machine[i].running
        /\ \/ machine'[i].life = machine[i].life
           \/ machine[i].life = "Live" /\ machine'[i].life = "Deleting"
  <2>1. machine \in [Machines -> Machine]
    BY DEF RefineInv, IInv, TypeOk, ClusterTypeOk
  <2>2. CASE ForgetUpToDate(m)
    BY <2>1, <2>2 DEF ForgetUpToDate, Machine
  <2>3. CASE LoseHealth(m)
    BY <2>1, <2>3 DEF LoseHealth, Machine
  <2>4. CASE RegainHealth(m)
    BY <2>1, <2>4 DEF RegainHealth, Machine
  <2>5. CASE DeleteMachine(m)
    BY <2>1, <2>5 DEF DeleteMachine, Machine
  <2>6. CASE PatchMachine(m)
    BY <2>1, <2>6 DEF PatchMachine, Machine
  <2>7. QED
    BY <2>2, <2>3, <2>4, <2>5, <2>6
<1>3. QED
  BY <1>1, <1>2, RefinesMachine

\* A machine comes or goes.
LEMMA RefinesComeOrGo ==
  ASSUME RefineInv, NEW m \in Machines, JoinMachine(m) \/ RemoveMachine(m), NEW t \in Tasks
  PROVE  Refines(t)
<1>1. UNCHANGED <<task, nodeTask, misled>>
  BY DEF JoinMachine, RemoveMachine, cacheVars
<1>2. UpdateOf(t)' = UpdateOf(t) /\ LifeOf(t)' = LifeOf(t) /\ MissedBy(t)' = MissedBy(t)
  BY <1>1, SameUpdates, SameTask, SameMissed
<1>3. /\ \A i \in Machines : machine'[i].running = machine[i].running
      /\ \A i \in Machines \ {m} : machine'[i].life = machine[i].life
  <2> USE DEF RefineInv, IInv, TypeOk, ClusterTypeOk, Machine
  <2>1. CASE JoinMachine(m)
    BY <2>1 DEF JoinMachine
  <2>2. CASE RemoveMachine(m)
    BY <2>2 DEF RemoveMachine
  <2>3. QED
    BY <2>1, <2>2
<1>4. ScopeOf(t)' = ScopeOf(t)
  BY <1>3 DEF ScopeOf, InScope
<1>5. CASE JoinMachine(m)
  <2>1. machine[m].life = "Absent" /\ machine'[m].life = "Live"
    BY <1>5 DEF JoinMachine, RefineInv, IInv, TypeOk, ClusterTypeOk, Machine
  <2>2. There[m] = "Coming" /\ There' = [There EXCEPT ![m] = "There"]
    BY <1>3, <2>1 DEF There
  <2>3. Rollout(t)!Come(m)
    BY <1>1, <1>2, <1>4, <2>2 DEF Rollout!Come
  <2>4. QED
    BY <2>3 DEF Refines, Rollout!Next
<1>6. CASE RemoveMachine(m)
  <2>1. machine[m].life = "Deleting" /\ machine'[m].life = "Gone"
    BY <1>6 DEF RemoveMachine, RefineInv, IInv, TypeOk, ClusterTypeOk, Machine
  <2>2. There[m] = "There" /\ There' = [There EXCEPT ![m] = "Gone"]
    BY <1>3, <2>1 DEF There
  <2>3. Rollout(t)!Leave(m)
    BY <1>1, <1>2, <1>4, <2>2 DEF Rollout!Leave
  <2>4. QED
    BY <2>3 DEF Refines, Rollout!Next
<1>7. QED
  BY <1>5, <1>6

\* A node update reports: for its task an update ends, or none does.
LEMMA RefinesReport ==
  ASSUME RefineInv, NEW n \in NodeTasks, NEW s \in States, ReportProgress(n, s), NEW t \in Tasks
  PROVE  Refines(t)
<1>1. UNCHANGED <<task, machine, misled>>
  BY DEF ReportProgress, cacheVars
<1>2. /\ LifeOf(t)' = LifeOf(t) /\ There' = There /\ ScopeOf(t)' = ScopeOf(t)
      /\ MissedBy(t)' = MissedBy(t)
  BY <1>1, SameTask, SameMachines, SameMissed
<1>3. /\ nodeTask[n].owner # NoTask /\ ~IsTerminated(nodeTask[n].state)
      /\ nodeTask'[n].owner = nodeTask[n].owner /\ nodeTask'[n].machine = nodeTask[n].machine
      /\ nodeTask'[n].state = s /\ s # "Unknown"
      /\ \A k \in NodeTasks \ {n} : nodeTask'[k] = nodeTask[k]
  BY DEF ReportProgress, RefineInv, IInv, TypeOk, ClusterTypeOk, NodeUpdateTask
<1> DEFINE m == nodeTask[n].machine
<1>4. m \in Machines /\ OneNodeTaskPerMachine
  BY <1>3 DEF RefineInv, IInv, NodeTasksOk
<1>5. CASE nodeTask[n].owner # t \/ ~IsTerminated(s)
  <2>1. \A i \in Machines : UpdateOf(t)'[i] = UpdateOf(t)[i]
    <3>1. SUFFICES ASSUME NEW i \in Machines PROVE UpdateOf(t)'[i] = UpdateOf(t)[i]
      OBVIOUS
    <3>2. \A k \in NodeTasks :
            /\ (nodeTask'[k].owner = t /\ nodeTask'[k].machine = i)
                 <=> (nodeTask[k].owner = t /\ nodeTask[k].machine = i)
            /\ nodeTask[k].owner = t /\ nodeTask[k].machine = i
                 => Progress(nodeTask'[k].state) = Progress(nodeTask[k].state)
      BY <1>3, <1>5 DEF Progress
    <3>3. QED
      BY <3>2, UpdateKept
  <2>2. UpdateOf(t)' = UpdateOf(t)
    BY <2>1, UpdateShape
  <2>3. QED
    BY <1>1, <1>2, <2>2 DEF Refines, Rollout!vars
<1>6. CASE nodeTask[n].owner = t /\ IsTerminated(s)
  <2>1. UpdateOf(t)[m] = "Running"
    BY <1>3, <1>4, <1>6, UpdateIsThat DEF UpdateReadable, Progress
  <2>2. UpdateOf(t)'[m] = s
    <3>1. OneNodeTaskPerMachine'
      BY <1>3, <1>4 DEF OneNodeTaskPerMachine
    <3>2. UpdateReadable'
      BY <3>1, UpdateIsThat, PTL
    <3>3. QED
      BY <1>3, <1>4, <1>6, <3>2 DEF UpdateReadable, Progress
  <2>3. \A i \in Machines \ {m} : UpdateOf(t)'[i] = UpdateOf(t)[i]
    <3>1. SUFFICES ASSUME NEW i \in Machines \ {m} PROVE UpdateOf(t)'[i] = UpdateOf(t)[i]
      OBVIOUS
    <3>2. \A k \in NodeTasks :
            /\ (nodeTask'[k].owner = t /\ nodeTask'[k].machine = i)
                 <=> (nodeTask[k].owner = t /\ nodeTask[k].machine = i)
            /\ nodeTask[k].owner = t /\ nodeTask[k].machine = i
                 => Progress(nodeTask'[k].state) = Progress(nodeTask[k].state)
      BY <1>3
    <3>3. QED
      BY <3>2, UpdateKept
  <2>4. UpdateOf(t)' = [UpdateOf(t) EXCEPT ![m] = s]
    BY <1>4, <2>2, <2>3, UpdateShape
  <2>5. s = "Aborted" => LifeOf(t) \in {"Stopped", "Over"}
    <3>1. SUFFICES ASSUME s = "Aborted" PROVE LifeOf(t) \in {"Stopped", "Over"}
      OBVIOUS
    <3>2. Halted(task[t])
      BY <1>3, <1>6, <3>1 DEF ReportProgress, RefineInv, IInv, NodeTasksOk, CachesOk
    <3>3. task[t].life # "Absent" /\ task[t].life \in Lives
      BY <3>2 DEF RefineInv, HonestInv, BlankOk, AbsentTask, Halted, IInv, TypeOk,
         ClusterTypeOk, UpdateTask
    <3>4. QED
      BY <3>2, <3>3 DEF LifeOf, Halted, Stopping, Lives
  <2>6. s \in {"Updated", "Failed", "Aborted"}
    BY <1>6 DEF IsTerminated
  <2>7. Rollout(t)!End(m, s)
    BY <1>1, <1>2, <2>1, <2>4, <2>5 DEF Rollout!End
  <2>8. QED
    BY <1>4, <2>6, <2>7 DEF Refines, Rollout!Next, Rollout!Results
<1>7. QED
  BY <1>5, <1>6

\* An abort that is sent is no step of the roll-out; its effect is.
LEMMA RefinesAbortNodeTask ==
  ASSUME RefineInv, NEW n \in NodeTasks, AbortNodeTask(n), NEW t \in Tasks
  PROVE  Refines(t)
<1>1. UNCHANGED <<task, machine, misled>>
  BY DEF AbortNodeTask, cacheVars
<1>2. \A k \in NodeTasks : /\ nodeTask'[k].owner = nodeTask[k].owner
                           /\ nodeTask'[k].machine = nodeTask[k].machine
                           /\ nodeTask'[k].state = nodeTask[k].state
  BY DEF AbortNodeTask, RefineInv, IInv, TypeOk, ClusterTypeOk, NodeUpdateTask
<1>3. \A m \in Machines : UpdateOf(t)'[m] = UpdateOf(t)[m]
  BY <1>2, UpdateKept
<1>4. UpdateOf(t)' = UpdateOf(t)
  BY <1>3, UpdateShape
<1>5. QED
  BY <1>1, <1>4, SameTask, SameMachines, SameMissed DEF Refines, Rollout!vars

\* The updates of a task that is over are forgotten.
LEMMA RefinesCollect ==
  ASSUME RefineInv, NEW n \in NodeTasks, CollectNodeTask(n), NEW t \in Tasks
  PROVE  Refines(t)
<1>1. UNCHANGED <<task, machine>>
  BY DEF CollectNodeTask
<1>2. LifeOf(t)' = LifeOf(t) /\ There' = There /\ ScopeOf(t)' = ScopeOf(t)
  BY <1>1, SameTask, SameMachines
<1>3. /\ nodeTask'[n].owner = NoTask /\ nodeTask[n].machine \in Machines
      /\ \/ UNCHANGED misled
         \/ misled' = misled \cup {<<nodeTask[n].owner, nodeTask[n].machine>>}
      /\ \A k \in NodeTasks \ {n} : nodeTask'[k] = nodeTask[k]
  BY Constants DEF CollectNodeTask, NoNodeTask, RefineInv, IInv, NodeTasksOk, TypeOk, ClusterTypeOk
<1> DEFINE m == nodeTask[n].machine
<1>4. \A i \in Machines : i # m \/ nodeTask[n].owner # t => UpdateOf(t)'[i] = UpdateOf(t)[i]
  <2>1. SUFFICES ASSUME NEW i \in Machines, i # m \/ nodeTask[n].owner # t
                 PROVE  UpdateOf(t)'[i] = UpdateOf(t)[i]
    OBVIOUS
  <2>2. \A k \in NodeTasks :
          /\ (nodeTask'[k].owner = t /\ nodeTask'[k].machine = i)
               <=> (nodeTask[k].owner = t /\ nodeTask[k].machine = i)
          /\ nodeTask[k].owner = t /\ nodeTask[k].machine = i
               => Progress(nodeTask'[k].state) = Progress(nodeTask[k].state)
    BY <1>3, <2>1, Constants
  <2>3. QED
    BY <2>2, UpdateKept
<1>5. CASE nodeTask[n].owner # t
  <2>1. UpdateOf(t)' = UpdateOf(t)
    BY <1>4, <1>5, UpdateShape
  <2>2. MissedBy(t)' = MissedBy(t)
    BY <1>3, <1>5 DEF MissedBy
  <2>3. QED
    BY <1>1, <1>2, <2>1, <2>2 DEF Refines, Rollout!vars
<1>6. CASE nodeTask[n].owner = t
  <2>1. m \in Machines /\ OneNodeTaskPerMachine
    BY <1>6, Constants DEF RefineInv, IInv, NodeTasksOk
  <2>2. PICK i \in Machines : i = m
    BY <2>1
  <2>3. UpdatesOf(t, i)' = {} /\ UpdateOf(t)'[i] = "None"
    <3>1. UpdatesOf(t, i)' = {}
      BY <1>3, <1>6, <2>1, <2>2, Constants DEF UpdatesOf, OneNodeTaskPerMachine
    <3>2. QED
      BY <3>1 DEF UpdateOf
  <2>4. UpdateOf(t)' = [UpdateOf(t) EXCEPT ![m] = "None"]
    BY <1>4, <2>1, <2>2, <2>3, UpdateShape
  <2>5. LifeOf(t) = "Over"
    BY <1>6 DEF CollectNodeTask, LifeOf
  <2>6. MissedBy(t)' \in {MissedBy(t), MissedBy(t) \cup {m}}
    BY <1>3, <1>6 DEF MissedBy
  <2>7. Rollout(t)!Discard(m)
    BY <1>1, <1>2, <2>4, <2>5, <2>6 DEF Rollout!Discard
  <2>8. QED
    BY <2>1, <2>7 DEF Refines, Rollout!Next
<1>7. QED
  BY <1>5, <1>6

\* A node update is created: the task of the pass starts an update, and may.
LEMMA RefinesCreateNodeTask ==
  ASSUME RefineInv, NEW m \in Machines, CreateNodeTask(m), NEW t \in Tasks
  PROVE  Refines(t)
<1>1. CASE UNCHANGED nodeTask
  BY <1>1, RefinesSilent DEF CreateNodeTask, serverVars, cacheVars
<1>2. ASSUME NEW n \in NodeTasks, nodeTask[n].owner = NoTask,
             nodeTask' = [nodeTask EXCEPT ![n] =
               [owner |-> cur, machine |-> m, phase |-> "Update", state |-> "Unknown"]]
      PROVE  Refines(t)
  <2>1. /\ UNCHANGED <<task, machine, misled>>
        /\ pc = "Normal" /\ ~Blocked /\ cur \in Tasks
    BY DEF CreateNodeTask, RefineInv, IInv, WorkerOk, cacheVars
  <2>2. /\ LifeOf(t)' = LifeOf(t) /\ There' = There /\ ScopeOf(t)' = ScopeOf(t)
        /\ MissedBy(t)' = MissedBy(t)
    BY <2>1, SameTask, SameMachines, SameMissed
  <2>3. /\ nodeTask'[n] = [owner |-> cur, machine |-> m, phase |-> "Update", state |-> "Unknown"]
        /\ \A k \in NodeTasks \ {n} : nodeTask'[k] = nodeTask[k]
    BY <1>2 DEF RefineInv, IInv, TypeOk, ClusterTypeOk
  <2>4. \A i \in Machines : i # m \/ cur # t => UpdateOf(t)'[i] = UpdateOf(t)[i]
    <3>1. SUFFICES ASSUME NEW i \in Machines, i # m \/ cur # t
                   PROVE  UpdateOf(t)'[i] = UpdateOf(t)[i]
      OBVIOUS
    <3>2. \A k \in NodeTasks :
            /\ (nodeTask'[k].owner = t /\ nodeTask'[k].machine = i)
                 <=> (nodeTask[k].owner = t /\ nodeTask[k].machine = i)
            /\ nodeTask[k].owner = t /\ nodeTask[k].machine = i
                 => Progress(nodeTask'[k].state) = Progress(nodeTask[k].state)
      BY <1>2, <2>3, <3>1, Constants
    <3>3. QED
      BY <3>2, UpdateKept
  <2>5. CASE cur # t
    <3>1. UpdateOf(t)' = UpdateOf(t)
      BY <2>4, <2>5, UpdateShape
    <3>2. QED
      BY <2>1, <2>2, <3>1 DEF Refines, Rollout!vars
  <2>6. CASE cur = t
    <3>1. \A k \in NodeTasks : nodeTask[k].owner = t =>
            nodeTask[k].state = "Updated" /\ nodeTask[k].machine # m
      <4>1. ~HasNodeTask(nodes, m)
        BY DEF CreateNodeTask, NextMachines, Waiting
      <4>2. QED
        BY <2>1, <2>6, <4>1, NotBlocked DEF RefineInv, IInv, ScopeOk, HasNodeTask
    <3>2. UpdatesOf(t, m) = {} /\ UpdateOf(t)[m] = "None"
      BY <3>1, UpdateIsNone DEF UpdatesOf
    <3>3. \A i \in Machines : UpdateOf(t)[i] \in {"None", "Updated"}
      <4>1. SUFFICES ASSUME NEW i \in Machines, UpdatesOf(t, i) # {}
                     PROVE  UpdateOf(t)[i] = "Updated"
        BY UpdateIsNone
      <4>2. PICK k \in NodeTasks : nodeTask[k].owner = t /\ nodeTask[k].machine = i
        BY <4>1 DEF UpdatesOf
      <4>3. QED
        BY <3>1, <4>2, UpdateIsThat DEF UpdateReadable, Progress, IsTerminated, RefineInv, IInv
    <3>4. UpdateOf(t)'[m] = "Running"
      <4>1. UpdatesOf(t, m)' = {n}
        BY <2>3, <2>6, <3>1 DEF UpdatesOf
      <4>2. QED
        BY <2>3, <4>1 DEF UpdateOf, Progress, IsTerminated
    <3>5. UpdateOf(t)' = [UpdateOf(t) EXCEPT ![m] = "Running"]
      BY <2>4, <3>4, UpdateShape
    <3>6. There[m] # "Coming"
      <4>1. machine[m].life # "Absent"
        BY <2>1 DEF CreateNodeTask, NextMachines, Waiting, Exists, RefineInv, IInv, ScopeOk, CachesOk
      <4>2. QED
        BY <4>1 DEF There
    <3>7. LifeOf(t) # "Absent"
      BY <2>1, <2>6, Constants DEF LifeOf, RefineInv, HonestInv, BlankOk
    <3>8. task[t].state # "Aborted"
      BY <2>1, <2>6 DEF RefineInv, IInv, AbortedOk, SaysAborted, WorkerOk, Halted, Stopping, Exists
    <3>9. LifeOf(t) = "Over" \/ task[t].state = "Updated" => m \in MissedBy(t)
      <4>1. ~Unstarted(t) /\ (Settled(t) => m \in MissedBy(t))
        BY <2>6, CreatesUnsettled DEF RefineInv, MissedBy
      <4>2. task[t].life = "Gone" => Settled(t)
        BY <4>1 DEF RefineInv, FinalizerInv, SettledOk, ReleaseOk
      <4>3. Exists(task[t]) /\ task[t].state = "Updated" => Settled(t)
        BY DEF RefineInv, FinalizerInv, SettledOk, SaysUpdated
      <4>4. LifeOf(t) = "Over" => task[t].life = "Gone"
        BY DEF LifeOf
      <4>5. Exists(task[t]) \/ task[t].life = "Gone"
        BY <2>1, <2>6, Constants
        DEF Exists, Lives, RefineInv, HonestInv, BlankOk, IInv, TypeOk, ClusterTypeOk, UpdateTask
      <4>6. QED
        BY <4>1, <4>2, <4>3, <4>4, <4>5
    <3>10. Rollout(t)!Start(m)
      BY <2>1, <2>2, <3>2, <3>3, <3>5, <3>6, <3>7, <3>8, <3>9 DEF Rollout!Start
    <3>11. QED
      BY <3>10 DEF Refines, Rollout!Next
  <2>7. QED
    BY <2>5, <2>6
<1>3. QED
  BY <1>1, <1>2 DEF CreateNodeTask

\* The finalizer comes, or goes and takes a deleted task with it.
LEMMA RefinesPatchMeta ==
  ASSUME RefineInv, FinalizerInv', PatchMeta, NEW t \in Tasks
  PROVE  Refines(t)
<1>1. UNCHANGED <<machine, nodeTask, misled>> /\ cur \in Tasks
  BY DEF PatchMeta, RefineInv, IInv, WorkerOk, cacheVars
<1>2. \/ UNCHANGED task
      \/ \E f \in SUBSET {UpdateTaskFinalizer}, l \in Lives :
           /\ task' = [task EXCEPT ![cur].finalizers = f, ![cur].life = l]
           /\ l = task[cur].life \/ (task[cur].life = "Deleting" /\ l = "Gone")
  BY <1>1 DEF PatchMeta, Final, Lives, RefineInv, IInv, TypeOk, ClusterTypeOk, UpdateTask
<1>3. CASE t # cur \/ UNCHANGED task
  <2>1. task'[t] = task[t]
    BY <1>1, <1>2, <1>3 DEF RefineInv, IInv, TypeOk, ClusterTypeOk
  <2>2. QED
    BY <1>1, <2>1, RefinesOther
<1>4. CASE t = cur /\ ~UNCHANGED task
  <2>1. /\ UpdateOf(t)' = UpdateOf(t) /\ There' = There /\ ScopeOf(t)' = ScopeOf(t)
        /\ MissedBy(t)' = MissedBy(t)
    BY <1>1, SameUpdates, SameMachines, SameMissed
  <2>2. /\ task'[t].phase = task[t].phase /\ task'[t].state = task[t].state
        /\ \/ task'[t].life = task[t].life
           \/ task[t].life = "Deleting" /\ task'[t].life = "Gone"
    <3>1. PICK f \in SUBSET {UpdateTaskFinalizer}, l \in Lives :
            /\ task' = [task EXCEPT ![cur].finalizers = f, ![cur].life = l]
            /\ l = task[cur].life \/ (task[cur].life = "Deleting" /\ l = "Gone")
      BY <1>2, <1>4
    <3>2. task[t] \in UpdateTask /\ task'[t] = [task[t] EXCEPT !.finalizers = f, !.life = l]
      BY <1>4, <3>1 DEF RefineInv, IInv, TypeOk, ClusterTypeOk
    <3>3. task'[t].phase = task[t].phase /\ task'[t].state = task[t].state /\ task'[t].life = l
      BY <3>2 DEF UpdateTask
    <3>4. l = task[t].life \/ (task[t].life = "Deleting" /\ l = "Gone")
      BY <1>4, <3>1
    <3>5. QED
      BY <3>3, <3>4
  <2>3. CASE task'[t].life = task[t].life
    <3>1. LifeOf(t)' = LifeOf(t)
      BY <2>2, <2>3 DEF LifeOf, Stopping
    <3>2. QED
      BY <2>1, <2>2, <3>1 DEF Refines, Rollout!vars
  <2>4. CASE task[t].life = "Deleting" /\ task'[t].life = "Gone"
    <3>1. LifeOf(t) = "Stopped" /\ LifeOf(t)' = "Over"
      BY <2>4 DEF LifeOf, Stopping
    <3>2. task'[t].finalizers = {}
      BY <2>4 DEF FinalizerInv, ReleaseOk
    <3>3. Unstarted(t) \/ Kept(t)
      <4>1. Unstarted(t)' \/ Kept(t)'
        BY <3>2 DEF FinalizerInv, SettledOk, Settled
      <4>2. Kept(t)' => Kept(t)
        BY <1>1 DEF Kept, Running
      <4>3. Unstarted(t)' => Kept(t)
        BY <1>1, Constants DEF Unstarted, Kept
      <4>4. QED
        BY <4>1, <4>2, <4>3
    <3>4. Rollout(t)!Finish
      BY <2>1, <2>2, <3>1, <3>3, KeptIsQuiet DEF Rollout!Finish
    <3>5. QED
      BY <3>4 DEF Refines, Rollout!Next
  <2>5. QED
    BY <2>2, <2>3, <2>4
<1>5. QED
  BY <1>3, <1>4

\* The state that is stored is one the roll-out may report: Aborted is final and
\* means that nothing runs, and Updated is true, and final unless the task is
\* stopped, as far as no machine was missed.
LEMMA RefinesPatchStatus ==
  ASSUME RefineInv, PatchStatus, NEW t \in Tasks
  PROVE  Refines(t)
<1>1. UNCHANGED <<machine, nodeTask, misled>> /\ cur \in Tasks /\ pc = "PatchStatus"
  BY DEF PatchStatus, RefineInv, IInv, WorkerOk, cacheVars
<1>2. \/ UNCHANGED task
      \/ /\ task' = [task EXCEPT ![cur].state = obj.state]
         /\ Exists(task[cur]) /\ obj.state # before.state
  BY DEF PatchStatus
<1>3. CASE t # cur \/ UNCHANGED task
  <2>1. task'[t] = task[t]
    BY <1>1, <1>2, <1>3 DEF RefineInv, IInv, TypeOk, ClusterTypeOk
  <2>2. QED
    BY <1>1, <2>1, RefinesOther
<1>4. CASE t = cur /\ ~UNCHANGED task
  <2>1. /\ UpdateOf(t)' = UpdateOf(t) /\ There' = There /\ ScopeOf(t)' = ScopeOf(t)
        /\ MissedBy(t)' = MissedBy(t)
    BY <1>1, SameUpdates, SameMachines, SameMissed
  <2>2. /\ task'[t].life = task[t].life /\ task'[t].phase = task[t].phase
        /\ task'[t].state = obj.state
    BY <1>2, <1>4 DEF RefineInv, IInv, TypeOk, ClusterTypeOk, UpdateTask
  <2>3. LifeOf(t)' = LifeOf(t) /\ LifeOf(t) \in {"Live", "Stopped"}
    BY <1>2, <1>4, <2>2 DEF LifeOf, Stopping, Exists
  <2>4. /\ obj.state \in {"InProgress", "Updated", "Aborted"}
        /\ SaysAborted(t) => obj.state = "Aborted"
    BY <1>1, <1>2, <1>4 DEF RefineInv, OutcomeInv, RolloutInv, ObjOk
  <2>5. CASE obj.state = "Aborted"
    <3>1. Quiet(t) /\ Halted(task[t])
      BY <1>4, <2>5 DEF RefineInv, IInv, AbortedOk, SaysAborted, CachesOk
    <3>2. LifeOf(t) = "Stopped"
      BY <1>2, <1>4, <3>1 DEF LifeOf, Halted, Stopping, Exists
    <3>3. \A m \in Machines : UpdateOf(t)[m] = "Running" => There[m] = "Gone"
      <4>1. SUFFICES ASSUME NEW m \in Machines, UpdateOf(t)[m] = "Running"
                     PROVE  There[m] = "Gone"
        OBVIOUS
      <4>2. PICK n \in NodeTasks : nodeTask[n].owner = t /\ nodeTask[n].machine = m
        BY <4>1, UpdateIsNone DEF UpdatesOf
      <4>3. Running(n)
        BY <4>1, <4>2, UpdateIsThat, Constants
        DEF UpdateReadable, Progress, IsTerminated, Running, RefineInv, IInv
      <4>4. ~Exists(machine[m]) /\ machine[m].life # "Absent" /\ machine[m].life \in Lives
        BY <3>1, <4>2, <4>3, Constants
        DEF Quiet, RefineInv, IInv, NodeTasksOk, CachesOk, TypeOk, ClusterTypeOk, Machine
      <4>5. QED
        BY <4>4 DEF There, Exists, Lives
    <3>4. Rollout(t)!Conclude
      BY <2>1, <2>2, <2>3, <2>5, <3>2, <3>3 DEF Rollout!Conclude
    <3>5. QED
      BY <3>4 DEF Refines, Rollout!Next
  <2>6. CASE obj.state \in {"InProgress", "Updated"}
    <3>1. task[t].state # "Aborted"
      BY <2>4, <2>6 DEF SaysAborted
    <3>2. obj.state = "Updated" =>
            \A m \in ScopeOf(t) \ MissedBy(t) : There[m] = "There" => UpdateOf(t)[m] = "Updated"
      <4>1. SUFFICES ASSUME obj.state = "Updated", NEW m \in ScopeOf(t) \ MissedBy(t),
                            There[m] = "There"
                     PROVE  UpdateOf(t)[m] = "Updated"
        OBVIOUS
      <4>2. Honest(t)
        BY <1>2, <1>4, <4>1 DEF RefineInv, HonestInv, HonestOk, SaysUpdated
      <4>3. m \in Machines /\ Annotated(m, t) /\ <<t, m>> \notin misled
        BY <4>1 DEF ScopeOf, MissedBy, InScope, There, Annotated, Exists, RefineInv, IInv, TypeOk,
           ClusterTypeOk, Machine, Lives
      <4>4. PICK n \in NodeTasks : /\ nodeTask[n].owner = t /\ nodeTask[n].machine = m
                                   /\ nodeTask[n].state = "Updated"
        BY <4>2, <4>3 DEF Honest
      <4>5. QED
        BY <4>3, <4>4, UpdateIsThat DEF UpdateReadable, Progress, IsTerminated, RefineInv, IInv
    <3>3. task[t].state = "Updated" /\ obj.state # "Updated" => MissedBy(t) # {}
      BY <1>1, <1>2, <1>4, <2>6
      DEF RefineInv, OutcomeInv, StandsOk, SaysUpdated, Misled, MissedBy
    <3>4. Rollout(t)!Report(obj.state)
      BY <2>1, <2>2, <2>3, <3>1, <3>2, <3>3 DEF Rollout!Report
    <3>5. QED
      BY <2>6, <3>4 DEF Refines, Rollout!Next
  <2>7. QED
    BY <2>4, <2>5, <2>6
<1>5. QED
  BY <1>3, <1>4

-----------------------------------------------------------------------------

LEMMA RefinesNext ==
  ASSUME RefineInv, RefineInv', [Next]_vars, NEW t \in Tasks
  PROVE  Refines(t)
<1> USE DEF clusterVars, cacheVars
<1>1. CASE UNCHANGED <<serverVars, misled>>
  BY <1>1, RefinesSilent
<1>2. ASSUME NEW k \in Tasks, StartPass(k) PROVE Refines(t)
  BY <1>2, RefinesSilent
  DEF StartPass, ReconcileMissing, ReconcileFinalizer, OpenScope, ScopeError, clusterVars
<1>3. CASE ContinuePass
  <2>1. CASE AbortDone \/ NormalBlocked \/ NormalPreflightFails \/ NormalNothingToDo
    BY <2>1, RefinesSilent
    DEF AbortDone, NormalBlocked, NormalPreflightFails, NormalNothingToDo, clusterVars
  <2>2. FinalizerInv'
    BY DEF RefineInv
  <2>3. QED
    BY <1>3, <2>1, <2>2, RefinesMachineSteps, RefinesReportState, RefinesAbortNodeTask, RefinesCreateNodeTask,
       RefinesPatchMeta, RefinesPatchStatus DEF ContinuePass
<1>4. CASE SyncMachines \/ SyncTasks \/ Resync \/ Restart
  BY <1>4, RefinesSilent DEF SyncMachines, SyncTasks, Resync, Restart, clusterVars
<1>5. CASE Environment
  <2>1. CASE UpdateHook
    BY <2>1, RefinesAnnotate, RefinesMachineSteps, RefinesTaskSteps DEF UpdateHook
  <2>2. CASE OtherActors
    BY <2>2, RefinesTaskSteps, RefinesComeOrGo, RefinesMachineSteps, RefinesReport, RefinesCollect
    DEF OtherActors, Surroundings
  <2>3. QED
    BY <1>5, <2>1, <2>2 DEF Environment
<1>6. QED
  BY <1>1, <1>2, <1>3, <1>4, <1>5 DEF Next, Manager, Work, vars, clusterVars

LEMMA RefinesInit == ASSUME Init, NEW t \in Tasks PROVE Rollout(t)!Init
<1>1. /\ task[t] = AbsentTask
      /\ \A m \in Machines : machine[m].running = NoTask /\ machine[m].life \in {"Absent", "Live"}
      /\ \A n \in NodeTasks : nodeTask[n].owner = NoTask
  BY DEF Init, ClusterInit, NoNodeTask
<1>2. LifeOf(t) = "Absent" /\ task[t].state = "Unknown"
  BY <1>1 DEF LifeOf, AbsentTask
<1>3. ScopeOf(t) = {} /\ MissedBy(t) = {}
  BY <1>1, Constants DEF ScopeOf, InScope, MissedBy, Init, ClusterInit
<1>4. There \in [Machines -> {"Coming", "There"}]
  BY <1>1 DEF There
<1>5. UpdateOf(t) = [m \in Machines |-> "None"]
  <2>1. \A m \in Machines : UpdatesOf(t, m) = {}
    BY <1>1, Constants DEF UpdatesOf
  <2>2. QED
    BY <2>1, UpdateIsNone, UpdateShape
<1>6. QED
  BY <1>2, <1>3, <1>4, <1>5 DEF Rollout!Init

\* The controller implements the serial roll-out: every change it and the cluster
\* make to the stored objects is a step RollingUpdate allows, for every task.
THEOREM RolloutRefinement == Spec => ImplementsRollout
<1> DEFINE Starts == \A t \in Tasks : Rollout(t)!Init
           Step == \A t \in Tasks : [Rollout(t)!Next]_(Rollout(t)!vars)
<1>1. Init => RefineInv
  BY InvInit, HonestInit, FinalizerInit, OutcomeInit, KnownInit DEF RefineInv
<1>2. RefineInv /\ [Next]_vars => RefineInv'
  BY InvNext, HonestNext, FinalizerNext, OutcomeNext, KnownNext DEF RefineInv
<1>3. RefineInv /\ RefineInv' /\ [Next]_vars => [Step]_vars
  BY RefinesNext DEF Refines
<1>4. Init => Starts
  BY RefinesInit
<1>5. QED
  BY <1>1, <1>2, <1>3, <1>4, PTL DEF Spec, ImplementsRollout

=============================================================================
