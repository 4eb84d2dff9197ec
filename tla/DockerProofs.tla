---------------------------- MODULE DockerProofs ----------------------------
(***************************************************************************)
(* The Docker provider keeps to the contract of a node update provider, so *)
(* what is proved of the controller holds of the two together.             *)
(***************************************************************************)
EXTENDS DockerUpdater, RolloutProofs

\* The provider's cache and copy name machines of the cluster, as the node update
\* tasks they were read from did.
CopiesOk ==
  /\ \A n \in NodeTasks :
       dockerCache[n].owner # NoTask => dockerCache[n].machine \in Machines
  /\ docker.at # "Idle" => /\ docker.n \in NodeTasks
                           /\ docker.task.owner \in Tasks
                           /\ docker.task.machine \in Machines

\* Updated is the only state this provider ever stores.  So the Updated it stores
\* over whatever is there overrules nothing that had ended otherwise.
StoresOnlyUpdated == \A n \in NodeTasks : nodeTask[n].state \in {"Unknown", "Updated"}

DockerInv == DockerTypeOk /\ CopiesOk /\ StoresOnlyUpdated

-----------------------------------------------------------------------------

LEMMA DockerConstants == MaxLost \in Nat /\ NoTask \notin Tasks
BY DockerAssumption, Constants DEF DockerAssumption

LEMMA ResultLost ==
  ASSUME IInv, DockerInv, docker.at # "Idle", LoseResult
  PROVE  lost' \in [Tasks \X Machines -> Nat]
BY DEF LoseResult, Subject, DockerInv, DockerTypeOk, CopiesOk

LEMMA NothingRead ==
  NoPass \in DockerPass /\ NoPass.at = "Idle"
BY RecordTypes DEF NoPass, DockerPass

\* An Updated that is stored is a report of progress, or was there already.
LEMMA StoreIsReport ==
  ASSUME IInv, DockerInv, StoreUpdated
  PROVE  \/ UNCHANGED clusterVars
         \/ \E n \in NodeTasks : ReportProgress(n, "Updated")
<1>1. docker.n \in NodeTasks /\ docker.task.owner \in Tasks
  BY DEF StoreUpdated, DockerInv, CopiesOk
<1>2. CASE UNCHANGED nodeTask
  BY <1>2 DEF StoreUpdated, clusterVars, serverVars
<1>3. CASE /\ nodeTask[docker.n].owner = docker.task.owner
           /\ nodeTask' = [nodeTask EXCEPT ![docker.n].state = "Updated"]
  <2>1. CASE nodeTask[docker.n].state = "Updated"
    <3>1. nodeTask' = nodeTask
      BY <1>1, <1>3, <2>1 DEF IInv, TypeOk, ClusterTypeOk, NodeUpdateTask
    <3>2. QED
      BY <1>2, <3>1
  <2>2. CASE nodeTask[docker.n].state = "Unknown"
    BY <1>1, <1>3, <2>2, DockerConstants
    DEF StoreUpdated, ReportProgress, IsTerminated
  <2>3. QED
    BY <1>1, <2>1, <2>2 DEF DockerInv, StoresOnlyUpdated
<1>4. QED
  BY <1>2, <1>3 DEF StoreUpdated

\* Every step of the two controllers is a step of the UpdateTask controller and
\* its environment, or leaves both alone.
LEMMA DockerSimulates ==
  ASSUME IInv, DockerInv, [DockerUpdaterNext]_dockerUpdaterVars
  PROVE  [Next]_vars
<1>1. CASE Work \/ Restart
  BY <1>1 DEF Next, Manager
<1>2. CASE (UpdateHook \/ Surroundings) /\ UNCHANGED <<queue, passVars>>
  BY <1>2 DEF Next, Environment, OtherActors
<1>3. CASE DockerWork /\ UNCHANGED <<queue, passVars>>
  <2>1. CASE StoreUpdated
    <3>1. CASE UNCHANGED clusterVars
      BY <1>3, <3>1 DEF vars
    <3>2. CASE \E n \in NodeTasks : ReportProgress(n, "Updated")
      BY <1>3, <3>2 DEF Next, Environment, OtherActors, States
    <3>3. QED
      BY <2>1, <3>1, <3>2, StoreIsReport
  <2>2. CASE ~StoreUpdated
    BY <1>3, <2>2 DEF DockerWork, NothingToRun, StartCommand, RunCommand, EndCommand,
       SyncNodeTasks, ResyncNodeTasks, vars
  <2>3. QED
    BY <2>1, <2>2
<1>4. CASE UNCHANGED dockerUpdaterVars
  BY <1>4 DEF dockerUpdaterVars
<1>5. QED
  BY <1>1, <1>2, <1>3, <1>4 DEF DockerUpdaterNext

-----------------------------------------------------------------------------

LEMMA DockerInvInit == DockerUpdaterInit => DockerInv
<1>1. SUFFICES ASSUME DockerUpdaterInit PROVE DockerInv
  OBVIOUS
<1>2. TypeOk /\ nodeTask = [n \in NodeTasks |-> NoNodeTask]
  BY <1>1, TypeInit DEF DockerUpdaterInit, Init, ClusterInit
<1>3. DockerTypeOk
  BY <1>1, <1>2, NothingRead, DockerConstants
  DEF DockerUpdaterInit, DockerInit, DockerTypeOk, TypeOk, ClusterTypeOk
<1>4. CopiesOk /\ StoresOnlyUpdated
  BY <1>1, <1>2, NothingRead
  DEF DockerUpdaterInit, DockerInit, CopiesOk, StoresOnlyUpdated, NoNodeTask
<1>5. QED
  BY <1>3, <1>4 DEF DockerInv

\* All others leave a state alone or, creating or collecting, none.
Spared(n) ==
  \/ nodeTask'[n].state = "Unknown"
  \/ /\ nodeTask'[n].state = nodeTask[n].state
     /\ nodeTask'[n].owner = nodeTask[n].owner
     /\ nodeTask'[n].machine = nodeTask[n].machine

LEMMA OthersStoreNothing ==
  ASSUME IInv, Work \/ Restart \/ UpdateHook \/ Surroundings, NEW n \in NodeTasks
  PROVE  Spared(n)
<1> USE DEF Spared, IInv, TypeOk, ClusterTypeOk, clusterVars, serverVars
<1>1. ASSUME NEW t \in Tasks, StartPass(t) PROVE Spared(n)
  BY <1>1 DEF StartPass, ReconcileMissing, ReconcileFinalizer, OpenScope, ScopeError
<1>2. CASE ContinuePass
  <2>1. ASSUME NEW m \in Machines, CreateNodeTask(m) PROVE Spared(n)
    BY <2>1 DEF CreateNodeTask
  <2>2. ASSUME NEW k \in NodeTasks, AbortNodeTask(k) PROVE Spared(n)
    <3>1. CASE UNCHANGED nodeTask
      BY <3>1
    <3>2. CASE nodeTask' = [nodeTask EXCEPT ![k].phase = "Abort"]
      BY <3>2 DEF NodeUpdateTask
    <3>3. QED
      BY <2>2, <3>1, <3>2 DEF AbortNodeTask
  <2>3. ASSUME UNCHANGED nodeTask PROVE Spared(n)
    BY <2>3
  <2>4. QED
    BY <1>2, <2>1, <2>2, <2>3 DEF ContinuePass, PatchMachine, ReportState, AbortDone,
       NormalBlocked, NormalPreflightFails, NormalNothingToDo, PatchMeta, PatchStatus
<1>3. CASE SyncMachines \/ SyncTasks \/ Resync \/ Restart
  BY <1>3 DEF SyncMachines, SyncTasks, Resync, Restart
<1>4. CASE UpdateHook
  BY <1>4 DEF UpdateHook, AnnotateMachine, ForgetUpToDate, CreateTask, AbortOlderTask
<1>5. CASE Surroundings
  <2>1. ASSUME NEW k \in NodeTasks, CollectNodeTask(k) PROVE Spared(n)
    BY <2>1 DEF CollectNodeTask, NoNodeTask
  <2>2. ASSUME UNCHANGED nodeTask PROVE Spared(n)
    BY <2>2
  <2>3. QED
    BY <1>5, <2>1, <2>2 DEF Surroundings, AbortTask, DeleteTask, JoinMachine, DeleteMachine,
       RemoveMachine, LoseHealth, RegainHealth
<1>6. QED
  BY <1>1, <1>2, <1>3, <1>4, <1>5 DEF Work

LEMMA DockerInvStep ==
  ASSUME IInv, DockerInv, DockerWork
  PROVE  DockerInv'
<1> USE DEF DockerInv, DockerTypeOk, CopiesOk, StoresOnlyUpdated, clusterVars, serverVars,
    IInv, TypeOk, ClusterTypeOk
<1>1. ASSUME NEW n \in NodeTasks, NothingToRun(n) PROVE DockerInv'
  BY <1>1 DEF NothingToRun, TakeNodeTask
<1>2. ASSUME NEW n \in NodeTasks, StartCommand(n) PROVE DockerInv'
  BY <1>2, DockerConstants DEF StartCommand, TakeNodeTask, Cached, DockerPass, NodeUpdateTask
<1>3. CASE EndCommand
  <2>1. PICK r \in Results :
          /\ result' = [result EXCEPT ![Subject] = r]
          /\ docker' = [docker EXCEPT !.at = "Sleep",
                                      !.task.state = IF r # "Ok" THEN "Failed" ELSE @]
    BY <1>3 DEF EndCommand
  <2>2. UNCHANGED <<nodeTask, dockerCache, dockerQueue, lost>> /\ docker.at = "Exec"
    BY <1>3 DEF EndCommand
  <2>3. docker \in DockerPass /\ docker.task \in NodeUpdateTask
    BY DEF DockerPass
  <2>4. docker' \in DockerPass /\ docker'.n = docker.n
        /\ docker'.task.owner = docker.task.owner /\ docker'.task.machine = docker.task.machine
    <3>1. CASE r # "Ok"
      BY <2>1, <2>3, <3>1 DEF DockerPass, NodeUpdateTask, States
    <3>2. CASE r = "Ok"
      BY <2>1, <2>3, <3>2 DEF DockerPass, NodeUpdateTask
    <3>3. QED
      BY <3>1, <3>2
  <2>5. result' \in [Tasks \X Machines -> Results \cup {"None"}]
    BY <2>1
  <2>6. QED
    BY <2>2, <2>4, <2>5
<1>4. CASE StoreUpdated
  <2>1. lost' \in [Tasks \X Machines -> Nat]
    BY <1>4, ResultLost DEF StoreUpdated
  <2>2. docker' = NoPass /\ UNCHANGED <<dockerCache, dockerQueue, result>>
    BY <1>4 DEF StoreUpdated
  <2>3. StoresOnlyUpdated'
    BY <1>4 DEF StoreUpdated, NodeUpdateTask
  <2>4. QED
    BY <2>1, <2>2, <2>3, NothingRead
<1>5. CASE SyncNodeTasks \/ ResyncNodeTasks
  BY <1>5, DockerConstants DEF SyncNodeTasks, ResyncNodeTasks, NodeTasksOk
<1>6. QED
  BY <1>1, <1>2, <1>3, <1>4, <1>5 DEF DockerWork, RunCommand

LEMMA DockerInvNext ==
  ASSUME IInv, DockerInv, [DockerUpdaterNext]_dockerUpdaterVars
  PROVE  DockerInv'
<1>1. CASE (Work \/ UpdateHook \/ Surroundings) /\ UNCHANGED dockerVars
  <2>1. StoresOnlyUpdated'
    BY <1>1, OthersStoreNothing DEF Spared, DockerInv, StoresOnlyUpdated
  <2>2. QED
    BY <1>1, <2>1 DEF DockerInv, DockerTypeOk, CopiesOk, dockerVars
<1>2. CASE Restart /\ RestartDocker
  <2>1. StoresOnlyUpdated' /\ UNCHANGED nodeTask
    BY <1>2, OthersStoreNothing DEF Spared, DockerInv, StoresOnlyUpdated, Restart, serverVars
  <2>2. CopiesOk'
    BY <1>2, NothingRead DEF RestartDocker, CopiesOk, IInv, NodeTasksOk
  <2>3. DockerTypeOk'
    <3>1. lost' \in [Tasks \X Machines -> Nat]
      BY <1>2, ResultLost DEF RestartDocker, DockerInv, DockerTypeOk
    <3>2. QED
      BY <1>2, <3>1, NothingRead
      DEF RestartDocker, DockerInv, DockerTypeOk, IInv, TypeOk, ClusterTypeOk
  <2>4. QED
    BY <2>1, <2>2, <2>3 DEF DockerInv
<1>3. CASE DockerWork
  BY <1>3, DockerInvStep
<1>4. CASE UNCHANGED dockerUpdaterVars
  BY <1>4 DEF dockerUpdaterVars, dockerVars, vars, clusterVars, serverVars, DockerInv,
     DockerTypeOk, CopiesOk, StoresOnlyUpdated
<1>5. QED
  BY <1>1, <1>2, <1>3, <1>4 DEF DockerUpdaterNext

-----------------------------------------------------------------------------

\* The two invariants together hold at the start and are kept by every step.
THEOREM DockerInvariance == DockerUpdaterSpec => [](IInv /\ DockerInv)
<1>1. DockerUpdaterInit => IInv /\ DockerInv
  BY InvInit, DockerInvInit DEF DockerUpdaterInit
<1>2. IInv /\ DockerInv /\ [DockerUpdaterNext]_dockerUpdaterVars => (IInv /\ DockerInv)'
  BY DockerSimulates, InvNext, DockerInvNext
<1>3. QED
  BY <1>1, <1>2, PTL DEF DockerUpdaterSpec

\* Objects, caches and the copies of both controllers stay well formed.
THEOREM DockerTypeCorrect == DockerUpdaterSpec => []DockerUpdaterTypeOk
<1>1. IInv /\ DockerInv => DockerUpdaterTypeOk
  BY DEF IInv, DockerInv, DockerUpdaterTypeOk
<1>2. QED
  BY DockerInvariance, <1>1, PTL

\* However stale its cache, the provider never takes a node update out of a
\* terminal state and never reports one aborted that nobody aborted.
THEOREM ProviderKeepsToContract == DockerUpdaterSpec => KeepsToContract
<1>1. IInv /\ DockerInv /\ [DockerUpdaterNext]_dockerUpdaterVars => [Next]_vars
  BY DockerSimulates
<1>2. QED
  BY DockerInvariance, <1>1, PTL DEF DockerUpdaterSpec, KeepsToContract

LEMMA DockerIsController == DockerUpdaterSpec => Spec
<1>1. DockerUpdaterInit => Init
  BY DEF DockerUpdaterInit
<1>2. QED
  BY <1>1, ProviderKeepsToContract, PTL DEF DockerUpdaterSpec, KeepsToContract, Spec

\* So Docker roll-outs are serial, update no machine twice, are quiet once they say
\* they were aborted, and are not forgotten.
THEOREM DockerSafety ==
  DockerUpdaterSpec => [](SerialUpdate /\ OneNodeTaskPerMachine /\ AbortedIsQuiet /\ NoLostTask)
BY DockerIsController, SerialUpdateHolds, OneNodeTaskPerMachineHolds, AbortedIsQuietHolds,
   NoLostTaskHolds, PTL

\* Each is a roll-out as RollingUpdate has it, with commands that run, and patches that
\* are lost, where RollingUpdate has nothing but an update that ends.
THEOREM DockerRollout ==
  DockerUpdaterSpec => RolloutStopsAtFailure /\ AbortedStands /\ ImplementsRollout
BY DockerIsController, RolloutStopsAtFailureHolds, AbortedStandsHolds, RolloutRefinement, PTL

\* Its outcome stands, and the finalizer keeps a deleted task until the provider has
\* nothing of it left to run; with the exceptions the caches make.
THEOREM DockerOutcome ==
  DockerUpdaterSpec => [](UpdatedIsHonest /\ FinalizerGuards) /\ OutcomeStands
BY DockerIsController, UpdatedIsHonestHolds, FinalizerGuardsHolds, OutcomeStandsHolds, PTL

-----------------------------------------------------------------------------
(* What the provider knows is old.  What makes its reports true all the    *)
(* same is that a task ends only when each of its node updates was tried,  *)
(* or sits on a machine that is gone, or was started where the controller  *)
(* had been misled.                                                        *)

\* As long as task t is not gone, n is its node update of machine m.
Same(n, t, m) == task[t].life # "Gone" => nodeTask[n].owner = t /\ nodeTask[n].machine = m

\* Harmless(t, m): a command that runs for t on m is nothing new once t has ended.
Harmless(t, m) ==
  /\ machine[m].life # "Absent"
  /\ IsTerminated(task[t].state) => Tried(t, m) \/ ~Exists(machine[m]) \/ <<t, m>> \in misled

\* Node updates, as the server, the cache and a pass have them.
StoredOk ==
  \A n \in NodeTasks : nodeTask[n].owner # NoTask =>
    /\ Harmless(nodeTask[n].owner, nodeTask[n].machine)
    /\ nodeTask[n].state = "Updated" /\ task[nodeTask[n].owner].life # "Gone" =>
         Tried(nodeTask[n].owner, nodeTask[n].machine)

CachedOk ==
  \A n \in NodeTasks : dockerCache[n].owner # NoTask =>
    /\ Harmless(dockerCache[n].owner, dockerCache[n].machine)
    /\ Same(n, dockerCache[n].owner, dockerCache[n].machine)

PassOk ==
  docker.at # "Idle" =>
    /\ Harmless(docker.task.owner, docker.task.machine)
    /\ Same(docker.n, docker.task.owner, docker.task.machine)
    /\ docker.at = "Sleep" => Tried(docker.task.owner, docker.task.machine)

TriedInv == StoredOk /\ CachedOk /\ PassOk

-----------------------------------------------------------------------------
(* What all others leave of it.                                            *)

\* A node update keeps its identity until its task is gone.  For a task that has
\* ended one is created only where the controller was misled.
NodeTaskKept(n) ==
  \/ nodeTask'[n].owner = nodeTask[n].owner /\ nodeTask'[n].machine = nodeTask[n].machine
  \/ nodeTask'[n].owner = NoTask /\ nodeTask[n].owner = NoTask
  \/ nodeTask'[n].owner = NoTask /\ task[nodeTask[n].owner].life = "Gone"
  \/ /\ nodeTask[n].owner = NoTask
     /\ IsTerminated(task'[nodeTask'[n].owner].state) =>
          <<nodeTask'[n].owner, nodeTask'[n].machine>> \in misled

\* A task ends only when its node updates have, or it was misled about them.
EndKept(t) ==
  \/ task'[t].state = task[t].state
  \/ ~IsTerminated(task'[t].state)
  \/ task[t].life # "Gone" /\ Kept(t)

ClusterKeeps ==
  /\ \A t \in Tasks : EndKept(t) /\ (task[t].life = "Gone" => task'[t].life = "Gone")
  /\ MachinesEvolve
  /\ misled \subseteq misled'
  /\ \A n \in NodeTasks : NodeTaskKept(n)

\* A task in whose name nothing was misjudged, and that has a state to store.
LEMMA EndsKept ==
  ASSUME IInv, FinalizerInv, NEW t \in Tasks, t = cur, pc = "PatchStatus", Exists(task[t]),
         IsTerminated(obj.state)
  PROVE  task[t].life # "Gone" /\ Kept(t)
<1>1. task[t].life # "Gone"
  BY DEF Exists
<1>2. CASE obj.state = "Aborted"
  BY <1>1, <1>2 DEF IInv, AbortedOk, SaysAborted, Quiet, Kept
<1>3. CASE obj.state = "Updated"
  BY <1>1, <1>3 DEF FinalizerInv, SettledOk, SaysUpdated, Settled
<1>4. QED
  BY <1>2, <1>3 DEF IsTerminated, FinalizerInv, ReleaseOk

LEMMA EnvironmentKeeps == ASSUME IInv, Environment PROVE ClusterKeeps
<1>1. MachinesEvolve /\ NodeTasksEvolve
  BY EnvironmentEvolves DEF Evolve, IInv, TypeOk
<1>2. ASSUME NEW n \in NodeTasks, nodeTask[n].owner # NoTask, nodeTask'[n] = NoNodeTask
      PROVE  task[nodeTask[n].owner].life = "Gone"
  BY <1>2 DEF Environment, UpdateHook, OtherActors, Surroundings, AnnotateMachine, ForgetUpToDate,
     CreateTask, AbortOlderTask, AbortTask, DeleteTask, JoinMachine, DeleteMachine, RemoveMachine,
     LoseHealth, RegainHealth, ReportProgress, CollectNodeTask, NoNodeTask, IInv, TypeOk,
     ClusterTypeOk, NodeUpdateTask
<1>3. ASSUME NEW t \in Tasks
      PROVE  task'[t].state = task[t].state /\ (task[t].life = "Gone" => task'[t].life = "Gone")
  BY DEF Environment, UpdateHook, OtherActors, Surroundings, AnnotateMachine, ForgetUpToDate,
     CreateTask, AbortOlderTask, AbortTask, DeleteTask, JoinMachine, DeleteMachine, RemoveMachine,
     LoseHealth, RegainHealth, ReportProgress, CollectNodeTask, Exists, IInv, TypeOk, ClusterTypeOk,
     UpdateTask
<1>4. misled \subseteq misled'
  BY DEF Environment, UpdateHook, OtherActors, Surroundings, AnnotateMachine, ForgetUpToDate,
     CreateTask, AbortOlderTask, AbortTask, DeleteTask, JoinMachine, DeleteMachine, RemoveMachine,
     LoseHealth, RegainHealth, ReportProgress, CollectNodeTask, cacheVars
<1>5. \A n \in NodeTasks : NodeTaskKept(n)
  BY <1>1, <1>2 DEF NodeTasksEvolve, NodeTaskKept, NoNodeTask
<1>6. QED
  BY <1>1, <1>3, <1>4, <1>5 DEF ClusterKeeps, EndKept

\* A node update the controller starts for a task that has ended is one it was misled
\* about: the pass is not one for a task to be stopped, and Updated had settled it.
LEMMA CreationKeeps ==
  ASSUME IInv, HonestInv, FinalizerInv, NEW m \in Machines, CreateNodeTask(m), NEW n \in NodeTasks
  PROVE  NodeTaskKept(n)
<1>1. cur \in Tasks /\ cur # NoTask /\ UNCHANGED task /\ pc = "Normal"
  BY Constants DEF CreateNodeTask, IInv, WorkerOk
<1>2. \/ nodeTask'[n] = nodeTask[n]
      \/ nodeTask[n].owner = NoTask /\ nodeTask'[n].owner = cur /\ nodeTask'[n].machine = m
  BY DEF CreateNodeTask, IInv, TypeOk, ClusterTypeOk
<1>3. ~Halted(before)
  BY <1>1 DEF IInv, WorkerOk, Stopping, Halted, Exists
<1>4. ASSUME IsTerminated(task[cur].state) PROVE <<cur, m>> \in misled
  <2>1. task[cur].state = "Updated"
    BY <1>1, <1>3, <1>4 DEF IsTerminated, IInv, AbortedOk, SaysAborted, FinalizerInv, ReleaseOk
  <2>2. task[cur].life # "Absent"
    BY <1>1 DEF HonestInv, BlankOk
  <2>3. CASE Exists(task[cur])
    BY <1>1, <2>1, <2>3, CreatesUnsettled DEF FinalizerInv, SettledOk, SaysUpdated
  <2>4. CASE task[cur].life = "Gone"
    BY <1>1, <2>4, CreatesUnsettled DEF FinalizerInv, SettledOk, ReleaseOk
  <2>5. QED
    BY <1>1, <2>2, <2>3, <2>4 DEF Exists, IInv, TypeOk, ClusterTypeOk, UpdateTask, Lives
<1>5. QED
  BY <1>1, <1>2, <1>4 DEF NodeTaskKept

LEMMA ControllerKeeps ==
  ASSUME IInv, HonestInv, FinalizerInv, Manager
  PROVE  ClusterKeeps
<1> USE DEF clusterVars, serverVars, cacheVars, Leave
<1>1. /\ misled \subseteq misled'
      /\ \A m \in Machines : machine'[m].life = machine[m].life
  <2>1. ASSUME NEW m \in Machines, PatchMachine(m)
        PROVE  UNCHANGED misled /\ \A k \in Machines : machine'[k].life = machine[k].life
    BY <2>1 DEF PatchMachine, IInv, TypeOk, ClusterTypeOk, Machine
  <2>2. QED
    BY <2>1 DEF Manager, Work, StartPass, ReconcileMissing, ReconcileFinalizer, OpenScope, ScopeError,
       ContinuePass, ReportState, AbortNodeTask, AbortDone, NormalBlocked, NormalPreflightFails,
       NormalNothingToDo, CreateNodeTask, PatchMeta, PatchStatus, SyncMachines, SyncTasks, Resync,
       Restart
<1>2. MachinesEvolve
  BY <1>1 DEF MachinesEvolve
<1>3. ASSUME NEW t \in Tasks PROVE EndKept(t)
  <2>1. CASE task'[t].state = task[t].state
    BY <2>1 DEF EndKept
  <2>2. CASE task'[t].state # task[t].state
    <3>1. t = cur /\ pc = "PatchStatus" /\ Exists(task[t]) /\ task'[t].state = obj.state
      BY <2>2, StatesStored DEF Next
    <3>2. QED
      BY <3>1, EndsKept DEF EndKept
  <2>3. QED
    BY <2>1, <2>2
<1>4. ASSUME NEW t \in Tasks, task[t].life = "Gone" PROVE task'[t].life = "Gone"
  BY <1>4 DEF Manager, Work, StartPass, ReconcileMissing, ReconcileFinalizer, OpenScope, ScopeError,
     ContinuePass, PatchMachine, ReportState, AbortNodeTask, AbortDone, NormalBlocked,
     NormalPreflightFails, NormalNothingToDo, CreateNodeTask, PatchMeta, PatchStatus, SyncMachines,
     SyncTasks, Resync, Restart, Exists, IInv, TypeOk, ClusterTypeOk, UpdateTask
<1>5. ASSUME NEW n \in NodeTasks PROVE NodeTaskKept(n)
  <2>1. ASSUME NEW m \in Machines, CreateNodeTask(m) PROVE NodeTaskKept(n)
    BY <2>1, CreationKeeps
  <2>2. ASSUME NEW k \in NodeTasks, AbortNodeTask(k) PROVE NodeTaskKept(n)
    <3>1. nodeTask'[n].owner = nodeTask[n].owner /\ nodeTask'[n].machine = nodeTask[n].machine
      BY <2>2 DEF AbortNodeTask, IInv, TypeOk, ClusterTypeOk, NodeUpdateTask
    <3>2. QED
      BY <3>1 DEF NodeTaskKept
  <2>3. ASSUME UNCHANGED nodeTask PROVE NodeTaskKept(n)
    BY <2>3 DEF NodeTaskKept
  <2>4. QED
    BY <2>1, <2>2, <2>3 DEF Manager, Work, StartPass, ReconcileMissing, ReconcileFinalizer, OpenScope,
       ScopeError, ContinuePass, PatchMachine, ReportState, AbortDone, NormalBlocked,
       NormalPreflightFails, NormalNothingToDo, PatchMeta, PatchStatus, SyncMachines, SyncTasks,
       Resync, Restart
<1>6. QED
  BY <1>1, <1>2, <1>3, <1>4, <1>5 DEF ClusterKeeps

-----------------------------------------------------------------------------

LEMMA SameKept ==
  ASSUME ClusterKeeps, NEW n \in NodeTasks, NEW t \in Tasks, NEW m \in Machines, Same(n, t, m)
  PROVE  Same(n, t, m)'
BY Constants DEF ClusterKeeps, NodeTaskKept, Same

\* A command stays harmless unless its task ends; that it does only when every node
\* update of it is tried, gone or misjudged.
LEMMA HarmlessKept ==
  ASSUME IInv, DockerInv, StoredOk, ClusterKeeps, UNCHANGED result,
         NEW n \in NodeTasks, NEW t \in Tasks, NEW m \in Machines,
         Harmless(t, m), Same(n, t, m)
  PROVE  Harmless(t, m)'
<1>1. /\ machine'[m].life # "Absent"
      /\ ~Exists(machine[m]) => ~Exists(machine'[m])
      /\ Tried(t, m)' <=> Tried(t, m)
  BY DEF Harmless, ClusterKeeps, MachinesEvolve, Tried, Exists, IInv, TypeOk, ClusterTypeOk, Machine,
     Lives
<1>2. SUFFICES ASSUME IsTerminated(task'[t].state), ~Tried(t, m), Exists(machine'[m])
               PROVE  <<t, m>> \in misled
  BY <1>1 DEF Harmless, ClusterKeeps, Exists
<1>3. CASE task'[t].state = task[t].state
  BY <1>1, <1>2, <1>3 DEF Harmless
<1>4. CASE task'[t].state # task[t].state
  <2>1. task[t].life # "Gone" /\ Kept(t)
    BY <1>2, <1>4 DEF ClusterKeeps, EndKept
  <2>2. nodeTask[n].owner = t /\ nodeTask[n].machine = m /\ t # NoTask
    BY <2>1, Constants DEF Same
  <2>3. nodeTask[n].state # "Updated"
    BY <1>2, <2>1, <2>2 DEF StoredOk
  <2>4. Running(n)
    BY <2>2, <2>3 DEF DockerInv, StoresOnlyUpdated, Running, IsTerminated
  <2>5. QED
    BY <1>1, <1>2, <2>1, <2>2, <2>4 DEF Kept
<1>5. QED
  BY <1>3, <1>4

\* And so it is for one that is created now.
LEMMA StoredKept ==
  ASSUME IInv, IInv', DockerInv, StoredOk, ClusterKeeps, UNCHANGED result,
         \A n \in NodeTasks : Spared(n)
  PROVE  StoredOk'
<1>1. ASSUME NEW n \in NodeTasks, nodeTask'[n].owner # NoTask,
             NEW t \in Tasks, NEW m \in Machines, t = nodeTask'[n].owner, m = nodeTask'[n].machine
      PROVE  /\ Harmless(t, m)'
             /\ nodeTask'[n].state = "Updated" /\ task'[t].life # "Gone" => Tried(t, m)'
  <2>1. machine'[m].life # "Absent"
    BY <1>1 DEF IInv, NodeTasksOk, CachesOk
  <2>2. CASE nodeTask[n].owner = t /\ nodeTask[n].machine = m
    <3>1. Harmless(t, m) /\ Same(n, t, m)
      BY <1>1, <2>2 DEF StoredOk, Same
    <3>2. Harmless(t, m)'
      BY <3>1, HarmlessKept
    <3>3. nodeTask'[n].state = "Updated" /\ task'[t].life # "Gone" => Tried(t, m)
      BY <1>1, <2>2 DEF Spared, StoredOk, ClusterKeeps
    <3>4. QED
      BY <3>2, <3>3 DEF Tried
  <2>3. CASE ~(nodeTask[n].owner = t /\ nodeTask[n].machine = m)
    <3>1. IsTerminated(task'[t].state) => <<t, m>> \in misled'
      BY <1>1, <2>3, Constants DEF ClusterKeeps, NodeTaskKept
    <3>2. nodeTask'[n].state # "Updated"
      BY <1>1, <2>3 DEF Spared
    <3>3. QED
      BY <2>1, <3>1, <3>2 DEF Harmless
  <2>4. QED
    BY <2>2, <2>3
<1>2. ASSUME NEW n \in NodeTasks, nodeTask'[n].owner # NoTask
      PROVE  nodeTask'[n].owner \in Tasks /\ nodeTask'[n].machine \in Machines
  BY <1>2 DEF IInv, TypeOk, ClusterTypeOk, NodeUpdateTask, NodeTasksOk
<1>3. QED
  BY <1>1, <1>2 DEF StoredOk, Harmless, Tried

LEMMA TriedOthers ==
  ASSUME IInv, IInv', DockerInv, TriedInv, ClusterKeeps, UNCHANGED dockerVars,
         \A n \in NodeTasks : Spared(n)
  PROVE  TriedInv'
<1> USE DEF TriedInv, dockerVars
<1>1. StoredOk'
  BY StoredKept
<1>2. ASSUME NEW n \in NodeTasks, dockerCache[n].owner # NoTask
      PROVE  /\ Harmless(dockerCache[n].owner, dockerCache[n].machine)'
             /\ Same(n, dockerCache[n].owner, dockerCache[n].machine)'
  <2> DEFINE t == dockerCache[n].owner
             m == dockerCache[n].machine
  <2>1. t \in Tasks /\ m \in Machines /\ Harmless(t, m) /\ Same(n, t, m)
    BY <1>2 DEF CachedOk, DockerInv, DockerTypeOk, CopiesOk, NodeUpdateTask
  <2>2. QED
    BY <2>1, SameKept, HarmlessKept DEF Same, Harmless, Tried
<1>3. ASSUME docker.at # "Idle"
      PROVE  /\ Harmless(docker.task.owner, docker.task.machine)'
             /\ Same(docker.n, docker.task.owner, docker.task.machine)'
  <2> DEFINE t == docker.task.owner
             m == docker.task.machine
  <2>1. /\ docker.n \in NodeTasks /\ t \in Tasks /\ m \in Machines
        /\ Harmless(t, m) /\ Same(docker.n, t, m)
    BY <1>3 DEF PassOk, DockerInv, CopiesOk
  <2>2. QED
    BY <2>1, SameKept, HarmlessKept DEF Same, Harmless, Tried
<1>4. CachedOk'
  BY <1>2 DEF CachedOk, Same, Harmless, Tried
<1>5. PassOk'
  BY <1>3 DEF PassOk, Same, Harmless, Tried
<1>6. QED
  BY <1>1, <1>4, <1>5

-----------------------------------------------------------------------------
(* What the provider's own steps leave of it.                              *)

LEMMA StoreKeeps ==
  ASSUME IInv, StoreUpdated, NEW n \in NodeTasks
  PROVE  /\ nodeTask'[n].owner = nodeTask[n].owner /\ nodeTask'[n].machine = nodeTask[n].machine
         /\ \/ nodeTask'[n].state = nodeTask[n].state
            \/ n = docker.n /\ nodeTask[n].owner = docker.task.owner
<1>1. nodeTask \in [NodeTasks -> NodeUpdateTask] /\ nodeTask[n] \in NodeUpdateTask
  BY DEF IInv, TypeOk, ClusterTypeOk
<1>2. CASE UNCHANGED nodeTask
  BY <1>2
<1>3. CASE /\ nodeTask[docker.n].owner = docker.task.owner
           /\ nodeTask' = [nodeTask EXCEPT ![docker.n].state = "Updated"]
  <2>1. CASE n = docker.n
    <3>1. nodeTask'[n] = [nodeTask[n] EXCEPT !.state = "Updated"]
      BY <1>1, <1>3, <2>1
    <3>2. nodeTask'[n].owner = nodeTask[n].owner /\ nodeTask'[n].machine = nodeTask[n].machine
      BY <1>1, <3>1 DEF NodeUpdateTask
    <3>3. QED
      BY <1>3, <2>1, <3>2
  <2>2. CASE n # docker.n
    BY <1>1, <1>3, <2>2
  <2>3. QED
    BY <2>1, <2>2
<1>4. QED
  BY <1>2, <1>3 DEF StoreUpdated

\* A command that has returned was tried, whatever it returned.
LEMMA TriedEnd == ASSUME IInv, DockerInv, TriedInv, EndCommand PROVE TriedInv'
<1>1. PICK r \in Results :
        /\ result' = [result EXCEPT ![Subject] = r]
        /\ docker' = [docker EXCEPT !.at = "Sleep",
                                    !.task.state = IF r # "Ok" THEN "Failed" ELSE @]
  BY DEF EndCommand
<1>2. UNCHANGED <<task, machine, nodeTask, misled, dockerCache>> /\ docker.at = "Exec"
  BY DEF EndCommand, clusterVars, serverVars, cacheVars
<1>3. docker'.at = "Sleep" /\ docker'.n = docker.n
      /\ docker'.task.owner = docker.task.owner /\ docker'.task.machine = docker.task.machine
  BY <1>1 DEF DockerInv, DockerTypeOk, DockerPass, NodeUpdateTask
<1>4. docker.task.owner \in Tasks /\ docker.task.machine \in Machines
  BY <1>2 DEF DockerInv, CopiesOk
<1>5. Tried(docker.task.owner, docker.task.machine)'
  BY <1>1, <1>3, <1>4 DEF Tried, Subject, Results, DockerInv, DockerTypeOk
<1>6. ASSUME NEW t \in Tasks, NEW m \in Machines, Tried(t, m) PROVE Tried(t, m)'
  BY <1>1, <1>6 DEF Tried, Results, DockerInv, DockerTypeOk
<1>7. ASSUME NEW t \in Tasks, NEW m \in Machines, Harmless(t, m) PROVE Harmless(t, m)'
  BY <1>2, <1>6, <1>7 DEF Harmless
<1>8. StoredOk'
  <2>1. ASSUME NEW n \in NodeTasks, nodeTask[n].owner # NoTask
        PROVE  nodeTask[n].owner \in Tasks /\ nodeTask[n].machine \in Machines
    BY <2>1 DEF IInv, TypeOk, ClusterTypeOk, NodeUpdateTask, NodeTasksOk
  <2>2. QED
    BY <1>2, <1>6, <1>7, <2>1 DEF TriedInv, StoredOk, Harmless, Tried
<1>9. CachedOk'
  <2>1. ASSUME NEW n \in NodeTasks, dockerCache[n].owner # NoTask
        PROVE  dockerCache[n].owner \in Tasks /\ dockerCache[n].machine \in Machines
    BY <2>1 DEF DockerInv, DockerTypeOk, CopiesOk, NodeUpdateTask
  <2>2. QED
    BY <1>2, <1>7, <2>1 DEF TriedInv, CachedOk, Harmless, Tried, Same
<1>10. PassOk'
  BY <1>2, <1>3, <1>4, <1>5, <1>7 DEF TriedInv, PassOk, Harmless, Tried, Same
<1>11. QED
  BY <1>8, <1>9, <1>10 DEF TriedInv

\* Updated is stored only after that; and for the node update that was tried, as long
\* as its task is not gone.
LEMMA TriedStore == ASSUME IInv, DockerInv, TriedInv, StoreUpdated PROVE TriedInv'
<1>1. /\ UNCHANGED <<task, machine, misled, dockerCache, result>> /\ docker'.at = "Idle"
      /\ docker.at = "Sleep"
  BY NothingRead DEF StoreUpdated, cacheVars
<1>2. \A n \in NodeTasks :
        nodeTask'[n].owner = nodeTask[n].owner /\ nodeTask'[n].machine = nodeTask[n].machine
  BY StoreKeeps
<1>3. ASSUME NEW n \in NodeTasks, nodeTask[n].owner # NoTask, nodeTask'[n].state = "Updated",
             task[nodeTask[n].owner].life # "Gone"
      PROVE  Tried(nodeTask[n].owner, nodeTask[n].machine)
  <2>1. CASE nodeTask[n].state = "Updated"
    BY <1>3, <2>1 DEF TriedInv, StoredOk
  <2>2. CASE nodeTask[n].state # "Updated"
    <3>1. n = docker.n /\ nodeTask[n].owner = docker.task.owner
      BY <1>3, <2>2, StoreKeeps
    <3>2. QED
      BY <1>1, <1>3, <3>1 DEF TriedInv, PassOk, Same
  <2>3. QED
    BY <2>1, <2>2
<1>4. StoredOk'
  BY <1>1, <1>2, <1>3 DEF TriedInv, StoredOk, Harmless, Tried
<1>5. CachedOk' /\ PassOk'
  BY <1>1, <1>2 DEF TriedInv, CachedOk, PassOk, Harmless, Tried, Same
<1>6. QED
  BY <1>4, <1>5 DEF TriedInv

LEMMA TriedDocker == ASSUME IInv, DockerInv, TriedInv, DockerWork PROVE TriedInv'
<1> USE DEF TriedInv, StoredOk, CachedOk, PassOk, Same, Harmless, Tried, clusterVars, serverVars,
    cacheVars
<1>1. ASSUME NEW n \in NodeTasks, NothingToRun(n) PROVE TriedInv'
  BY <1>1 DEF NothingToRun
<1>2. ASSUME NEW n \in NodeTasks, StartCommand(n) PROVE TriedInv'
  BY <1>2 DEF StartCommand, Cached
<1>3. CASE RunCommand
  BY <1>3, TriedEnd, TriedStore DEF RunCommand
<1>4. CASE SyncNodeTasks
  <2>1. UNCHANGED <<task, machine, nodeTask, misled, docker, result>> /\ dockerCache' = nodeTask
    BY <1>4 DEF SyncNodeTasks
  <2>2. QED
    BY <2>1
<1>5. CASE ResyncNodeTasks
  BY <1>5 DEF ResyncNodeTasks
<1>6. QED
  BY <1>1, <1>2, <1>3, <1>4, <1>5 DEF DockerWork

LEMMA TriedInit == DockerUpdaterInit => TriedInv
BY NothingRead DEF DockerUpdaterInit, Init, ClusterInit, DockerInit, TriedInv, StoredOk, CachedOk,
   PassOk, NoNodeTask

LEMMA TriedNext ==
  ASSUME IInv, IInv', HonestInv, FinalizerInv, DockerInv, TriedInv,
         [DockerUpdaterNext]_dockerUpdaterVars
  PROVE  TriedInv'
<1>1. CASE (Work \/ UpdateHook \/ Surroundings) /\ UNCHANGED dockerVars
  BY <1>1, OthersStoreNothing, ControllerKeeps, EnvironmentKeeps, TriedOthers
  DEF Manager, Environment, OtherActors
<1>2. CASE Restart /\ RestartDocker
  <2>1. /\ UNCHANGED <<task, machine, nodeTask, misled, result>>
        /\ docker'.at = "Idle" /\ dockerCache' = nodeTask
    BY <1>2, NothingRead DEF Restart, RestartDocker, serverVars
  <2>2. QED
    BY <2>1 DEF TriedInv, StoredOk, CachedOk, PassOk, Same, Harmless, Tried
<1>3. CASE DockerWork
  BY <1>3, TriedDocker
<1>4. CASE UNCHANGED dockerUpdaterVars
  BY <1>4 DEF dockerUpdaterVars, dockerVars, vars, clusterVars, serverVars, cacheVars, TriedInv,
     StoredOk, CachedOk, PassOk, Same, Harmless, Tried
<1>5. QED
  BY <1>1, <1>2, <1>3, <1>4 DEF DockerUpdaterNext

\* All that the two controllers know of each other holds at the start and is kept.
LEMMA TriedInvariance ==
  DockerUpdaterSpec => [](IInv /\ HonestInv /\ FinalizerInv /\ DockerInv /\ TriedInv)
<1> DEFINE I == IInv /\ HonestInv /\ FinalizerInv /\ DockerInv /\ TriedInv
<1>1. DockerUpdaterInit => I
  BY InvInit, HonestInit, FinalizerInit, DockerInvInit, TriedInit DEF DockerUpdaterInit
<1>2. I /\ [DockerUpdaterNext]_dockerUpdaterVars => I'
  BY DockerSimulates, InvNext, HonestNext, FinalizerNext, DockerInvNext, TriedNext
<1>3. QED
  BY <1>1, <1>2, PTL DEF DockerUpdaterSpec

\* Updated means of the containers that the command was at least tried on every
\* annotated machine, however old the provider's and the controller's caches are,
\* except on a machine that the pass that said Updated had left out.
THEOREM UpdatedMeansTriedHolds == DockerUpdaterSpec => []UpdatedMeansTried
<1>1. IInv /\ HonestInv /\ TriedInv => UpdatedMeansTried
  BY Constants DEF HonestInv, HonestOk, Honest, SaysUpdated, Annotated, TriedInv, StoredOk,
     UpdatedMeansTried, Exists
<1>2. QED
  BY <1>1, TriedInvariance, PTL

\* Nothing new is started for a task that has ended, although the pass that starts it
\* decides on a phase, a state and an owner that its cache may have kept from long ago.
THEOREM NoNewCommandAfterEndHolds == DockerUpdaterSpec => []NoNewCommandAfterEnd
<1>1. TriedInv => NoNewCommandAfterEnd
  BY DEF TriedInv, PassOk, Harmless, NoNewCommandAfterEnd
<1>2. QED
  BY <1>1, TriedInvariance, PTL

=============================================================================
