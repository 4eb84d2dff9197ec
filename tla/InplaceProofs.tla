---------------------------- MODULE InplaceProofs ----------------------------
(***************************************************************************)
(* The hook is a faithful environment of the controller, so the safety of   *)
(* the controller carries over to hook and controller together.             *)
(***************************************************************************)
EXTENDS InplaceUpdater, RolloutProofs

\* Until its call has ended, the task of a call does not exist.
NamesFresh == \A t \in Tasks : hook[t].at # "Ended" => task[t].life = "Absent"

HandlerInv == HandlerTypeOk /\ NamesFresh

-----------------------------------------------------------------------------
(* What the steps of a call do to the cluster.                             *)

LEMMA FreshType ==
  ASSUME NEW at \in {"Start", "Ended"}, NEW response \in {"None", "Success", "Failure"}
  PROVE  Fresh(at, response) \in Call
BY DEF Fresh, Call, UpToDateValues

LEMMA BreakType == ASSUME broken \in 0..MaxBroken, Break PROVE broken' \in 0..MaxBroken
BY HandlerAssumption DEF Break, HandlerAssumption

LEMMA RespondType ==
  ASSUME HandlerTypeOk, NEW t \in Tasks, NEW r \in {"Success", "Failure"}, Respond(t, r)
  PROVE  hook' \in [Tasks -> Call]
BY FreshType DEF Respond, HandlerTypeOk

LEMMA HandlerTypeInit == HandlerInit => HandlerTypeOk
BY FreshType, HandlerAssumption DEF HandlerInit, HandlerTypeOk, HandlerAssumption

\* The changes the steps of a call make to it.
LEMMA CallUpdates ==
  ASSUME NEW c \in Call
  PROVE  /\ \A o \in SUBSET Tasks :
              [c EXCEPT !.at = "Abort", !.older = o, !.toAbort = o] \in Call
         /\ \A o \in SUBSET Tasks : [c EXCEPT !.toAbort = o] \in Call
         /\ \A s \in SUBSET Machines, u \in [Machines -> UpToDateValues] :
              [c EXCEPT !.at = "Machines", !.scope = s, !.todo = s, !.upToDate = u] \in Call
         /\ \A f \in BOOLEAN : [c EXCEPT !.at = "Annotation", !.failed = f] \in Call
<1>1. ASSUME NEW o \in SUBSET Tasks
      PROVE  [c EXCEPT !.at = "Abort", !.older = o, !.toAbort = o] \in Call
  BY DEF Call
<1>2. ASSUME NEW o \in SUBSET Tasks PROVE [c EXCEPT !.toAbort = o] \in Call
  BY DEF Call
<1>3. ASSUME NEW s \in SUBSET Machines, NEW u \in [Machines -> UpToDateValues]
      PROVE  [c EXCEPT !.at = "Machines", !.scope = s, !.todo = s, !.upToDate = u] \in Call
  BY DEF Call
<1>4. ASSUME NEW f \in BOOLEAN
      PROVE  [c EXCEPT !.at = "Annotation", !.failed = f] \in Call
  BY DEF Call
<1>5. QED
  BY <1>1, <1>2, <1>3, <1>4

\* The three lists a call makes or clears, each in one record.
LEMMA ListTasksUpdates ==
  ASSUME HandlerTypeOk, NEW t \in Tasks, ListTasks(t)
  PROVE  \E older \in SUBSET Tasks :
           hook' = [hook EXCEPT ![t] =
             [hook[t] EXCEPT !.at = "Abort", !.older = older, !.toAbort = older]]
<1>1. PICK ts \in {task, taskCache} :
        LET older == {k \in Tasks : Exists(ts[k]) /\ ts[k].state = "InProgress"}
        IN hook' = [hook EXCEPT ![t].at = "Abort", ![t].older = older, ![t].toAbort = older]
  BY DEF ListTasks
<1> DEFINE found == {k \in Tasks : Exists(ts[k]) /\ ts[k].state = "InProgress"}
<1>2. found \in SUBSET Tasks
  OBVIOUS
<1>3. hook' = [hook EXCEPT ![t].at = "Abort", ![t].older = found, ![t].toAbort = found]
  BY <1>1
<1> HIDE DEF found
<1>4. QED
  BY <1>2, <1>3

LEMMA AfterPatchType ==
  ASSUME HandlerTypeOk, NEW t \in Tasks, NEW m \in Machines, NEW failed \in BOOLEAN,
         AfterPatch(t, m, failed)
  PROVE  hook' \in [Tasks -> Call]
<1>1. CASE failed
  BY <1>1, RespondType DEF AfterPatch
<1>2. CASE ~failed
  <2>1. hook \in [Tasks -> Call] /\ hook[t] \in Call
    BY DEF HandlerTypeOk
  <2>2. [hook[t] EXCEPT !.at = "Machines", !.todo = @ \ {m}] \in Call
    BY <2>1 DEF Call
  <2>3. hook' = [hook EXCEPT ![t] = [hook[t] EXCEPT !.at = "Machines", !.todo = @ \ {m}]]
    BY <1>2 DEF AfterPatch
  <2>4. QED
    BY <2>1, <2>2, <2>3
<1>3. QED
  BY <1>1, <1>2

\* A call that is changed in place keeps its type.
LEMMA HandlerTypeStep ==
  ASSUME ClusterTypeOk, HandlerTypeOk, ExternalUpdate
  PROVE  HandlerTypeOk'
<1>1. PICK t \in Tasks :
        \/ ListTasks(t) \/ (\E k \in Tasks : AbortOlder(t, k)) \/ ListMachines(t)
        \/ (\E m \in Machines : RemoveCondition(t, m) \/ Annotate(t, m))
        \/ CreateUpdateTask(t) \/ CallFails(t)
  BY DEF ExternalUpdate
<1>2. hook \in [Tasks -> Call] /\ broken \in 0..MaxBroken
  BY DEF HandlerTypeOk
<1>3. CASE ListTasks(t)
  <2>1. PICK older \in SUBSET Tasks :
          hook' = [hook EXCEPT ![t] =
            [hook[t] EXCEPT !.at = "Abort", !.older = older, !.toAbort = older]]
    BY <1>3, ListTasksUpdates
  <2>2. [hook[t] EXCEPT !.at = "Abort", !.older = older, !.toAbort = older] \in Call
    BY <1>2, CallUpdates
  <2>3. QED
    BY <1>2, <1>3, <2>1, <2>2 DEF ListTasks, HandlerTypeOk
<1>4. ASSUME NEW k \in Tasks, AbortOlder(t, k) PROVE HandlerTypeOk'
  <2>1. CASE Respond(t, "Failure")
    BY <1>2, <1>4, <2>1, RespondType DEF AbortOlder, HandlerTypeOk
  <2>2. CASE hook' = [hook EXCEPT ![t].toAbort = @ \ {k}]
    <3>1. [hook[t] EXCEPT !.toAbort = @ \ {k}] \in Call
      BY <1>2 DEF Call
    <3>2. hook' \in [Tasks -> Call]
      BY <1>2, <2>2, <3>1
    <3>3. QED
      BY <1>2, <1>4, <3>2 DEF AbortOlder, HandlerTypeOk
  <2>3. QED
    BY <1>4, <2>1, <2>2 DEF AbortOlder
<1>5. CASE ListMachines(t)
  <2>1. PICK ms \in {machine, machineCache}, scope \in SUBSET Machines :
          hook' = [hook EXCEPT ![t] =
            [hook[t] EXCEPT !.at = "Machines", !.scope = scope, !.todo = scope,
             !.upToDate = [m \in Machines |-> IF m \in scope THEN ms[m].upToDate ELSE "None"]]]
    <3>1. PICK ms \in {machine, machineCache} :
            LET scope == {m \in Machines : Exists(ms[m])}
            IN hook' = [hook EXCEPT ![t].at = "Machines", ![t].scope = scope, ![t].todo = scope,
                 ![t].upToDate = [m \in Machines |-> IF m \in scope THEN ms[m].upToDate ELSE "None"]]
      BY <1>5 DEF ListMachines
    <3>2. {m \in Machines : Exists(ms[m])} \in SUBSET Machines
      OBVIOUS
    <3>3. QED
      BY <3>1, <3>2
  <2> DEFINE listed == [m \in Machines |-> IF m \in scope THEN ms[m].upToDate ELSE "None"]
  <2>2. listed \in [Machines -> UpToDateValues]
    <3>1. \A m \in Machines : ms[m].upToDate \in UpToDateValues
      BY <2>1 DEF ClusterTypeOk, Machine
    <3>2. "None" \in UpToDateValues
      BY DEF UpToDateValues
    <3>3. QED
      BY <3>1, <3>2
  <2> HIDE DEF listed
  <2>3. [hook[t] EXCEPT !.at = "Machines", !.scope = scope, !.todo = scope,
         !.upToDate = listed] \in Call
    BY <1>2, <2>2, CallUpdates
  <2>4. hook' \in [Tasks -> Call]
    BY <1>2, <2>1, <2>3 DEF listed
  <2>5. QED
    BY <1>2, <1>5, <2>4 DEF ListMachines, HandlerTypeOk
<1>6. ASSUME NEW m \in Machines, RemoveCondition(t, m) PROVE HandlerTypeOk'
  <2>1. PICK failed \in BOOLEAN :
          hook' = [hook EXCEPT ![t] = [hook[t] EXCEPT !.at = "Annotation", !.failed = failed]]
    <3>1. CASE hook' = [hook EXCEPT ![t].at = "Annotation"]
      <4>1. [hook[t] EXCEPT !.at = "Annotation"]
              = [hook[t] EXCEPT !.at = "Annotation", !.failed = hook[t].failed]
        BY <1>2 DEF Call
      <4>2. hook[t].failed \in BOOLEAN
        BY <1>2 DEF Call
      <4>3. QED
        BY <3>1, <4>1, <4>2
    <3>2. CASE hook' = [hook EXCEPT ![t].at = "Annotation", ![t].failed = TRUE]
      BY <3>2
    <3>3. QED
      BY <1>6, <3>1, <3>2 DEF RemoveCondition
  <2>2. [hook[t] EXCEPT !.at = "Annotation", !.failed = failed] \in Call
    BY <1>2, CallUpdates
  <2>3. hook' \in [Tasks -> Call]
    BY <1>2, <2>1, <2>2
  <2>4. broken' \in 0..MaxBroken
    BY <1>2, <1>6, BreakType DEF RemoveCondition
  <2>5. QED
    BY <2>3, <2>4 DEF HandlerTypeOk
<1>7. ASSUME NEW m \in Machines, Annotate(t, m) PROVE HandlerTypeOk'
  <2>1. PICK failed \in BOOLEAN : AfterPatch(t, m, failed)
    BY <1>2, <1>7 DEF Annotate, Call
  <2>2. hook' \in [Tasks -> Call]
    BY <2>1, AfterPatchType
  <2>3. QED
    BY <1>2, <1>7, <2>2, BreakType DEF Annotate, HandlerTypeOk
<1>8. CASE CreateUpdateTask(t)
  BY <1>2, <1>8, RespondType, BreakType DEF CreateUpdateTask, HandlerTypeOk
<1>9. CASE CallFails(t)
  BY <1>2, <1>9, RespondType, BreakType DEF CallFails, HandlerTypeOk
<1>10. QED
  BY <1>1, <1>3, <1>4, <1>5, <1>6, <1>7, <1>8, <1>9

-----------------------------------------------------------------------------
(* Every step of a call is a step of the environment, or none at all.      *)

LEMMA ExternalUpdateSimulates ==
  ASSUME ClusterTypeOk, HandlerInv, ExternalUpdate
  PROVE  Environment \/ UNCHANGED clusterVars
<1>1. PICK t \in Tasks :
        \/ ListTasks(t) \/ (\E k \in Tasks : AbortOlder(t, k)) \/ ListMachines(t)
        \/ (\E m \in Machines : RemoveCondition(t, m) \/ Annotate(t, m))
        \/ CreateUpdateTask(t) \/ CallFails(t)
  BY DEF ExternalUpdate
<1>2. hook[t].at # "Ended" => task[t].life = "Absent"
  BY DEF HandlerInv, NamesFresh
<1> USE DEF clusterVars, serverVars, cacheVars
<1>3. CASE ListTasks(t)
  BY <1>3 DEF ListTasks
<1>4. ASSUME NEW k \in Tasks, AbortOlder(t, k) PROVE Environment \/ UNCHANGED clusterVars
  <2>1. CASE ~Exists(task[k])
    BY <1>4, <2>1 DEF AbortOlder
  <2>2. CASE Exists(task[k])
    <3>1. task[t].life = "Absent" /\ t # k
      BY <1>2, <1>4, <2>2 DEF AbortOlder, Exists
    <3>2. AbortOlderTask(k)
      BY <1>4, <2>2, <3>1 DEF AbortOlder, AbortOlderTask
    <3>3. QED
      BY <3>2 DEF Environment, UpdateHook
  <2>3. QED
    BY <2>1, <2>2
<1>5. CASE ListMachines(t)
  BY <1>5 DEF ListMachines
<1>6. ASSUME NEW m \in Machines, RemoveCondition(t, m)
      PROVE Environment \/ UNCHANGED clusterVars
  <2>1. machine \in [Machines -> Machine]
    BY DEF ClusterTypeOk
  <2>2. CASE UNCHANGED machine
    BY <1>6, <2>2 DEF RemoveCondition
  <2>3. CASE Exists(machine[m]) /\ machine' = [machine EXCEPT ![m].upToDate = "None"]
    <3>1. CASE machine[m].upToDate = "None"
      BY <1>6, <2>1, <2>3, <3>1 DEF RemoveCondition, Machine
    <3>2. CASE machine[m].upToDate # "None"
      <4>1. ForgetUpToDate(m)
        BY <1>1, <1>2, <1>6, <2>3, <3>2 DEF RemoveCondition, ForgetUpToDate
      <4>2. QED
        BY <4>1 DEF Environment, UpdateHook
    <3>3. QED
      BY <3>1, <3>2
  <2>4. QED
    BY <1>6, <2>2, <2>3 DEF RemoveCondition
<1>7. ASSUME NEW m \in Machines, Annotate(t, m) PROVE Environment \/ UNCHANGED clusterVars
  <2>1. CASE UNCHANGED machine
    BY <1>7, <2>1 DEF Annotate
  <2>2. CASE Exists(machine[m]) /\ machine' = [machine EXCEPT ![m].running = t]
    <3>1. AnnotateMachine(m, t)
      BY <1>2, <1>7, <2>2 DEF Annotate, AnnotateMachine
    <3>2. QED
      BY <3>1 DEF Environment, UpdateHook
  <2>3. QED
    BY <1>7, <2>1, <2>2 DEF Annotate
<1>8. CASE CreateUpdateTask(t)
  <2>1. CreateTask(t)
    BY <1>2, <1>8 DEF CreateUpdateTask, CreateTask
  <2>2. QED
    BY <2>1 DEF Environment, UpdateHook
<1>9. CASE CallFails(t)
  BY <1>9 DEF CallFails
<1>10. QED
  BY <1>1, <1>3, <1>4, <1>5, <1>6, <1>7, <1>8, <1>9

LEMMA StepSimulates ==
  ASSUME TypeOk, HandlerInv, [InplaceNext]_inplaceVars
  PROVE  [Next]_vars
<1>1. CASE InplaceNext
  <2>1. CASE Manager /\ UNCHANGED hookVars
    BY <2>1 DEF Next
  <2>2. CASE OtherActors /\ UNCHANGED <<queue, passVars, hookVars>>
    BY <2>2 DEF Next, Environment
  <2>3. CASE ExternalUpdate /\ UNCHANGED <<queue, passVars>>
    BY <2>3, ExternalUpdateSimulates DEF Next, vars, TypeOk
  <2>4. QED
    BY <1>1, <2>1, <2>2, <2>3 DEF InplaceNext
<1>2. CASE UNCHANGED inplaceVars
  BY <1>2 DEF inplaceVars
<1>3. QED
  BY <1>1, <1>2

-----------------------------------------------------------------------------
(* The names stay fresh.                                                   *)

\* Only the hook brings a task into being.
LEMMA AbsentUntilCreated ==
  ASSUME TypeOk, Manager \/ OtherActors, NEW t \in Tasks, task[t].life = "Absent"
  PROVE  task'[t].life = "Absent"
<1>1. task \in [Tasks -> UpdateTask]
  BY DEF TypeOk, ClusterTypeOk
<1>2. ~Exists(task[t])
  BY DEF Exists
<1>3. ASSUME NEW k \in Tasks, StartPass(k) PROVE UNCHANGED task
  BY <1>3 DEF StartPass, ReconcileMissing, ReconcileFinalizer, OpenScope, ScopeError,
     clusterVars, serverVars
<1>4. CASE ContinuePass
  <2>1. CASE PatchMeta
    BY <1>1, <1>2, <2>1 DEF PatchMeta, UpdateTask
  <2>2. CASE PatchStatus
    BY <1>1, <1>2, <2>2 DEF PatchStatus, UpdateTask
  <2>3. CASE ~PatchMeta /\ ~PatchStatus
    BY <1>4, <2>3 DEF ContinuePass, PatchMachine, ReportState, AbortNodeTask, AbortDone,
       NormalBlocked, NormalPreflightFails, NormalNothingToDo, CreateNodeTask,
       clusterVars, serverVars
  <2>4. QED
    BY <2>1, <2>2, <2>3
<1>5. CASE SyncMachines \/ SyncTasks \/ Resync \/ Restart
  BY <1>5 DEF SyncMachines, SyncTasks, Resync, Restart, clusterVars, serverVars
<1>6. CASE OtherActors
  <2>1. ASSUME NEW k \in Tasks, AbortTask(k) \/ DeleteTask(k) PROVE task'[t].life = "Absent"
    BY <1>1, <1>2, <2>1 DEF AbortTask, DeleteTask, UpdateTask
  <2>2. ASSUME ~\E k \in Tasks : AbortTask(k) \/ DeleteTask(k) PROVE UNCHANGED task
    BY <1>6, <2>2 DEF OtherActors, Surroundings, JoinMachine, DeleteMachine, RemoveMachine, LoseHealth,
       RegainHealth, ReportProgress, CollectNodeTask
  <2>3. QED
    BY <2>1, <2>2
<1>7. QED
  BY <1>3, <1>4, <1>5, <1>6 DEF Manager, Work

\* A call creates its own task only, and has ended then.
LEMMA FreshStep ==
  ASSUME TypeOk, HandlerInv, ExternalUpdate PROVE NamesFresh'
<1>1. PICK t \in Tasks :
        \/ ListTasks(t) \/ (\E k \in Tasks : AbortOlder(t, k)) \/ ListMachines(t)
        \/ (\E m \in Machines : RemoveCondition(t, m) \/ Annotate(t, m))
        \/ CreateUpdateTask(t) \/ CallFails(t)
  BY DEF ExternalUpdate
<1>2. /\ hook \in [Tasks -> Call]
      /\ task \in [Tasks -> UpdateTask]
      /\ \A k \in Tasks : hook[k].at # "Ended" => task[k].life = "Absent"
  BY DEF HandlerInv, HandlerTypeOk, NamesFresh, TypeOk, ClusterTypeOk
<1>3. hook[t].at # "Ended"
  BY <1>1 DEF ListTasks, AbortOlder, ListMachines, RemoveCondition, Annotate,
     CreateUpdateTask, CallFails, Pending
<1>4. \A k \in Tasks \ {t} : hook'[k] = hook[k]
  BY <1>1, <1>2 DEF ListTasks, AbortOlder, ListMachines, RemoveCondition, Annotate,
     CreateUpdateTask, CallFails, AfterPatch, Respond
<1>5. CASE CreateUpdateTask(t)
  <2>1. hook'[t].at = "Ended"
    BY <1>2, <1>5 DEF CreateUpdateTask, Respond, Fresh
  <2>2. \A k \in Tasks \ {t} : task'[k] = task[k]
    BY <1>2, <1>5 DEF CreateUpdateTask
  <2>3. QED
    BY <1>2, <1>4, <2>1, <2>2 DEF NamesFresh
<1>6. CASE ~CreateUpdateTask(t)
  <2>1. \A k \in Tasks : task'[k].life = task[k].life
    <3>1. ASSUME NEW k \in Tasks, task' = [task EXCEPT ![k].phase = "Abort"]
          PROVE  \A j \in Tasks : task'[j].life = task[j].life
      BY <1>2, <3>1 DEF UpdateTask
    <3>2. UNCHANGED task \/ \E k \in Tasks : task' = [task EXCEPT ![k].phase = "Abort"]
      BY <1>1, <1>6 DEF ListTasks, AbortOlder, ListMachines, RemoveCondition, Annotate,
         CallFails, clusterVars, serverVars
    <3>3. QED
      BY <3>1, <3>2
  <2>2. QED
    BY <1>2, <1>3, <1>4, <2>1 DEF NamesFresh
<1>7. QED
  BY <1>5, <1>6

LEMMA InplaceInvInit == InplaceInit => TypeOk /\ HandlerInv
<1>1. InplaceInit => HandlerTypeOk /\ TypeOk
  BY HandlerTypeInit, TypeInit DEF InplaceInit
<1>2. InplaceInit => NamesFresh
  BY DEF InplaceInit, Init, ClusterInit, NamesFresh, AbsentTask
<1>3. QED
  BY <1>1, <1>2 DEF HandlerInv

LEMMA InplaceInvNext ==
  ASSUME IInv, HandlerInv, [InplaceNext]_inplaceVars PROVE IInv' /\ HandlerInv'
<1>1. TypeOk
  BY DEF IInv
<1>2. IInv'
  BY <1>1, StepSimulates, InvNext
<1>3. HandlerInv'
  <2>1. CASE ExternalUpdate
    BY <1>1, <2>1, HandlerTypeStep, FreshStep DEF HandlerInv, TypeOk
  <2>2. CASE (Manager \/ OtherActors) /\ UNCHANGED hookVars
    <3>1. HandlerTypeOk'
      BY <2>2 DEF HandlerInv, HandlerTypeOk, hookVars
    <3>2. NamesFresh'
      BY <1>1, <2>2, AbsentUntilCreated DEF HandlerInv, NamesFresh, hookVars
    <3>3. QED
      BY <3>1, <3>2 DEF HandlerInv
  <2>3. CASE UNCHANGED inplaceVars
    BY <2>3 DEF inplaceVars, vars, clusterVars, serverVars, hookVars, HandlerInv,
       HandlerTypeOk, NamesFresh
  <2>4. QED
    BY <2>1, <2>2, <2>3 DEF InplaceNext, hookVars
<1>4. QED
  BY <1>2, <1>3

-----------------------------------------------------------------------------

\* Hook and controller together implement the controller in its environment: no
\* call, however calls overlap and fail, does what the controller does not expect.
THEOREM Refinement == InplaceSpec => KeepsToEnvironment
<1>1. InplaceInit => Init /\ IInv /\ HandlerInv
  BY InvInit, InplaceInvInit DEF InplaceInit
<1>2. IInv /\ HandlerInv /\ [InplaceNext]_inplaceVars => IInv' /\ HandlerInv'
  BY InplaceInvNext
<1>3. IInv /\ HandlerInv /\ [InplaceNext]_inplaceVars => [Next]_vars
  BY StepSimulates DEF IInv
<1>4. QED
  BY <1>1, <1>2, <1>3, PTL DEF InplaceSpec, KeepsToEnvironment, Spec

\* So roll-outs started by real calls are serial, touch no machine twice, are quiet
\* once they say they were aborted, and are not forgotten.
THEOREM InplaceSafety ==
  InplaceSpec => [](SerialUpdate /\ OneNodeTaskPerMachine /\ AbortedIsQuiet /\ NoLostTask)
BY Refinement, SerialUpdateHolds, OneNodeTaskPerMachineHolds, AbortedIsQuietHolds, NoLostTaskHolds,
   PTL DEF KeepsToEnvironment

\* Each of them is a roll-out as RollingUpdate has it: it stops at a failure, and
\* Aborted is the last it says, although another call may take its machines.
THEOREM InplaceRollout ==
  InplaceSpec => RolloutStopsAtFailure /\ AbortedStands /\ ImplementsRollout
BY Refinement, RolloutStopsAtFailureHolds, AbortedStandsHolds, RolloutRefinement, PTL
DEF KeepsToEnvironment

\* Updated is true and stands while other calls start other tasks on the same
\* machines, and a deleted task leaves nothing running behind, but for the machines
\* that a trailing cache made the manager misjudge.
THEOREM InplaceReports ==
  InplaceSpec => [](UpdatedIsHonest /\ FinalizerGuards) /\ OutcomeStands
BY Refinement, UpdatedIsHonestHolds, FinalizerGuardsHolds, OutcomeStandsHolds, PTL
DEF KeepsToEnvironment

\* Hook, controller and cluster keep their objects, caches and copies well formed
\* together: a call of the hook leaves the types of what it writes intact.
THEOREM InplaceTypeCorrect == InplaceSpec => []InplaceTypeOk
<1>1. InplaceInit => IInv /\ HandlerInv
  BY InvInit, InplaceInvInit DEF InplaceInit
<1>2. IInv /\ HandlerInv /\ [InplaceNext]_inplaceVars => (IInv /\ HandlerInv)'
  BY InplaceInvNext
<1>3. IInv /\ HandlerInv => InplaceTypeOk
  BY DEF IInv, HandlerInv, InplaceTypeOk
<1>4. QED
  BY <1>1, <1>2, <1>3, PTL DEF InplaceSpec

-----------------------------------------------------------------------------
(* What a call has seen to before it creates its task.                      *)

\* Machine m carries the name of t, or that of another call which took it over.
Named(m, t) ==
  \E k \in Tasks : machine[m].running = k /\ (k = t \/ hook[k].at # "Start")

CallOk(t) ==
  /\ hook[t].at \in {"Machines", "Annotation"} => hook[t].toAbort = {}
  /\ \A k \in hook[t].older \ hook[t].toAbort : task[k].phase = "Abort"
  /\ \A m \in hook[t].scope : machine[m].life # "Absent"
  /\ \A m \in hook[t].scope \ hook[t].todo : Exists(machine[m]) => Named(m, t)

CallsOk == \A t \in Tasks : CallOk(t)

\* Aborts are not taken back, machines do not come back, and a machine loses its
\* name only to another call that has begun.
NamesKeep ==
  /\ \A t \in Tasks : task[t].phase = "Abort" => task'[t].phase = "Abort"
  /\ \A t \in Tasks : hook[t].at # "Start" => hook'[t].at # "Start"
  /\ MachinesEvolve
  /\ \A m \in Machines : machine'[m].running = machine[m].running
       \/ \E k \in Tasks : machine'[m].running = k /\ hook'[k].at # "Start"

LEMMA CallKept ==
  ASSUME TypeOk, NamesKeep, NEW t \in Tasks, CallOk(t), hook[t] \in Call,
         hook'[t].at \in {"Machines", "Annotation"} => hook'[t].toAbort = {},
         \A k \in hook'[t].older \ hook'[t].toAbort :
           k \in hook[t].older \ hook[t].toAbort \/ (k \in Tasks /\ task'[k].phase = "Abort"),
         \A m \in hook'[t].scope :
           m \in hook[t].scope \/ (m \in Machines /\ machine[m].life # "Absent"),
         \A m \in hook'[t].scope \ hook'[t].todo :
           m \in hook[t].scope \ hook[t].todo \/ Named(m, t)'
  PROVE  CallOk(t)'
<1>1. \A k \in hook'[t].older \ hook'[t].toAbort : task'[k].phase = "Abort"
  BY DEF CallOk, NamesKeep, Call
<1>2. \A m \in hook'[t].scope : machine'[m].life # "Absent"
  BY DEF CallOk, NamesKeep, MachinesEvolve, Call
<1>3. ASSUME NEW m \in hook'[t].scope \ hook'[t].todo, Exists(machine'[m]) PROVE Named(m, t)'
  <2>1. SUFFICES ASSUME m \in hook[t].scope \ hook[t].todo PROVE Named(m, t)'
    OBVIOUS
  <2>2. m \in Machines /\ machine[m].life \in Lives /\ machine[m].life # "Absent"
    BY <2>1 DEF CallOk, Call, TypeOk, ClusterTypeOk, Machine
  <2>3. Exists(machine[m])
    BY <1>3, <2>2 DEF NamesKeep, MachinesEvolve, Exists, Lives
  <2>4. Named(m, t)
    BY <2>1, <2>3 DEF CallOk
  <2>5. QED
    BY <2>2, <2>4 DEF Named, NamesKeep
<1>4. QED
  BY <1>1, <1>2, <1>3 DEF CallOk, Exists, Named

LEMMA OthersKeepNames ==
  ASSUME TypeOk, Manager \/ OtherActors, UNCHANGED hook PROVE NamesKeep
<1> USE DEF TypeOk, ClusterTypeOk
<1>1. \A t \in Tasks : task[t].phase = "Abort" => task'[t].phase = "Abort"
  <2>1. CASE PatchMeta \/ PatchStatus
    <3>1. CASE PatchMeta
      BY <3>1 DEF PatchMeta, UpdateTask
    <3>2. CASE PatchStatus
      BY <3>2 DEF PatchStatus, UpdateTask
    <3>3. QED
      BY <2>1, <3>1, <3>2
  <2>2. CASE Manager /\ ~(PatchMeta \/ PatchStatus)
    BY <2>2 DEF Manager, Work, StartPass, ReconcileMissing, ReconcileFinalizer, OpenScope,
       ScopeError, ContinuePass, PatchMachine, ReportState, AbortNodeTask, AbortDone, NormalBlocked,
       NormalPreflightFails, NormalNothingToDo, CreateNodeTask, SyncMachines, SyncTasks, Resync,
       Restart, clusterVars, serverVars
  <2>3. ASSUME NEW k \in Tasks, AbortTask(k) \/ DeleteTask(k)
        PROVE  \A t \in Tasks : task[t].phase = "Abort" => task'[t].phase = "Abort"
    <3>1. CASE AbortTask(k)
      BY <3>1 DEF AbortTask, UpdateTask
    <3>2. CASE DeleteTask(k)
      BY <3>2 DEF DeleteTask, UpdateTask
    <3>3. QED
      BY <2>3, <3>1, <3>2
  <2>4. CASE OtherActors /\ ~ \E k \in Tasks : AbortTask(k) \/ DeleteTask(k)
    BY <2>4 DEF OtherActors, Surroundings, JoinMachine, DeleteMachine, RemoveMachine, LoseHealth,
       RegainHealth, ReportProgress, CollectNodeTask
  <2>5. QED
    BY <2>1, <2>2, <2>3, <2>4
<1>2. MachinesEvolve /\ \A m \in Machines : machine'[m].running = machine[m].running
  <2>1. CASE \E m \in Machines : PatchMachine(m)
    <3>1. \A m \in Machines : machine'[m].life = machine[m].life
                              /\ machine'[m].running = machine[m].running
      BY <2>1 DEF PatchMachine, Machine
    <3>2. QED
      BY <3>1 DEF MachinesEvolve
  <2>2. CASE Manager /\ ~ \E m \in Machines : PatchMachine(m)
    <3>1. UNCHANGED machine
      BY <2>2 DEF Manager, Work, StartPass, ReconcileMissing, ReconcileFinalizer, OpenScope,
         ScopeError, ContinuePass, ReportState, AbortNodeTask, AbortDone, NormalBlocked,
         NormalPreflightFails, NormalNothingToDo, CreateNodeTask, PatchMeta, PatchStatus,
         SyncMachines, SyncTasks, Resync, Restart, clusterVars, serverVars
    <3>2. QED
      BY <3>1 DEF MachinesEvolve
  <2>3. CASE OtherActors
    <3>1. MachinesEvolve
      BY <2>3, EnvironmentEvolves DEF Environment, Evolve
    <3>2. \A m \in Machines : machine'[m].running = machine[m].running
      <4>1. ASSUME NEW k \in Machines,
                   \/ JoinMachine(k) \/ DeleteMachine(k) \/ RemoveMachine(k)
                   \/ LoseHealth(k) \/ RegainHealth(k)
            PROVE  \A m \in Machines : machine'[m].running = machine[m].running
        BY <4>1 DEF JoinMachine, DeleteMachine, RemoveMachine, LoseHealth, RegainHealth, Machine
      <4>2. CASE UNCHANGED machine
        BY <4>2
      <4>3. QED
        BY <2>3, <4>1, <4>2 DEF OtherActors, Surroundings, AbortTask, DeleteTask, ReportProgress,
           CollectNodeTask
    <3>3. QED
      BY <3>1, <3>2
  <2>4. QED
    BY <2>1, <2>2, <2>3
<1>3. QED
  BY <1>1, <1>2 DEF NamesKeep

\* Each step of a call: what it aborted and annotated is recorded as done.
LEMMA CallStep ==
  ASSUME IInv, HandlerInv, CallsOk, ExternalUpdate
  PROVE  CallsOk'
<1>1. PICK t \in Tasks :
        \/ ListTasks(t) \/ (\E k \in Tasks : AbortOlder(t, k)) \/ ListMachines(t)
        \/ (\E m \in Machines : RemoveCondition(t, m) \/ Annotate(t, m))
        \/ CreateUpdateTask(t) \/ CallFails(t)
  BY DEF ExternalUpdate
<1>2. /\ TypeOk /\ hook \in [Tasks -> Call] /\ task \in [Tasks -> UpdateTask]
      /\ machine \in [Machines -> Machine]
      /\ \A k \in Tasks : CallOk(k)
  BY DEF IInv, HandlerInv, HandlerTypeOk, TypeOk, ClusterTypeOk, CallsOk
<1>3. MachinesEvolve
  BY ExternalUpdateSimulates, EnvironmentEvolves
  DEF Evolve, MachinesEvolve, IInv, TypeOk, clusterVars, serverVars
<1>4. \A k \in Tasks \ {t} : hook'[k] = hook[k]
  BY <1>1, <1>2 DEF ListTasks, AbortOlder, ListMachines, RemoveCondition, Annotate,
     CreateUpdateTask, CallFails, AfterPatch, Respond
<1>5. ASSUME NamesKeep, CallOk(t)' PROVE CallsOk'
  <2>1. ASSUME NEW k \in Tasks \ {t} PROVE CallOk(k)'
    <3>1. hook'[k] = hook[k] /\ CallOk(k) /\ hook[k] \in Call
      BY <1>2, <1>4
    <3>2. QED
      BY <1>2, <1>5, <3>1, CallKept DEF CallOk
  <2>2. QED
    BY <1>5, <2>1 DEF CallsOk
<1>6. ASSUME NEW r \in {"Success", "Failure"}, Respond(t, r), NamesKeep PROVE CallsOk'
  <2>1. hook'[t] = Fresh("Ended", r)
    BY <1>2, <1>6 DEF Respond
  <2>2. CallOk(t)'
    BY <2>1 DEF CallOk, Fresh
  <2>3. QED
    BY <1>5, <1>6, <2>2
<1>7. ASSUME UNCHANGED <<task, machine>>, hook'[t].at # "Start" PROVE NamesKeep
  BY <1>3, <1>4, <1>7 DEF NamesKeep
<1>8. CASE ListTasks(t)
  <2>1. UNCHANGED <<task, machine>> /\ hook'[t].at = "Abort"
        /\ hook'[t].older \ hook'[t].toAbort = {}
        /\ hook'[t].scope = hook[t].scope /\ hook'[t].todo = hook[t].todo
    <3>1. PICK older \in SUBSET Tasks :
            hook' = [hook EXCEPT ![t] =
              [hook[t] EXCEPT !.at = "Abort", !.older = older, !.toAbort = older]]
      BY <1>8, ListTasksUpdates DEF HandlerInv
    <3>2. hook'[t] = [hook[t] EXCEPT !.at = "Abort", !.older = older, !.toAbort = older]
      BY <1>2, <3>1
    <3>3. /\ hook'[t].at = "Abort" /\ hook'[t].older = older /\ hook'[t].toAbort = older
          /\ hook'[t].scope = hook[t].scope /\ hook'[t].todo = hook[t].todo
      BY <1>2, <3>2 DEF Call
    <3>4. UNCHANGED <<task, machine>>
      BY <1>8 DEF ListTasks, clusterVars, serverVars
    <3>5. QED
      BY <3>3, <3>4
  <2>2. NamesKeep
    BY <1>7, <2>1
  <2>3. CallOk(t)'
    BY <1>2, <2>1, <2>2, CallKept
  <2>4. QED
    BY <1>5, <2>2, <2>3
<1>9. ASSUME NEW k \in Tasks, AbortOlder(t, k) PROVE CallsOk'
  <2>1. UNCHANGED machine /\ hook[t].at = "Abort"
    BY <1>9 DEF AbortOlder
  <2>2. CASE Respond(t, "Failure") /\ UNCHANGED task
    <3>1. hook'[t].at # "Start"
      BY <1>2, <2>2 DEF Respond, Fresh
    <3>2. QED
      BY <1>6, <1>7, <2>1, <2>2, <3>1
  <2>3. CASE task' = [task EXCEPT ![k].phase = "Abort"] /\ hook' = [hook EXCEPT ![t].toAbort = @ \ {k}]
    <3>1. /\ hook'[t].at = "Abort" /\ hook'[t].toAbort = hook[t].toAbort \ {k}
          /\ hook'[t].older = hook[t].older
          /\ hook'[t].scope = hook[t].scope /\ hook'[t].todo = hook[t].todo
      BY <1>2, <2>1, <2>3 DEF Call
    <3>2. task'[k].phase = "Abort" /\ \A j \in Tasks : task[j].phase = "Abort" => task'[j].phase = "Abort"
      BY <1>2, <2>3 DEF UpdateTask
    <3>3. NamesKeep
      BY <1>3, <1>4, <2>1, <3>1, <3>2 DEF NamesKeep
    <3>4. CallOk(t)'
      BY <1>2, <3>1, <3>2, <3>3, CallKept
    <3>5. QED
      BY <1>5, <3>3, <3>4
  <2>4. QED
    BY <1>9, <2>2, <2>3 DEF AbortOlder
<1>10. CASE ListMachines(t)
  <2>1. UNCHANGED <<task, machine>> /\ hook[t].toAbort = {}
    BY <1>10 DEF ListMachines, clusterVars, serverVars
  <2>2. PICK ms \in {machine, machineCache} :
          /\ hook'[t].at = "Machines" /\ hook'[t].toAbort = hook[t].toAbort
          /\ hook'[t].older = hook[t].older
          /\ hook'[t].scope = {m \in Machines : Exists(ms[m])} /\ hook'[t].todo = hook'[t].scope
    <3>1. PICK ms \in {machine, machineCache} :
            LET scope == {m \in Machines : Exists(ms[m])}
            IN hook' = [hook EXCEPT ![t].at = "Machines", ![t].scope = scope, ![t].todo = scope,
                 ![t].upToDate = [m \in Machines |-> IF m \in scope THEN ms[m].upToDate ELSE "None"]]
      BY <1>10 DEF ListMachines
    <3> DEFINE scope == {m \in Machines : Exists(ms[m])}
               listed == [m \in Machines |-> IF m \in scope THEN ms[m].upToDate ELSE "None"]
    <3> HIDE DEF scope, listed
    <3>2. hook'[t] = [hook[t] EXCEPT !.at = "Machines", !.scope = scope, !.todo = scope,
                                     !.upToDate = listed]
      BY <1>2, <3>1 DEF scope, listed
    <3>3. /\ hook'[t].at = "Machines" /\ hook'[t].toAbort = hook[t].toAbort
          /\ hook'[t].older = hook[t].older
          /\ hook'[t].scope = scope /\ hook'[t].todo = scope
      BY <1>2, <3>2 DEF Call
    <3>4. QED
      BY <3>3 DEF scope
  <2>3. \A m \in hook'[t].scope : m \in Machines /\ machine[m].life # "Absent"
    BY <2>2 DEF Exists, IInv, CachesOk
  <2>4. NamesKeep
    BY <1>7, <2>1, <2>2
  <2>5. CallOk(t)'
    BY <1>2, <2>1, <2>2, <2>3, <2>4, CallKept
  <2>6. QED
    BY <1>5, <2>4, <2>5
<1>11. ASSUME NEW m \in Machines, RemoveCondition(t, m) PROVE CallsOk'
  <2>1. /\ hook[t].at = "Machines" /\ hook'[t].at = "Annotation" /\ UNCHANGED task
        /\ hook'[t].toAbort = hook[t].toAbort /\ hook'[t].older = hook[t].older
        /\ hook'[t].scope = hook[t].scope /\ hook'[t].todo = hook[t].todo
    BY <1>2, <1>11 DEF RemoveCondition, Call
  <2>2. \A j \in Machines : machine'[j].running = machine[j].running
    BY <1>2, <1>11 DEF RemoveCondition, Machine
  <2>3. NamesKeep
    BY <1>3, <1>4, <2>1, <2>2 DEF NamesKeep
  <2>4. hook[t].toAbort = {}
    BY <1>2, <2>1 DEF CallOk
  <2>5. CallOk(t)'
    BY <1>2, <2>1, <2>3, <2>4, CallKept
  <2>6. QED
    BY <1>5, <2>3, <2>5
<1>12. ASSUME NEW m \in Machines, Annotate(t, m) PROVE CallsOk'
  <2>1. UNCHANGED task /\ hook[t].at = "Annotation" /\ hook[t].toAbort = {}
    BY <1>2, <1>12 DEF Annotate, CallOk
  <2>2. CASE Respond(t, "Success")
    <3>1. hook'[t].at # "Start"
      BY <1>2, <2>2 DEF Respond, Fresh
    <3>2. \A j \in Machines : machine'[j].running = machine[j].running \/ machine'[j].running = t
      BY <1>2, <1>12 DEF Annotate, Machine
    <3>3. NamesKeep
      BY <1>3, <1>4, <2>1, <3>1, <3>2 DEF NamesKeep
    <3>4. QED
      BY <1>6, <2>2, <3>3
  <2>3. CASE ~Respond(t, "Success")
    <3>1. /\ machine' = [machine EXCEPT ![m].running = t]
          /\ hook' = [hook EXCEPT ![t].at = "Machines", ![t].todo = @ \ {m}]
      BY <1>12, <2>3 DEF Annotate, AfterPatch
    <3>2. /\ hook'[t].at = "Machines" /\ hook'[t].toAbort = hook[t].toAbort
          /\ hook'[t].older = hook[t].older
          /\ hook'[t].scope = hook[t].scope /\ hook'[t].todo = hook[t].todo \ {m}
      BY <1>2, <3>1 DEF Call
    <3>3. \A j \in Machines : machine'[j].running = IF j = m THEN t ELSE machine[j].running
      BY <1>2, <3>1 DEF Machine
    <3>4. NamesKeep
      BY <1>3, <1>4, <2>1, <3>2, <3>3 DEF NamesKeep
    <3>5. Named(m, t)'
      BY <3>3 DEF Named
    <3>6. CallOk(t)'
      BY <1>2, <2>1, <3>2, <3>4, <3>5, CallKept
    <3>7. QED
      BY <1>5, <3>4, <3>6
  <2>4. QED
    BY <2>2, <2>3
<1>13. CASE CreateUpdateTask(t) \/ CallFails(t)
  <2>1. PICK r \in {"Success", "Failure"} : Respond(t, r)
    BY <1>13 DEF CreateUpdateTask, CallFails
  <2>2. UNCHANGED machine /\ \A k \in Tasks : task'[k].phase = task[k].phase
    BY <1>2, <1>13 DEF CreateUpdateTask, CallFails, UpdateTask, clusterVars, serverVars
  <2>3. hook'[t].at # "Start"
    BY <1>2, <2>1 DEF Respond, Fresh
  <2>4. NamesKeep
    BY <1>3, <1>4, <2>2, <2>3 DEF NamesKeep
  <2>5. QED
    BY <1>6, <2>1, <2>4
<1>14. QED
  BY <1>1, <1>8, <1>9, <1>10, <1>11, <1>12, <1>13

LEMMA CallsInit == InplaceInit => CallsOk
BY DEF InplaceInit, HandlerInit, Fresh, CallsOk, CallOk

LEMMA CallsNext ==
  ASSUME IInv, HandlerInv, CallsOk, [InplaceNext]_inplaceVars PROVE CallsOk'
<1>1. CASE ExternalUpdate
  BY <1>1, CallStep
<1>2. CASE (Manager \/ OtherActors) /\ UNCHANGED hookVars
  <2>1. TypeOk /\ UNCHANGED hook /\ hook \in [Tasks -> Call]
    BY <1>2 DEF IInv, HandlerInv, HandlerTypeOk, hookVars
  <2>2. NamesKeep
    BY <1>2, <2>1, OthersKeepNames
  <2>3. ASSUME NEW t \in Tasks PROVE CallOk(t)'
    <3>1. CallOk(t) /\ hook[t] \in Call
      BY <2>1 DEF CallsOk
    <3>2. UNCHANGED hook[t]
      BY <2>1
    <3>3. hook'[t].at \in {"Machines", "Annotation"} => hook'[t].toAbort = {}
      BY <3>1, <3>2 DEF CallOk
    <3>4. QED
      BY <2>1, <2>2, <3>1, <3>2, <3>3, CallKept
  <2>4. QED
    BY <2>3 DEF CallsOk
<1>3. CASE UNCHANGED inplaceVars
  BY <1>3 DEF inplaceVars, vars, clusterVars, serverVars, hookVars, CallsOk, CallOk, Named, Exists
<1>4. QED
  BY <1>1, <1>2, <1>3 DEF InplaceNext, hookVars

\* Only the last step of a call creates a task, and then nothing is left to do.
LEMMA CreationStep ==
  ASSUME IInv, HandlerInv, CallsOk, [InplaceNext]_inplaceVars,
         NEW t \in Tasks, CreatedBy(t)
  PROVE  hook[t].todo = {} /\ hook[t].toAbort = {}
<1>1. task[t].life = "Absent" /\ task'[t].life = "Live"
  BY DEF CreatedBy
<1>2. ExternalUpdate
  <2>1. CASE Manager \/ OtherActors
    BY <1>1, <2>1, AbsentUntilCreated DEF IInv
  <2>2. ~ UNCHANGED task
    BY <1>1
  <2>3. QED
    BY <2>1, <2>2 DEF InplaceNext, inplaceVars, vars, clusterVars, serverVars
<1>3. task \in [Tasks -> UpdateTask] /\ CallOk(t)
  BY DEF IInv, TypeOk, ClusterTypeOk, CallsOk
<1>4. ASSUME NEW k \in Tasks, task' = [task EXCEPT ![k].phase = "Abort"] PROVE FALSE
  BY <1>1, <1>3, <1>4 DEF UpdateTask
<1>5. ASSUME NEW k \in Tasks, CreateUpdateTask(k), k # t PROVE FALSE
  BY <1>1, <1>3, <1>5 DEF CreateUpdateTask
<1>6. CreateUpdateTask(t)
  BY <1>1, <1>2, <1>4, <1>5 DEF ExternalUpdate, ListTasks, AbortOlder, ListMachines,
     RemoveCondition, Annotate, CallFails, clusterVars, serverVars
<1>7. QED
  BY <1>3, <1>6 DEF CreateUpdateTask, CallOk

\* A task comes into being only when every machine its call listed carries its
\* name, or was taken over by another call, or is gone: a patch that failed, or a
\* call that died half way, never leads to a task that misses some of them.
THEOREM CreatedWithWholeScopeHolds == InplaceSpec => CreatedWithWholeScope
<1>1. InplaceInit => IInv /\ HandlerInv /\ CallsOk
  BY InvInit, InplaceInvInit, CallsInit DEF InplaceInit
<1>2. IInv /\ HandlerInv /\ CallsOk /\ [InplaceNext]_inplaceVars
        => (IInv /\ HandlerInv /\ CallsOk)'
  BY InplaceInvNext, CallsNext
<1>3. IInv /\ HandlerInv /\ CallsOk /\ [InplaceNext]_inplaceVars
        => [\A t \in Tasks : CreatedBy(t) =>
              \A m \in hook[t].scope : Exists(machine[m]) =>
                \/ machine[m].running = t
                \/ \E k \in Tasks \ {t} : machine[m].running = k
                                          /\ hook[k].at # "Start"]_inplaceVars
  <2>1. SUFFICES ASSUME IInv, HandlerInv, CallsOk, [InplaceNext]_inplaceVars,
                        NEW t \in Tasks, CreatedBy(t), NEW m \in hook[t].scope,
                        Exists(machine[m])
                 PROVE  \/ machine[m].running = t
                        \/ \E k \in Tasks \ {t} : machine[m].running = k
                                                  /\ hook[k].at # "Start"
    OBVIOUS
  <2>2. Named(m, t)
    BY <2>1, CreationStep DEF CallsOk, CallOk
  <2>3. QED
    BY <2>2 DEF Named
<1>4. QED
  BY <1>1, <1>2, <1>3, PTL DEF InplaceSpec, CreatedWithWholeScope

\* A call that starts a task has stopped every older task it found in progress:
\* no failure in between lets two of them go on side by side.
THEOREM CreatedAfterAbortsHolds == InplaceSpec => CreatedAfterAborts
<1>1. InplaceInit => IInv /\ HandlerInv /\ CallsOk
  BY InvInit, InplaceInvInit, CallsInit DEF InplaceInit
<1>2. IInv /\ HandlerInv /\ CallsOk /\ [InplaceNext]_inplaceVars
        => (IInv /\ HandlerInv /\ CallsOk)'
  BY InplaceInvNext, CallsNext
<1>3. IInv /\ HandlerInv /\ CallsOk /\ [InplaceNext]_inplaceVars
        => [\A t \in Tasks : CreatedBy(t) =>
              \A k \in hook[t].older : Exists(task[k]) => Stopping(task[k])]_inplaceVars
  BY CreationStep DEF CallsOk, CallOk, Stopping
<1>4. QED
  BY <1>1, <1>2, <1>3, PTL DEF InplaceSpec, CreatedAfterAborts

=============================================================================
