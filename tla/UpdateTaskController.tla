------------------------ MODULE UpdateTaskController ------------------------
(***************************************************************************)
(* The UpdateTask controller: one worker that takes a task from the work   *)
(* queue and runs Reconcile on it.  A pass reads the task and the machines *)
(* from the informer caches and the node update tasks from the API server, *)
(* works on those copies while the cluster moves on, and writes through    *)
(* calls that may fail one by one: a condition on each machine in scope,   *)
(* an abort on running node updates or a new node update, and at the end   *)
(* the finalizer and then the status of the task itself.                   *)
(***************************************************************************)
EXTENDS ClusterState

CONSTANT KubeadmControlPlane  \* is the task's target a KubeadmControlPlane?

ASSUME ControllerAssumption == KubeadmControlPlane \in BOOLEAN

VARIABLES
  queue,     \* the work queue, a set of task names
  pc,        \* where the worker is in its pass
  cur,       \* the task of this pass, or NoTask
  before,    \* the task as the pass read it, what patches are diffed against
  obj,       \* the pass's own copy of the task, which it changes
  machines,  \* scope.UpdateMachines
  nodes,     \* scope.NodeUpdateTasks
  todo,      \* machines whose condition the pass has still to patch
  toAbort,   \* node update tasks the pass has still to abort
  retry      \* does the pass end with an error or a requeue?

passVars == <<pc, cur, before, obj, machines, nodes, todo, toAbort, retry>>
vars == <<clusterVars, queue, passVars>>

NoMachines == [m \in Machines |->
  [life |-> "Absent", running |-> NoTask, upToDate |-> "None", health |-> "Healthy"]]
NoNodes == [n \in NodeTasks |-> NoNodeTask]

Locations == {"Idle", "Machines", "Abort", "Normal", "PatchMeta", "PatchStatus"}

TypeOk ==
  /\ ClusterTypeOk
  /\ queue \in SUBSET Tasks
  /\ pc \in Locations
  /\ cur \in Tasks \cup {NoTask}
  /\ before \in UpdateTask
  /\ obj \in UpdateTask
  /\ machines \in [Machines -> Machine]
  /\ nodes \in [NodeTasks -> NodeUpdateTask]
  /\ todo \in SUBSET Machines
  /\ toAbort \in SUBSET NodeTasks
  /\ retry \in {"No", "Yes"}

PassInit ==
  /\ queue = {}
  /\ pc = "Idle"
  /\ cur = NoTask
  /\ before = AbsentTask /\ obj = AbsentTask
  /\ machines = NoMachines /\ nodes = NoNodes
  /\ todo = {} /\ toAbort = {}
  /\ retry = "No"

Init == ClusterInit /\ PassInit

-----------------------------------------------------------------------------
(* What a pass concludes from the copies it listed.                        *)

\* Of several node update tasks for one machine the latest one counts.
LatestNodeTasks(ns, m) ==
  {n \in NodeTasks : /\ ns[n].machine = m
                     /\ \A k \in NodeTasks : ns[k].machine = m => k <= n}

HasNodeTask(ns, m) == \E n \in NodeTasks : ns[n].machine = m
Reports(ns, m, ss) == \E n \in LatestNodeTasks(ns, m) : ns[n].state \in ss

\* Deviation: only machines that have a node update task are counted.
AllUpdatedIgnoringWaiting(t, ms, ns) ==
  \A m \in Machines : Exists(ms[m]) /\ HasNodeTask(ns, m) => Reports(ns, m, {"Updated"})

\* total = updated, over machines that are in scope or have a node update task.
AllUpdated(t, ms, ns) ==
  \A m \in Machines :
    Exists(ms[m]) /\ (HasNodeTask(ns, m) \/ InScope(ms[m], t)) => Reports(ns, m, {"Updated"})

\* Deviations: a node update without a status is not in progress; a machine that
\* waits for its update is.
NoneInProgressOnceReported(ms, ns) ==
  \A m \in Machines : Exists(ms[m]) => ~Reports(ns, m, {"InProgress"})
NoneInProgressOrWaiting(ms, ns) ==
  \A m \in Machines : Exists(ms[m]) => Reports(ns, m, {"Updated", "Aborted", "Failed"})

\* inProgress = 0.
NoneInProgress(ms, ns) ==
  \A m \in Machines : Exists(ms[m]) => ~Reports(ns, m, {"InProgress", "Unknown"})

SummaryState(t, o, ms, ns) ==
  IF Stopping(o)
  THEN IF NoneInProgress(ms, ns) THEN "Aborted" ELSE "InProgress"
  ELSE IF AllUpdated(t, ms, ns) THEN "Updated" ELSE "InProgress"

\* Deviation: the state of the node update serves as the reason of the condition.
WantedUpToDateRaw(ns, m, old) ==
  IF HasNodeTask(ns, m) THEN {ns[n].state : n \in LatestNodeTasks(ns, m)} ELSE {"WaitForUpdate"}

\* The MachineUpToDate values a pass wants for machine m, now valued old; at
\* most one.  A node update that has not reported yet leaves it unchanged.
WantedUpToDate(ns, m, old) ==
  IF HasNodeTask(ns, m)
  THEN {CASE ns[n].state = "Updated" -> "True"
          [] ns[n].state = "Unknown" -> old
          [] OTHER -> ns[n].state : n \in LatestNodeTasks(ns, m)}
  ELSE {"WaitForUpdate"}

MachinesToPatch(t, ms, ns) ==
  {m \in Machines : /\ Exists(ms[m]) /\ InScope(ms[m], t)
                    /\ ms[m].upToDate \notin WantedUpToDate(ns, m, ms[m].upToDate)}

\* Deviation: the loop does not skip machines that have a node update task.
WaitingAgain(m) == Exists(machines[m]) /\ InScope(machines[m], cur)

\* A machine the pass would update next: in scope, without a node update task,
\* and the oldest such machine.
Waiting(m) == Exists(machines[m]) /\ InScope(machines[m], cur) /\ ~HasNodeTask(nodes, m)
NextMachines == {m \in Machines : Waiting(m) /\ \A k \in Machines : Waiting(k) => m <= k}

Listed(n) == nodes[n].owner # NoTask

\* Deviations: only failures, only running node updates, or all of them block.
BlockedByFailure == \E n \in NodeTasks : Listed(n) /\ nodes[n].state = "Failed"
BlockedByRunning == \E n \in NodeTasks : Listed(n) /\ ~IsTerminated(nodes[n].state)
BlockedByAny == \E n \in NodeTasks : Listed(n)

\* A listed node update that is running, or has failed, holds up the next one.
Blocked == \E n \in NodeTasks :
  Listed(n) /\ (~IsTerminated(nodes[n].state) \/ nodes[n].state = "Failed")

\* preflightChecks: no machine is being deleted and every machine is healthy.
PreflightOk ==
  KubeadmControlPlane =>
    \A m \in Machines : machineCache[m].life # "Deleting"
                        /\ (machineCache[m].life = "Live" => machineCache[m].health = "Healthy")

\* Deviations: a task being stopped loses its finalizer at once; an aborted one
\* keeps it.
FinalWhenStopping(o) ==
  IF IsTerminated(o.state) \/ Stopping(o) THEN [o EXCEPT !.finalizers = {}] ELSE o
FinalWhenUpdated(o) == IF o.state = "Updated" THEN [o EXCEPT !.finalizers = {}] ELSE o

\* The deferred function: a terminated task loses its finalizer.
Final(o) == IF IsTerminated(o.state) THEN [o EXCEPT !.finalizers = {}] ELSE o

-----------------------------------------------------------------------------
(* One pass of Reconcile.                                                  *)

\* Leave the body of Reconcile for the deferred patch of the task.
Leave(r) ==
  /\ pc' = "PatchMeta"
  /\ retry' = r
  /\ machines' = NoMachines /\ nodes' = NoNodes
  /\ todo' = {} /\ toAbort' = {}
  /\ UNCHANGED <<queue, cur, before>>

Dequeue(t) ==
  /\ pc = "Idle"
  /\ t \in queue
  /\ queue' = queue \ {t}

Begin(t) ==
  /\ Exists(taskCache[t])
  /\ cur' = t
  /\ before' = taskCache[t]

\* The task is not found: nothing to do, and no requeue.
ReconcileMissing(t) ==
  /\ Dequeue(t)
  /\ ~Exists(taskCache[t])
  /\ UNCHANGED <<clusterVars, passVars>>

\* A task without the finalizer gets it in a pass of its own.
ReconcileFinalizer(t) ==
  /\ Dequeue(t) /\ Begin(t)
  /\ taskCache[t].finalizers = {}
  /\ obj' = [taskCache[t] EXCEPT !.finalizers = {UpdateTaskFinalizer}]
  /\ pc' = "PatchMeta"
  /\ retry' = "Yes"
  /\ UNCHANGED <<clusterVars, machines, nodes, todo, toAbort>>

\* scopes.New.  The node update tasks are listed last and are up to date; the
\* cached objects may be any number of changes behind.
OpenScope(t) ==
  /\ Dequeue(t) /\ Begin(t)
  /\ UpdateTaskFinalizer \in taskCache[t].finalizers
  /\ obj' = taskCache[t]
  /\ machines' = machineCache
  /\ nodes' = [n \in NodeTasks |-> IF nodeTask[n].owner = t THEN nodeTask[n] ELSE NoNodeTask]
  /\ todo' = MachinesToPatch(t, machines', nodes')
  /\ pc' = "Machines"
  /\ UNCHANGED <<clusterVars, toAbort, retry>>

\* scopes.New fails; the deferred patch still runs on the task as read.
ScopeError(t) ==
  /\ Fault
  /\ Dequeue(t) /\ Begin(t)
  /\ UpdateTaskFinalizer \in taskCache[t].finalizers
  /\ obj' = taskCache[t]
  /\ pc' = "PatchMeta"
  /\ retry' = "Yes"
  /\ UNCHANGED <<serverVars, cacheVars, churn, machines, nodes, todo, toAbort>>

\* Does the patch of a condition go through?  The helper reads the machine again,
\* from the cache, and refuses unless the condition there is the one the pass read
\* or the one it wants; the server refuses a patch of a machine that has changed
\* since the cache showed it.
MergesTo(m, c) ==
  /\ Exists(machine[m]) /\ machineCache[m] = machine[m]
  /\ machine[m].upToDate \in {machines[m].upToDate, c}

\* reconcileStatus, the loop over machines.  Errors are only logged.
PatchMachine(m) ==
  /\ pc = "Machines"
  /\ m \in todo /\ \A k \in todo : m <= k
  /\ todo' = todo \ {m}
  /\ LET wanted == WantedUpToDate(nodes, m, machines[m].upToDate) IN
     \/ /\ \E c \in wanted : MergesTo(m, c) /\ machine' = [machine EXCEPT ![m].upToDate = c]
        /\ UNCHANGED faults
     \/ (\A c \in wanted : ~MergesTo(m, c)) /\ UNCHANGED <<machine, faults>>
     \/ Fault /\ UNCHANGED machine
  /\ UNCHANGED <<task, nodeTask, cacheVars, churn, queue, pc, cur, before, obj,
                 machines, nodes, toAbort, retry>>

\* Deviation: only node updates that have reported are aborted.
UnfinishedReported(n) == Listed(n) /\ nodes[n].state = "InProgress"

\* A listed node update that reconcileAbort has to abort.
Unfinished(n) == Listed(n) /\ ~IsTerminated(nodes[n].state)

\* The machines of the pass's task that its listing does not show to be in scope.
Unseen == {m \in Machines :
  /\ InScope(machine[m], cur) \/ InScope(machineCache[m], cur)
  /\ ~InScope(machines[m], cur)}

\* reconcileStatus, the summary, and the branch of Reconcile after it.  A summary
\* of Updated takes no account of the unseen machines.
ReportState ==
  /\ pc = "Machines"
  /\ todo = {}
  /\ obj' = [obj EXCEPT !.state = SummaryState(cur, before, machines, nodes)]
  /\ IF Stopping(before)
     THEN /\ pc' = "Abort"
          /\ toAbort' = {n \in NodeTasks : Unfinished(n)}
     ELSE pc' = "Normal" /\ toAbort' = {}
  /\ misled' = IF obj'.state = "Updated" THEN misled \cup ({cur} \X Unseen) ELSE misled
  /\ UNCHANGED <<serverVars, taskCache, machineCache, churn, faults,
                 queue, cur, before, machines, nodes, todo, retry>>

\* reconcileAbort, one node update task; an error ends the pass.
AbortNodeTask(n) ==
  /\ pc = "Abort"
  /\ n \in toAbort
  /\ UNCHANGED obj
  /\ \/ /\ nodeTask[n].owner = cur
        /\ nodeTask' = [nodeTask EXCEPT ![n].phase = "Abort"]
        /\ toAbort' = toAbort \ {n}
        /\ UNCHANGED <<faults, queue, pc, cur, before, machines, nodes, todo, retry>>
     \/ nodeTask[n].owner # cur /\ Leave("Yes") /\ UNCHANGED <<nodeTask, faults>>
     \/ Fault /\ Leave("Yes") /\ UNCHANGED nodeTask
  /\ UNCHANGED <<task, machine, cacheVars, churn>>

AbortDone ==
  /\ pc = "Abort"
  /\ toAbort = {}
  /\ Leave("No")
  /\ UNCHANGED <<clusterVars, obj>>

\* reconcileNormal returns early while a listed node update runs or has failed.
NormalBlocked ==
  /\ pc = "Normal"
  /\ Blocked
  /\ Leave("No")
  /\ UNCHANGED <<clusterVars, obj>>

\* The preflight check does not pass, or cannot be made.
NormalPreflightFails ==
  /\ pc = "Normal"
  /\ ~Blocked
  /\ \/ ~PreflightOk /\ UNCHANGED faults
     \/ KubeadmControlPlane /\ Fault
  /\ Leave("Yes")
  /\ UNCHANGED <<serverVars, cacheVars, churn, obj>>

NormalNothingToDo ==
  /\ pc = "Normal"
  /\ ~Blocked /\ PreflightOk
  /\ NextMachines = {}
  /\ Leave("No")
  /\ UNCHANGED <<clusterVars, obj>>

\* CreateNodeUpdateTask for the oldest waiting machine.  The object is stored,
\* whether or not the answer arrives, or the call fails.
CreateNodeTask(m) ==
  /\ pc = "Normal"
  /\ ~Blocked /\ PreflightOk
  /\ m \in NextMachines
  /\ Leave("Yes")
  /\ \/ /\ \E n \in NodeTasks :
             /\ nodeTask[n].owner = NoTask
             /\ \A k \in NodeTasks : nodeTask[k].owner = NoTask => n <= k
             /\ nodeTask' = [nodeTask EXCEPT ![n] =
                  [owner |-> cur, machine |-> m, phase |-> "Update", state |-> "Unknown"]]
        /\ UNCHANGED faults
     \/ Fault /\ UNCHANGED nodeTask
  /\ UNCHANGED <<task, machine, cacheVars, churn, obj>>

\* The deferred helper.Patch writes metadata first: the finalizer, if the pass
\* changed it.  A deleted task without finalizers is gone.
PatchMeta ==
  /\ pc = "PatchMeta"
  /\ obj' = Final(obj)
  /\ pc' = "PatchStatus"
  /\ \/ /\ obj'.finalizers = before.finalizers
        /\ UNCHANGED <<task, faults, retry>>
     \/ /\ obj'.finalizers # before.finalizers
        /\ Exists(task[cur])
        /\ task' = [task EXCEPT ![cur].finalizers = obj'.finalizers,
                                ![cur].life = IF task[cur].life = "Deleting" /\ obj'.finalizers = {}
                                              THEN "Gone" ELSE task[cur].life]
        /\ UNCHANGED <<faults, retry>>
     \/ /\ obj'.finalizers # before.finalizers
        /\ ~Exists(task[cur])
        /\ retry' = "Yes"
        /\ UNCHANGED <<task, faults>>
     \/ /\ obj'.finalizers # before.finalizers
        /\ Fault
        /\ retry' = "Yes"
        /\ UNCHANGED task
  /\ UNCHANGED <<machine, nodeTask, cacheVars, churn, queue, cur, before,
                 machines, nodes, todo, toAbort>>

\* Deviation: only errors and requeues bring the task back.
EndPassOnResult(r) ==
  /\ queue' = IF r = "Yes" THEN queue \cup {cur} ELSE queue
  /\ pc' = "Idle"
  /\ cur' = NoTask
  /\ before' = AbsentTask /\ obj' = AbsentTask
  /\ retry' = "No"
  /\ UNCHANGED <<machines, nodes, todo, toAbort>>

\* The pass is over: the task is queued again after an error or a requeue, and
\* as long as it is not terminated.
EndPass(r) ==
  /\ queue' = IF r = "Yes" \/ ~IsTerminated(obj.state) THEN queue \cup {cur} ELSE queue
  /\ pc' = "Idle"
  /\ cur' = NoTask
  /\ before' = AbsentTask /\ obj' = AbsentTask
  /\ retry' = "No"
  /\ UNCHANGED <<machines, nodes, todo, toAbort>>

\* helper.Patch writes the status last, also when the metadata patch failed.
\* A task that is gone after losing its last finalizer is no error.
PatchStatus ==
  /\ pc = "PatchStatus"
  /\ \/ /\ obj.state = before.state
        /\ EndPass(retry)
        /\ UNCHANGED <<task, faults>>
     \/ /\ obj.state # before.state
        /\ Exists(task[cur])
        /\ task' = [task EXCEPT ![cur].state = obj.state]
        /\ EndPass(retry)
        /\ UNCHANGED faults
     \/ /\ obj.state # before.state
        /\ ~Exists(task[cur])
        /\ EndPass(IF before.life = "Deleting" /\ obj.finalizers = {} THEN retry ELSE "Yes")
        /\ UNCHANGED <<task, faults>>
     \/ /\ obj.state # before.state
        /\ Fault
        /\ EndPass("Yes")
        /\ UNCHANGED task
  /\ UNCHANGED <<machine, nodeTask, cacheVars, churn>>

-----------------------------------------------------------------------------
(* The manager around the worker.                                          *)

\* The Machine informer catches up with the server.
SyncMachines ==
  /\ machineCache' = machine
  /\ machineCache # machine
  /\ UNCHANGED <<serverVars, taskCache, misled, churn, faults, queue, passVars>>

\* The UpdateTask informer catches up and queues every task that changed.
SyncTasks ==
  /\ taskCache # task
  /\ taskCache' = task
  /\ queue' = queue \cup {t \in Tasks : taskCache[t] # task[t]}
  /\ UNCHANGED <<serverVars, machineCache, misled, churn, faults, passVars>>

\* Every sync period all cached tasks are queued.
Resync ==
  /\ queue' = queue \cup {t \in Tasks : Exists(taskCache[t])}
  /\ UNCHANGED <<clusterVars, passVars>>

\* The manager stops at any point of a pass and starts again: its queue and
\* its copies are lost, its informers list everything anew.
Restart ==
  /\ Fault
  /\ taskCache' = task
  /\ machineCache' = machine
  /\ queue' = {t \in Tasks : Exists(task[t])}
  /\ pc' = "Idle"
  /\ cur' = NoTask
  /\ before' = AbsentTask /\ obj' = AbsentTask
  /\ machines' = NoMachines /\ nodes' = NoNodes
  /\ todo' = {} /\ toAbort' = {}
  /\ retry' = "No"
  /\ UNCHANGED <<serverVars, misled, churn>>

StartPass(t) ==
  ReconcileMissing(t) \/ ReconcileFinalizer(t) \/ OpenScope(t) \/ ScopeError(t)

ContinuePass ==
  \/ \E m \in Machines : PatchMachine(m)
  \/ ReportState
  \/ \E n \in NodeTasks : AbortNodeTask(n)
  \/ AbortDone
  \/ NormalBlocked
  \/ NormalPreflightFails
  \/ NormalNothingToDo
  \/ \E m \in Machines : CreateNodeTask(m)
  \/ PatchMeta
  \/ PatchStatus

Work ==
  \/ \E t \in Tasks : StartPass(t)
  \/ ContinuePass
  \/ SyncMachines
  \/ SyncTasks
  \/ Resync

Manager == Work \/ Restart

Next == Manager \/ (Environment /\ UNCHANGED <<queue, passVars>>)

Spec == Init /\ [][Next]_vars

=============================================================================
