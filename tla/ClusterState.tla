---------------------------- MODULE ClusterState ----------------------------
(***************************************************************************)
(* The objects the in-place updater keeps in the Kubernetes API server and *)
(* everything that happens to them outside the UpdateTask controller: the  *)
(* update hook that annotates machines and creates a task, the user who    *)
(* aborts or deletes it, Cluster API adding, breaking and removing         *)
(* machines, the provider that carries out a node update, and the garbage  *)
(* collector.  None of these actors waits for the controller; the          *)
(* controller reads typed objects from informer caches that trail the      *)
(* server, each on its own, and nothing bounds by how much.                *)
(***************************************************************************)
EXTENDS Naturals, FiniteSets

CONSTANTS
  Tasks,            \* names an UpdateTask may be created under
  Machines,         \* machines of one control plane (or MachineDeployment),
                    \* numbered in the order of their creation
  InitialMachines,  \* the machines that exist at the start
  NodeTasks,        \* node update task objects, numbered in order of creation
  NoTask,           \* the absence of a task
  MaxChurn,         \* bound: how often a user aborts or deletes a task, a machine
                    \* is added, removed or gets sick, or a node update is collected
                    \* before the manager has heard that its task is gone
  MaxFaults         \* bound: how many API calls fail and the manager restarts

ASSUME ClusterAssumption ==
  /\ Machines \subseteq Nat \ {0}
  /\ InitialMachines \subseteq Machines
  /\ NodeTasks \subseteq Nat
  /\ NoTask \notin Tasks
  /\ MaxChurn \in Nat
  /\ MaxFaults \in Nat

VARIABLES
  task,          \* [Tasks -> UpdateTask], as stored in the API server
  machine,       \* [Machines -> Machine], as stored in the API server
  nodeTask,      \* [NodeTasks -> NodeUpdateTask]; always read live
  taskCache,     \* what the manager's UpdateTask informer last delivered
  machineCache,  \* what the manager's Machine informer last delivered
  misled,        \* history: the <<task, machine>> pairs that a trailing cache
                 \* has let the manager misjudge; no action reads it.  See
                 \* CollectNodeTask and UpdateTaskController!ReportState
  churn,         \* disturbances so far, at most MaxChurn
  faults         \* failed calls and restarts so far, at most MaxFaults

serverVars == <<task, machine, nodeTask>>
cacheVars == <<taskCache, machineCache, misled>>
clusterVars == <<serverVars, cacheVars, churn, faults>>

-----------------------------------------------------------------------------
(* Objects. *)

Lives == {"Absent", "Live", "Deleting", "Gone"}
Phases == {"Update", "Abort"}
States == {"Unknown", "InProgress", "Failed", "Updated", "Aborted"}
IsTerminated(s) == s \in {"Failed", "Updated", "Aborted"}

\* The MachineUpToDate condition: missing, true, or false with a reason.
UpToDateValues == {"None", "True", "Aborted", "Failed", "InProgress", "WaitForUpdate"}

UpdateTaskFinalizer == "updatetask.update.extension.cluster.x-k8s.io"

UpdateTask == [life : Lives, finalizers : SUBSET {UpdateTaskFinalizer},
               phase : Phases, state : States]

\* running is the task named by the machine's UpdateTaskAnnotationName.
Machine == [life : Lives, running : Tasks \cup {NoTask},
            upToDate : UpToDateValues, health : {"Healthy", "Unhealthy"}]

NoMachine == 0
NodeUpdateTask == [owner : Tasks \cup {NoTask}, machine : Machines \cup {NoMachine},
                   phase : Phases, state : States]

AbsentTask == [life |-> "Absent", finalizers |-> {}, phase |-> "Update", state |-> "Unknown"]
NoNodeTask == [owner |-> NoTask, machine |-> NoMachine, phase |-> "Update", state |-> "Unknown"]

\* Deleting objects still exist until their last finalizer is removed.
Exists(object) == object.life \in {"Live", "Deleting"}

\* isMachineInUpdateScope.
InScope(m, t) == m.running = t

\* A deletion timestamp or a target phase of Abort: the task is being stopped.
Stopping(t) == t.life = "Deleting" \/ t.phase = "Abort"

ClusterTypeOk ==
  /\ task \in [Tasks -> UpdateTask]
  /\ machine \in [Machines -> Machine]
  /\ nodeTask \in [NodeTasks -> NodeUpdateTask]
  /\ taskCache \in [Tasks -> UpdateTask]
  /\ machineCache \in [Machines -> Machine]
  /\ misled \in SUBSET (Tasks \X Machines)
  /\ churn \in 0..MaxChurn
  /\ faults \in 0..MaxFaults

ClusterInit ==
  /\ task = [t \in Tasks |-> AbsentTask]
  /\ machine = [m \in Machines |->
       [life |-> IF m \in InitialMachines THEN "Live" ELSE "Absent",
        running |-> NoTask, upToDate |-> "None", health |-> "Healthy"]]
  /\ nodeTask = [n \in NodeTasks |-> NoNodeTask]
  /\ taskCache = task
  /\ machineCache = machine
  /\ misled = {}
  /\ churn = 0
  /\ faults = 0

Disturb == churn < MaxChurn /\ churn' = churn + 1
Fault == faults < MaxFaults /\ faults' = faults + 1

-----------------------------------------------------------------------------
(* The update hook.  Its writes appear here one at a time and in any       *)
(* number, so every interleaving of its loop with the controller is        *)
(* covered.  It annotates with the name of a task it has not created yet.  *)

AnnotateMachine(m, t) ==
  /\ task[t].life = "Absent"
  /\ Exists(machine[m])
  /\ machine' = [machine EXCEPT ![m].running = t]
  /\ UNCHANGED <<task, nodeTask, cacheVars, churn, faults>>

\* Just before each annotation the hook deletes the machine's condition.
ForgetUpToDate(m) ==
  /\ \E t \in Tasks : task[t].life = "Absent"
  /\ Exists(machine[m])
  /\ machine[m].upToDate # "None"
  /\ machine' = [machine EXCEPT ![m].upToDate = "None"]
  /\ UNCHANGED <<task, nodeTask, cacheVars, churn, faults>>

CreateTask(t) ==
  /\ task[t].life = "Absent"
  /\ task' = [task EXCEPT ![t].life = "Live"]
  /\ UNCHANGED <<machine, nodeTask, cacheVars, churn, faults>>

\* By the hook that is about to create the next task.
AbortOlderTask(t) ==
  /\ \E k \in Tasks \ {t} : task[k].life = "Absent"
  /\ Exists(task[t])
  /\ task' = [task EXCEPT ![t].phase = "Abort"]
  /\ UNCHANGED <<machine, nodeTask, cacheVars, churn, faults>>

-----------------------------------------------------------------------------
(* The user.                                                               *)

AbortTask(t) ==
  /\ Disturb
  /\ Exists(task[t])
  /\ task[t].phase = "Update"
  /\ task' = [task EXCEPT ![t].phase = "Abort"]
  /\ UNCHANGED <<machine, nodeTask, cacheVars, faults>>

\* The API server keeps a deleted object while it has finalizers.
DeleteTask(t) ==
  /\ Disturb
  /\ task[t].life = "Live"
  /\ task' = [task EXCEPT ![t].life = IF task[t].finalizers = {} THEN "Gone" ELSE "Deleting"]
  /\ UNCHANGED <<machine, nodeTask, cacheVars, faults>>

-----------------------------------------------------------------------------
(* Cluster API: machines come, go and change their health.                 *)

JoinMachine(m) ==
  /\ Disturb
  /\ machine[m].life = "Absent"
  /\ machine' = [machine EXCEPT ![m].life = "Live"]
  /\ UNCHANGED <<task, nodeTask, cacheVars, faults>>

DeleteMachine(m) ==
  /\ Disturb
  /\ machine[m].life = "Live"
  /\ machine' = [machine EXCEPT ![m].life = "Deleting"]
  /\ UNCHANGED <<task, nodeTask, cacheVars, faults>>

RemoveMachine(m) ==
  /\ machine[m].life = "Deleting"
  /\ machine' = [machine EXCEPT ![m].life = "Gone"]
  /\ UNCHANGED <<task, nodeTask, cacheVars, churn, faults>>

LoseHealth(m) ==
  /\ Disturb
  /\ Exists(machine[m]) /\ machine[m].health = "Healthy"
  /\ machine' = [machine EXCEPT ![m].health = "Unhealthy"]
  /\ UNCHANGED <<task, nodeTask, cacheVars, faults>>

RegainHealth(m) ==
  /\ Exists(machine[m]) /\ machine[m].health = "Unhealthy"
  /\ machine' = [machine EXCEPT ![m].health = "Healthy"]
  /\ UNCHANGED <<task, nodeTask, cacheVars, churn, faults>>

-----------------------------------------------------------------------------
(* The provider of node updates, as the controller's contract has it: a    *)
(* node update reports progress, ends in a terminal state and stays there, *)
(* and is given up only when asked to.                                     *)

ReportProgress(n, s) ==
  /\ nodeTask[n].owner # NoTask
  /\ ~IsTerminated(nodeTask[n].state)
  /\ s # nodeTask[n].state /\ s # "Unknown"
  /\ s = "Aborted" => nodeTask[n].phase = "Abort"
  /\ nodeTask' = [nodeTask EXCEPT ![n].state = s]
  /\ UNCHANGED <<task, machine, cacheVars, churn, faults>>

\* Node update tasks are owned by their UpdateTask and collected after it, whether
\* or not the manager has heard that it is gone: until then their machines look
\* as if they had not been updated.
CollectNodeTask(n) ==
  /\ \E t \in Tasks :
       /\ nodeTask[n].owner = t /\ task[t].life = "Gone"
       /\ \/ taskCache[t].life = "Gone" /\ UNCHANGED <<misled, churn>>
          \/ /\ taskCache[t].life # "Gone"
             /\ Disturb
             /\ misled' = misled \cup {<<t, nodeTask[n].machine>>}
  /\ nodeTask' = [nodeTask EXCEPT ![n] = NoNodeTask]
  /\ UNCHANGED <<task, machine, taskCache, machineCache, faults>>

UpdateHook ==
  \/ \E m \in Machines, t \in Tasks : AnnotateMachine(m, t)
  \/ \E m \in Machines : ForgetUpToDate(m)
  \/ \E t \in Tasks : CreateTask(t)
  \/ \E t \in Tasks : AbortOlderTask(t)

Surroundings ==
  \/ \E t \in Tasks : AbortTask(t)
  \/ \E t \in Tasks : DeleteTask(t)
  \/ \E m \in Machines : JoinMachine(m)
  \/ \E m \in Machines : DeleteMachine(m)
  \/ \E m \in Machines : RemoveMachine(m)
  \/ \E m \in Machines : LoseHealth(m)
  \/ \E m \in Machines : RegainHealth(m)
  \/ \E n \in NodeTasks : CollectNodeTask(n)

OtherActors == Surroundings \/ \E n \in NodeTasks, s \in States : ReportProgress(n, s)

Environment == UpdateHook \/ OtherActors

=============================================================================
