------------------------ MODULE DockerNodeUpdateTask ------------------------
(***************************************************************************)
(* The DockerNodeUpdateTask controller, the one provider of node updates   *)
(* in the repository: a worker that takes a node update task from its work *)
(* queue, runs a command in the machine's container, sleeps, and stores    *)
(* Updated.  It reads the node update task and the machine from informer   *)
(* caches.  A pass that returns an error is tried again and changes        *)
(* nothing, so it is a stuttering step.                                    *)
(***************************************************************************)
EXTENDS ClusterState

CONSTANT MaxLost  \* bound: how many patches fail for one task on one machine

ASSUME DockerAssumption == MaxLost \in Nat

VARIABLES
  dockerCache,  \* what the DockerNodeUpdateTask informer last delivered
  dockerQueue,  \* the work queue, a set of node update tasks
  docker,       \* the worker's pass
  result,       \* history: what ExecContainer returned last, by task and machine
  lost          \* history: for which task and on which machine that was not
                \* stored, and how often

dockerVars == <<dockerCache, dockerQueue, docker, result, lost>>

\* An error does not say that a command has run: ExecContainer returns one when the
\* command has failed, and also when it could not be started in the first place.
Results == {"Ok", "Error"}

\* task is the pass's copy of node update task n.
DockerPass == [at : {"Idle", "Exec", "Sleep"}, n : NodeTasks \cup {NoMachine}, task : NodeUpdateTask]

NoPass == [at |-> "Idle", n |-> NoMachine, task |-> NoNodeTask]

DockerTypeOk ==
  /\ dockerCache \in [NodeTasks -> NodeUpdateTask]
  /\ dockerQueue \in SUBSET NodeTasks
  /\ docker \in DockerPass
  /\ result \in [Tasks \X Machines -> Results \cup {"None"}]
  /\ lost \in [Tasks \X Machines -> Nat]

DockerInit ==
  /\ dockerCache = nodeTask
  /\ dockerQueue = {}
  /\ docker = NoPass
  /\ result = [p \in Tasks \X Machines |-> "None"]
  /\ lost = [p \in Tasks \X Machines |-> 0]

Cached(n) == dockerCache[n].owner # NoTask

\* Get machine fails when the cache has no such machine.
MachineFound(n) == Exists(machineCache[dockerCache[n].machine])

\* Only a node update that is neither aborted nor at its end has a command to run.
Due(n) == dockerCache[n].phase = "Update" /\ ~IsTerminated(dockerCache[n].state)

TakeNodeTask(n) ==
  /\ docker.at = "Idle"
  /\ n \in dockerQueue
  /\ dockerQueue' = dockerQueue \ {n}

NothingToRun(n) ==
  /\ TakeNodeTask(n)
  /\ Cached(n) => MachineFound(n) /\ ~Due(n)
  /\ UNCHANGED <<clusterVars, dockerCache, docker, result, lost>>

\* The cache may not yet show what the worker itself stored last, nor an abort,
\* nor that the node update was collected.
StartCommand(n) ==
  /\ TakeNodeTask(n)
  /\ Cached(n) /\ MachineFound(n) /\ Due(n)
  /\ docker' = [at |-> "Exec", n |-> n, task |-> dockerCache[n]]
  /\ UNCHANGED <<clusterVars, dockerCache, lost, result>>

Subject == <<docker.task.owner, docker.task.machine>>

\* Deviation: a failure is stored at once.
EndCommandReporting ==
  /\ docker.at = "Exec"
  /\ \E r \in Results :
       /\ result' = [result EXCEPT ![Subject] = r]
       /\ nodeTask' = IF r # "Ok" /\ nodeTask[docker.n].owner = docker.task.owner
                      THEN [nodeTask EXCEPT ![docker.n].state = "Failed"] ELSE nodeTask
  /\ docker' = [docker EXCEPT !.at = "Sleep"]
  /\ UNCHANGED <<task, machine, cacheVars, churn, faults, dockerCache, dockerQueue, lost>>

\* The call returns; an error, whatever it means, is noted in the pass's copy.
EndCommand ==
  /\ docker.at = "Exec"
  /\ \E r \in Results :
       /\ result' = [result EXCEPT ![Subject] = r]
       /\ docker' = [docker EXCEPT !.at = "Sleep",
                                   !.task.state = IF r # "Ok" THEN "Failed" ELSE @]
  /\ UNCHANGED <<clusterVars, dockerCache, dockerQueue, lost>>

\* Deviation: Updated is stored before the command has ended.
StoreUpdatedEarly ==
  /\ docker.at # "Idle"
  /\ nodeTask[docker.n].owner = docker.task.owner
  /\ nodeTask' = [nodeTask EXCEPT ![docker.n].state = "Updated"]
  /\ docker' = IF docker.at = "Sleep" THEN NoPass ELSE docker
  /\ UNCHANGED <<task, machine, cacheVars, churn, faults, dockerCache, dockerQueue, result, lost>>

LoseResult == lost' = [lost EXCEPT ![Subject] = @ + 1]

\* After the sleep the copy says Updated, whatever it said before, and the
\* deferred patch stores that if the object still exists.  Its error is only
\* logged: the pass is a success either way.
StoreUpdated ==
  /\ docker.at = "Sleep"
  /\ \/ /\ nodeTask[docker.n].owner = docker.task.owner
        /\ nodeTask' = [nodeTask EXCEPT ![docker.n].state = "Updated"]
        /\ UNCHANGED lost
     \/ nodeTask[docker.n].owner # docker.task.owner /\ UNCHANGED <<nodeTask, lost>>
     \/ lost[Subject] < MaxLost /\ LoseResult /\ UNCHANGED nodeTask
  /\ docker' = NoPass
  /\ UNCHANGED <<task, machine, cacheVars, churn, faults, dockerCache, dockerQueue, result>>

\* The informer catches up and queues what changed.
SyncNodeTasks ==
  /\ dockerCache # nodeTask
  /\ dockerCache' = nodeTask
  /\ dockerQueue' = dockerQueue \cup {n \in NodeTasks : dockerCache[n] # nodeTask[n]}
  /\ UNCHANGED <<clusterVars, docker, result, lost>>

\* Deviation: there is no resync.
ResyncNothing == FALSE /\ UNCHANGED <<clusterVars, dockerVars>>

\* Every sync period all cached node update tasks are queued.
ResyncNodeTasks ==
  /\ dockerQueue' = dockerQueue \cup {n \in NodeTasks : Cached(n)}
  /\ UNCHANGED <<clusterVars, dockerCache, docker, result, lost>>

\* The part of a restart of the manager that concerns this controller.
RestartDocker ==
  /\ dockerCache' = nodeTask
  /\ dockerQueue' = {n \in NodeTasks : nodeTask[n].owner # NoTask}
  /\ docker' = NoPass
  /\ IF docker.at = "Sleep" THEN LoseResult ELSE UNCHANGED lost
  /\ UNCHANGED result

RunCommand == EndCommand \/ StoreUpdated

DockerWork ==
  \/ \E n \in NodeTasks : NothingToRun(n) \/ StartCommand(n)
  \/ RunCommand
  \/ SyncNodeTasks
  \/ ResyncNodeTasks

=============================================================================
