------------------------ MODULE UpdateTaskProperties ------------------------
(***************************************************************************)
(* What the UpdateTask controller promises while caches lag, calls fail,   *)
(* the manager restarts and the cluster changes under it.                  *)
(***************************************************************************)
EXTENDS UpdateTaskController

Running(n) == nodeTask[n].owner # NoTask /\ ~IsTerminated(nodeTask[n].state)

\* A node update is harmless once it has ended or its machine no longer exists.
Quiet(t) == \A n \in NodeTasks :
  nodeTask[n].owner = t /\ Running(n) => ~Exists(machine[nodeTask[n].machine])

-----------------------------------------------------------------------------
(* Safety.                                                                 *)

\* An UpdateTask never has two node updates for one machine, although nothing
\* but the listing at the start of a pass keeps reconcileNormal from creating
\* a second one, and node update tasks have random names.
OneNodeTaskPerMachine ==
  \A n, k \in NodeTasks :
    /\ nodeTask[n].owner # NoTask
    /\ nodeTask[n].owner = nodeTask[k].owner
    /\ nodeTask[n].machine = nodeTask[k].machine
    => n = k

\* The roll-out is serial: an UpdateTask has at most one node update running,
\* whatever passes, restarts and failed calls lie between their creations.
SerialUpdate ==
  \A n, k \in NodeTasks :
    Running(n) /\ Running(k) /\ nodeTask[n].owner = nodeTask[k].owner => n = k

\* A new node update starts only when every earlier one of its task is Updated:
\* a failure or an abort stops the roll-out (reconcileNormal, line 193).
RolloutStopsAtFailure ==
  [][\A n \in NodeTasks :
       nodeTask[n].owner = NoTask /\ nodeTask'[n].owner # NoTask =>
         \A k \in NodeTasks :
           nodeTask[k].owner = nodeTask'[n].owner => nodeTask[k].state = "Updated"]_vars

\* A task that reports Aborted has no node update left running, and starts
\* none: reconcileStatus decides this on cached machines before reconcileAbort
\* has sent a single abort.
AbortedIsQuiet ==
  \A t \in Tasks : task[t].state = "Aborted" => Quiet(t)

\* A task that reports Updated has an Updated node update for every machine that
\* carries its annotation, however far the caches trail, except where a pass said
\* Updated before the annotation had reached its listing.
UpdatedIsHonest ==
  \A t \in Tasks, m \in Machines :
    /\ Exists(task[t]) /\ task[t].state = "Updated"
    /\ Exists(machine[m]) /\ machine[m].running = t
    => \/ \E n \in NodeTasks :
            nodeTask[n].owner = t /\ nodeTask[n].machine = m /\ nodeTask[n].state = "Updated"
       \/ <<t, m>> \in misled

\* The finalizer keeps a deleted task until its node updates are quiet, and none is
\* started for a task that is gone, although old copies of it are still reconciled:
\* except on a machine that a pass left out when it said Updated, or whose node
\* update was collected before the manager had heard that the task is gone.
FinalizerGuards ==
  \A n \in NodeTasks, t \in Tasks :
    nodeTask[n].owner = t /\ Running(n) /\ task[t].life = "Gone" =>
      ~Exists(machine[nodeTask[n].machine]) \/ <<t, nodeTask[n].machine>> \in misled

\* The outcome of a task stands, although the task is reconciled again on other
\* copies: a terminated task is not in progress a second time, and the hook that
\* lists tasks in progress does not find it.  Updated may be taken back only where it
\* was said with a machine left out, or when the task is stopped after all.
OutcomeStands ==
  [][\A t \in Tasks : IsTerminated(task[t].state) =>
       \/ task'[t].state = task[t].state
       \/ task'[t].state = "Aborted" /\ Stopping(task[t])
       \/ task[t].state = "Updated" /\ \E m \in Machines : <<t, m>> \in misled]_vars

\* Aborted stands whatever the caches lag behind: no pass that read the task or its
\* machines before says anything else later.
AbortedStands ==
  [][\A t \in Tasks : task[t].state = "Aborted" => task'[t].state = "Aborted"]_vars

\* Node updates and machines are not watched, so only its own requeues carry a
\* task forward: one that the manager knows to be unfinished is always queued
\* or being reconciled.
NoLostTask ==
  \A t \in Tasks :
    Exists(task[t]) /\ taskCache[t] = task[t] /\ ~IsTerminated(task[t].state)
      => t \in queue \/ cur = t

-----------------------------------------------------------------------------
(* Liveness.                                                               *)

\* client-go's queue is first in, first out, so no queued task is overtaken
\* for ever; the worker and the informers do not stop; a provider ends a node
\* update; Cluster API removes a deleted machine and repairs a sick one.
ManagerFairness ==
  /\ \A t \in Tasks : SF_vars(StartPass(t))
  /\ WF_vars(ContinuePass)
  /\ WF_vars(SyncMachines)
  /\ WF_vars(SyncTasks)

Fairness ==
  /\ ManagerFairness
  /\ \A n \in NodeTasks : WF_vars(\E s \in {"Failed", "Updated", "Aborted"} :
       ReportProgress(n, s) /\ UNCHANGED <<queue, passVars>>)
  /\ \A m \in Machines : WF_vars(RemoveMachine(m) /\ UNCHANGED <<queue, passVars>>)
  /\ \A m \in Machines : WF_vars(RegainHealth(m) /\ UNCHANGED <<queue, passVars>>)

FairSpec == Spec /\ Fairness

\* A task that is aborted or deleted comes to an end, although reconcileStatus
\* computes its state before the aborts are sent.
StopCompletes ==
  \A t \in Tasks :
    (Exists(task[t]) /\ Stopping(task[t])) ~>
      (IsTerminated(task[t].state) \/ task[t].life = "Gone")

\* The abort of a stopped task reaches every node update it still has, although
\* calls fail and without any help of the provider.  The node update of a machine
\* that is gone may miss it: the same pass concludes the task, and reconcileAbort
\* does not get a second chance.  So may one that was started on stale caches after
\* the task had ended: the provider or the collector has to end it.
StopIsDelivered ==
  \A t \in Tasks, n \in NodeTasks :
    (nodeTask[n].owner = t /\ Running(n) /\ Stopping(task[t])) ~>
      \/ ~Running(n) \/ nodeTask[n].phase = "Abort"
      \/ /\ IsTerminated(task[t].state) \/ task[t].life = "Gone"
         /\ ~Exists(machine[nodeTask[n].machine]) \/ <<t, nodeTask[n].machine>> \in misled

\* A deleted task does not hang on its finalizer.
DeletionCompletes ==
  \A t \in Tasks : (task[t].life = "Deleting") ~> (task[t].life = "Gone")

\* A task that is left alone ends Updated unless a node update fails.
UpdateCompletes ==
  \A t \in Tasks :
    (task[t].life = "Live") ~>
      \/ IsTerminated(task[t].state)
      \/ Stopping(task[t]) \/ task[t].life = "Gone"
      \/ \E n \in NodeTasks : nodeTask[n].owner = t /\ nodeTask[n].state = "Failed"

-----------------------------------------------------------------------------
(* What the repository says and the code does not do.                      *)

\* "If MachineHealthCheck is configured, then UpdateTask will continue once
\* failed machine get remediated" (the message of reconcileNormal, line 194).
FailuresRemediated(t) ==
  /\ \E n \in NodeTasks : nodeTask[n].owner = t /\ nodeTask[n].state = "Failed"
  /\ \A n \in NodeTasks : nodeTask[n].owner = t /\ nodeTask[n].state = "Failed"
       => machine[nodeTask[n].machine].life = "Gone"

ContinuesOnceRemediated ==
  \A t \in Tasks :
    (task[t].life = "Live" /\ FailuresRemediated(t)) ~>
      (IsTerminated(task[t].state) \/ Stopping(task[t]) \/ task[t].life = "Gone")

\* "Check if updateTask completed by: updateTask.status.state = Updated, all
\* machines in scope has condition MachineUpToDate to True" (e2e test, line 228).
UpdatedMeansUpToDate ==
  \A t \in Tasks, m \in Machines :
    (task[t].life = "Live" /\ task[t].state = "Updated" /\ machine[m].running = t) ~>
      \/ machine[m].upToDate = "True"
      \/ ~Exists(machine[m])
      \/ machine[m].running # t \/ task[t].life # "Live"

=============================================================================
