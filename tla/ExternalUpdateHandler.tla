------------------------ MODULE ExternalUpdateHandler ------------------------
(***************************************************************************)
(* The update hook, doControlPlaneExternalUpdateImpl.  A call aborts the    *)
(* tasks in progress, writes the name of its new task on every machine, one *)
(* after the other, and creates the task last.  It may fail between any two *)
(* writes, and calls may overlap.  The name of the new task is random, so a *)
(* call is known by it.                                                     *)
(***************************************************************************)
EXTENDS ClusterState

CONSTANT MaxBroken  \* bound: how many of its API calls fail and processes stop

ASSUME HandlerAssumption == MaxBroken \in Nat

VARIABLES
  hook,    \* [Tasks -> Call], the call that has the name for its new task
  broken   \* failures so far, at most MaxBroken

hookVars == <<hook, broken>>

Call == [at : {"Start", "Abort", "Machines", "Annotation", "Ended"},
         older : SUBSET Tasks,        \* the listed tasks that are in progress
         toAbort : SUBSET Tasks,      \* those of them still to be aborted
         scope : SUBSET Machines,     \* machineList
         todo : SUBSET Machines,      \* machines the loop has not finished
         upToDate : [Machines -> UpToDateValues],  \* their conditions as listed
         failed : BOOLEAN,            \* has a call of this machine's patch failed?
         response : {"None", "Success", "Failure"}]

Fresh(at, response) ==
  [at |-> at, older |-> {}, toAbort |-> {}, scope |-> {}, todo |-> {},
   upToDate |-> [m \in Machines |-> "None"], failed |-> FALSE, response |-> response]

HandlerTypeOk == hook \in [Tasks -> Call] /\ broken \in 0..MaxBroken
HandlerInit == hook = [t \in Tasks |-> Fresh("Start", "None")] /\ broken = 0

Break == broken < MaxBroken /\ broken' = broken + 1

Pending(t) == hook[t].at \notin {"Start", "Ended"}

Respond(t, r) == hook' = [hook EXCEPT ![t] = Fresh("Ended", r)]

-----------------------------------------------------------------------------

\* The checks of the request and the list of tasks, which is the server's or a
\* cache's, as the client has it.  Only tasks in progress are aborted.
ListTasks(t) ==
  /\ hook[t].at = "Start"
  /\ \E ts \in {task, taskCache} :
       LET older == {k \in Tasks : Exists(ts[k]) /\ ts[k].state = "InProgress"}
       IN hook' = [hook EXCEPT ![t].at = "Abort", ![t].older = older, ![t].toAbort = older]
  /\ UNCHANGED <<clusterVars, broken>>

\* The abort is a merge patch; the end of the older task is not awaited.
AbortOlder(t, k) ==
  /\ hook[t].at = "Abort"
  /\ k \in hook[t].toAbort
  /\ \/ /\ Exists(task[k])
        /\ task' = [task EXCEPT ![k].phase = "Abort"]
        /\ hook' = [hook EXCEPT ![t].toAbort = @ \ {k}]
     \/ ~Exists(task[k]) /\ Respond(t, "Failure") /\ UNCHANGED task
  /\ UNCHANGED <<machine, nodeTask, cacheVars, churn, faults, broken>>

\* Deviation: the machines are listed before all older tasks are aborted.
ListMachinesEarly(t) ==
  /\ hook[t].at = "Abort"
  /\ \E ms \in {machine, machineCache} :
       LET scope == {m \in Machines : Exists(ms[m])}
       IN hook' = [hook EXCEPT ![t].at = "Machines", ![t].scope = scope, ![t].todo = scope,
            ![t].upToDate = [m \in Machines |-> IF m \in scope THEN ms[m].upToDate ELSE "None"]]
  /\ UNCHANGED <<clusterVars, broken>>

\* Deviation: the task is created before its machines are annotated.
ListMachinesCreatingFirst(t) ==
  /\ hook[t].at = "Abort"
  /\ hook[t].toAbort = {}
  /\ \E ms \in {machine, machineCache} :
       LET scope == {m \in Machines : Exists(ms[m])}
       IN hook' = [hook EXCEPT ![t].at = "Machines", ![t].scope = scope, ![t].todo = scope,
            ![t].upToDate = [m \in Machines |-> IF m \in scope THEN ms[m].upToDate ELSE "None"]]
  /\ task' = [task EXCEPT ![t].life = "Live"]
  /\ UNCHANGED <<machine, nodeTask, cacheVars, churn, faults, broken>>

ListMachines(t) ==
  /\ hook[t].at = "Abort"
  /\ hook[t].toAbort = {}
  /\ \E ms \in {machine, machineCache} :
       LET scope == {m \in Machines : Exists(ms[m])}
       IN hook' = [hook EXCEPT ![t].at = "Machines", ![t].scope = scope, ![t].todo = scope,
            ![t].upToDate = [m \in Machines |-> IF m \in scope THEN ms[m].upToDate ELSE "None"]]
  /\ UNCHANGED <<clusterVars, broken>>

\* The loop goes through the list in its order.
Current(t, m) == m \in hook[t].todo /\ \A k \in hook[t].todo : m <= k

\* One round of the loop: the patch helper first removes the condition, if the
\* list had one, which is refused if it is no longer the same.
RemoveCondition(t, m) ==
  /\ hook[t].at = "Machines"
  /\ Current(t, m)
  /\ LET listed == hook[t].upToDate[m]
         stored == machine[m].upToDate
     IN \/ /\ \/ listed = "None" /\ UNCHANGED machine
              \/ /\ listed # "None" /\ Exists(machine[m]) /\ stored \in {listed, "None"}
                 /\ machine' = [machine EXCEPT ![m].upToDate = "None"]
           /\ hook' = [hook EXCEPT ![t].at = "Annotation"]
           /\ UNCHANGED broken
        \/ /\ listed # "None"
           /\ \/ (~Exists(machine[m]) \/ stored \notin {listed, "None"}) /\ UNCHANGED broken
              \/ Break
           /\ hook' = [hook EXCEPT ![t].at = "Annotation", ![t].failed = TRUE]
           /\ UNCHANGED machine
  /\ UNCHANGED <<task, nodeTask, cacheVars, churn, faults>>

\* Deviation: a failed patch does not end the loop.
AfterPatchContinuing(t, m, failed) ==
  hook' = [hook EXCEPT ![t].at = "Machines", ![t].todo = @ \ {m}, ![t].failed = FALSE]

\* The error of the patch is compared with err, which is nil, and then err is
\* wrapped: a failed patch ends the call with a nil error, which is success.
AfterPatch(t, m, failed) ==
  IF failed
  THEN Respond(t, "Success")
  ELSE hook' = [hook EXCEPT ![t].at = "Machines", ![t].todo = @ \ {m}]

\* Then the annotation, whether or not the condition could be removed.
Annotate(t, m) ==
  /\ hook[t].at = "Annotation"
  /\ Current(t, m)
  /\ \/ /\ Exists(machine[m])
        /\ machine' = [machine EXCEPT ![m].running = t]
        /\ AfterPatch(t, m, hook[t].failed)
        /\ UNCHANGED broken
     \/ /\ (~Exists(machine[m]) /\ UNCHANGED broken) \/ Break
        /\ AfterPatch(t, m, TRUE)
        /\ UNCHANGED machine
  /\ UNCHANGED <<task, nodeTask, cacheVars, churn, faults>>

\* The policy is found and the task is stored; the answer may be lost.
CreateUpdateTask(t) ==
  /\ hook[t].at = "Machines"
  /\ hook[t].todo = {}
  /\ task' = [task EXCEPT ![t].life = "Live"]
  /\ \/ Respond(t, "Success") /\ UNCHANGED broken
     \/ Respond(t, "Failure") /\ Break
  /\ UNCHANGED <<machine, nodeTask, cacheVars, churn, faults>>

\* Any other call fails, there is no policy, or the process stops.
CallFails(t) ==
  /\ Pending(t)
  /\ Break
  /\ Respond(t, "Failure")
  /\ UNCHANGED clusterVars

ExternalUpdate ==
  \E t \in Tasks :
    \/ ListTasks(t)
    \/ \E k \in Tasks : AbortOlder(t, k)
    \/ ListMachines(t)
    \/ \E m \in Machines : RemoveCondition(t, m) \/ Annotate(t, m)
    \/ CreateUpdateTask(t)
    \/ CallFails(t)

=============================================================================
