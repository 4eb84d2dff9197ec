---------------------------- MODULE InplaceUpdater ----------------------------
(***************************************************************************)
(* The update hook and the UpdateTask controller at work on one cluster.    *)
(* Tasks now come into being, and machines get their annotations, only      *)
(* through calls of the hook.                                               *)
(***************************************************************************)
EXTENDS UpdateTaskProperties, ExternalUpdateHandler

inplaceVars == <<vars, hookVars>>

InplaceTypeOk == TypeOk /\ HandlerTypeOk

InplaceInit == Init /\ HandlerInit

InplaceNext ==
  \/ Manager /\ UNCHANGED hookVars
  \/ OtherActors /\ UNCHANGED <<queue, passVars, hookVars>>
  \/ ExternalUpdate /\ UNCHANGED <<queue, passVars>>

InplaceSpec == InplaceInit /\ [][InplaceNext]_inplaceVars

-----------------------------------------------------------------------------

\* The hook does to machines and tasks only what the controller expects of its
\* environment: in particular it never annotates a machine with the name of a
\* task that already exists, although other calls run in between.  So all that
\* holds of the controller holds here.
KeepsToEnvironment == Spec

CreatedBy(t) == task[t].life = "Absent" /\ task'[t].life = "Live"

\* A task is created only after every listed machine that still exists got its
\* name, which only another call can have replaced: no failed patch is skipped.
CreatedWithWholeScope ==
  [][\A t \in Tasks : CreatedBy(t) =>
       \A m \in hook[t].scope : Exists(machine[m]) =>
         \/ machine[m].running = t
         \/ \E k \in Tasks \ {t} : machine[m].running = k /\ hook[k].at # "Start"]_inplaceVars

\* A task is created only after every older task the call found in progress has
\* been told to stop, whatever failed before.
CreatedAfterAborts ==
  [][\A t \in Tasks : CreatedBy(t) =>
       \A k \in hook[t].older : Exists(task[k]) => Stopping(task[k])]_inplaceVars

-----------------------------------------------------------------------------

\* A successful call leaves a task behind: the end-to-end test takes "Success"
\* for an accepted update and goes on to find its one task (line 227).
SuccessMeansTask ==
  \A t \in Tasks : hook[t].response = "Success" => task[t].life # "Absent"

=============================================================================
