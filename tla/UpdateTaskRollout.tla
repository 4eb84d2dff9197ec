------------------------- MODULE UpdateTaskRollout -------------------------
(***************************************************************************)
(* The UpdateTask controller implements RollingUpdate for each of its      *)
(* tasks: the refinement mapping reads it off the objects in the server.   *)
(***************************************************************************)
EXTENDS UpdateTaskProperties

LifeOf(t) ==
  CASE task[t].life = "Absent" -> "Absent"
    [] task[t].life = "Gone" -> "Over"
    [] OTHER -> IF Stopping(task[t]) THEN "Stopped" ELSE "Live"

ScopeOf(t) == {m \in Machines : InScope(machine[m], t)}

There == [m \in Machines |->
  CASE machine[m].life = "Absent" -> "Coming"
    [] machine[m].life = "Gone" -> "Gone"
    [] OTHER -> "There"]

UpdatesOf(t, m) == {n \in NodeTasks : nodeTask[n].owner = t /\ nodeTask[n].machine = m}

Progress(s) == IF IsTerminated(s) THEN s ELSE "Running"

UpdateOf(t) == [m \in Machines |->
  IF UpdatesOf(t, m) = {} THEN "None"
  ELSE Progress(nodeTask[CHOOSE n \in UpdatesOf(t, m) : TRUE].state)]

MissedBy(t) == {m \in Machines : <<t, m>> \in misled}

Rollout(t) == INSTANCE RollingUpdate WITH
  life <- LifeOf(t),
  state <- task[t].state,
  scope <- ScopeOf(t),
  there <- There,
  update <- UpdateOf(t),
  missed <- MissedBy(t)

-----------------------------------------------------------------------------

\* Every task is a serial roll-out: whatever passes, restarts, lagging caches and
\* failed calls lie behind a step, what it changes in the server is a step that
\* RollingUpdate allows.  (This is \A t \in Tasks : Rollout(t)!Spec.)
ImplementsRollout ==
  /\ \A t \in Tasks : Rollout(t)!Init
  /\ [][\A t \in Tasks : [Rollout(t)!Next]_(Rollout(t)!vars)]_vars

=============================================================================
