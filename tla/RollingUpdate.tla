--------------------------- MODULE RollingUpdate ---------------------------
(***************************************************************************)
(* What one UpdateTask promises, without its passes, caches and objects: a *)
(* serial roll-out over machines that come and go.  It updates one machine *)
(* at a time, starts nothing after a failure or an abort, says Aborted only *)
(* when that is so, Updated only when that is so of all machines it has not *)
(* missed, and stands by it.                                               *)
(***************************************************************************)
CONSTANT Machines

VARIABLES
  life,    \* of the task: Absent, Live, Stopped (aborted or deleted), Over
  state,   \* what the task reports
  scope,   \* the machines annotated with the task
  there,   \* the machines: Coming, There or Gone
  update,  \* how far the update of each machine is
  missed   \* the machines it has left out by mistake

vars == <<life, state, scope, there, update, missed>>

Results == {"Updated", "Failed", "Aborted"}

RollingTypeOk ==
  /\ life \in {"Absent", "Live", "Stopped", "Over"}
  /\ state \in {"Unknown", "InProgress", "Updated", "Aborted"}
  /\ scope \subseteq Machines
  /\ there \in [Machines -> {"Coming", "There", "Gone"}]
  /\ update \in [Machines -> {"None", "Running"} \cup Results]
  /\ missed \subseteq Machines

Init ==
  /\ life = "Absent"
  /\ state = "Unknown"
  /\ there \in [Machines -> {"Coming", "There"}]
  /\ scope \in SUBSET {m \in Machines : there[m] = "There"}
  /\ update = [m \in Machines |-> "None"]
  /\ missed = {}

-----------------------------------------------------------------------------
(* The surroundings.                                                       *)

\* The task gets machines that are there, and none once it exists; another task
\* may take some.
Annotate ==
  /\ scope' \in SUBSET Machines
  /\ \A m \in scope' \ scope : life = "Absent" /\ there[m] = "There"
  /\ UNCHANGED <<life, state, there, update, missed>>

Come(m) ==
  /\ there[m] = "Coming"
  /\ there' = [there EXCEPT ![m] = "There"]
  /\ UNCHANGED <<life, state, scope, update, missed>>

Leave(m) ==
  /\ there[m] = "There"
  /\ there' = [there EXCEPT ![m] = "Gone"]
  /\ UNCHANGED <<life, state, scope, update, missed>>

Create ==
  /\ life = "Absent"
  /\ life' = "Live"
  /\ UNCHANGED <<state, scope, there, update, missed>>

Stop ==
  /\ life = "Live"
  /\ life' = "Stopped"
  /\ UNCHANGED <<state, scope, there, update, missed>>

-----------------------------------------------------------------------------
(* The roll-out.                                                           *)

\* What has ended, or is gone, goes on only with machines that were missed.
Start(m) ==
  /\ life # "Absent" /\ state # "Aborted"
  /\ life = "Over" \/ state = "Updated" => m \in missed \/ there[m] = "Gone"
  /\ there[m] # "Coming"
  /\ update[m] = "None"
  /\ \A k \in Machines : update[k] \in {"None", "Updated"}
  /\ update' = [update EXCEPT ![m] = "Running"]
  /\ UNCHANGED <<life, state, scope, there, missed>>

End(m, r) ==
  /\ update[m] = "Running"
  /\ r = "Aborted" => life \in {"Stopped", "Over"}
  /\ update' = [update EXCEPT ![m] = r]
  /\ UNCHANGED <<life, state, scope, there, missed>>

Report(s) ==
  /\ life \in {"Live", "Stopped"}
  /\ state # "Aborted"
  /\ s = "Updated" =>
       \A m \in scope \ missed : there[m] = "There" => update[m] = "Updated"
  /\ state = "Updated" /\ s # "Updated" => missed # {}
  /\ state' = s
  /\ UNCHANGED <<life, scope, there, update, missed>>

\* Nothing runs any more, except on machines that are gone; and nothing will.
Conclude ==
  /\ life = "Stopped"
  /\ \A m \in Machines : update[m] = "Running" => there[m] = "Gone"
  /\ state' = "Aborted"
  /\ UNCHANGED <<life, scope, there, update, missed>>

\* It does not go away before what it has started, unless with a missed machine.
Finish ==
  /\ life \in {"Live", "Stopped"}
  /\ \A m \in Machines : update[m] = "Running" => there[m] = "Gone" \/ m \in missed
  /\ life' = "Over"
  /\ UNCHANGED <<state, scope, there, update, missed>>

\* Only what is over forgets an update, and may take the machine for a new one.
Discard(m) ==
  /\ life = "Over"
  /\ update' = [update EXCEPT ![m] = "None"]
  /\ missed' \in {missed, missed \cup {m}}
  /\ UNCHANGED <<life, state, scope, there>>

\* About to say Updated, it does not know of some machines, and never did.
Miss ==
  /\ life # "Absent"
  /\ missed \subseteq missed'
  /\ missed' \subseteq missed \cup {m \in Machines : update[m] = "None"}
  /\ UNCHANGED <<life, state, scope, there, update>>

Next ==
  \/ Annotate
  \/ \E m \in Machines : Come(m) \/ Leave(m)
  \/ Create
  \/ Stop
  \/ \E m \in Machines : Start(m)
  \/ \E m \in Machines, r \in Results : End(m, r)
  \/ \E s \in {"InProgress", "Updated"} : Report(s)
  \/ Conclude
  \/ Finish
  \/ \E m \in Machines : Discard(m)
  \/ Miss

Spec == Init /\ [][Next]_vars

-----------------------------------------------------------------------------
(* What follows for every roll-out.                                        *)

\* One machine is updated at a time (reconcileNormal starts the next update only
\* when the ones before are Updated).
OneAtATime ==
  \A m, k \in Machines : update[m] = "Running" /\ update[k] = "Running" => m = k

\* What says Aborted was stopped, and runs on no machine that is there
\* (reconcileStatus counts machines that are gone out).
AbortedMeansQuiet ==
  state = "Aborted" =>
    /\ life \in {"Stopped", "Over"}
    /\ \A m \in Machines : update[m] = "Running" => there[m] = "Gone"

\* As long as the task exists, what says Updated has updated all machines it has:
\* those annotated with it that are still there and were not missed
\* (reconcileStatus, line 339).
UpdatedMeansAll ==
  state = "Updated" /\ life # "Over" =>
    \A m \in scope \ missed : there[m] = "There" => update[m] = "Updated"

\* When the task is over nothing it has started runs on, unless on machines that
\* are gone or were missed (only a terminated task loses its finalizer).
OverMeansQuiet ==
  life = "Over" =>
    \A m \in Machines : update[m] = "Running" => there[m] = "Gone" \/ m \in missed

=============================================================================
