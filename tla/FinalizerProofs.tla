--------------------------- MODULE FinalizerProofs ---------------------------
(***************************************************************************)
(* A deleted task leaves nothing behind: it keeps its finalizer until its  *)
(* node updates are quiet, and no later pass, on a cache that still has the *)
(* task, starts another one; except on machines whose annotation the pass  *)
(* that said Updated had not seen, or whose node update was collected too  *)
(* early.                                                                  *)
(***************************************************************************)
EXTENDS HonestProofs

\* No pass has opened the scope of the task yet, and none is about to.
Unstarted(t) ==
  /\ taskCache[t].finalizers = {}
  /\ cur = t => before.finalizers = {} /\ pc \in {"PatchMeta", "PatchStatus"}
  /\ \A n \in NodeTasks : nodeTask[n].owner # t

\* Nothing of the task runs, and nothing is left to start: neither for the pass
\* that may be under way nor for any that begins from the cache, now or when it has
\* caught up; except on machines the manager has misjudged.
Kept(t) ==
  \A n \in NodeTasks : nodeTask[n].owner = t /\ Running(n) =>
    ~Exists(machine[nodeTask[n].machine]) \/ <<t, nodeTask[n].machine>> \in misled

Covered(t) ==
  \A m \in Machines :
    \/ Annotated(m, t)
    \/ Exists(machineCache[m]) /\ machineCache[m].running = t
    => \/ \E n \in NodeTasks :
            nodeTask[n].owner = t /\ nodeTask[n].machine = m /\ nodeTask[n].state = "Updated"
       \/ <<t, m>> \in misled

PassCovered(t) ==
  \A m \in Machines :
    Exists(machines[m]) /\ machines[m].running = t => HasNodeTask(nodes, m) \/ <<t, m>> \in misled

Settled(t) ==
  /\ Kept(t)
  /\ taskCache[t].life # "Absent"
  /\ ~Halted(taskCache[t]) => Covered(t)
  /\ cur = t /\ pc \in {"Machines", "Normal"} /\ ~Halted(before) => PassCovered(t)

\* A task without finalizer, and one that reports Updated, have nothing left to do.
SettledOk ==
  \A t \in Tasks :
    /\ task[t].finalizers = {} => Unstarted(t) \/ Settled(t)
    /\ Exists(task[t]) /\ SaysUpdated(t) => Settled(t)

\* Tasks that are gone have no finalizer; none is gone for the cache alone; the
\* task of a pass is known; and no task reports Failed.
ReleaseOk ==
  /\ \A t \in Tasks :
       /\ task[t].life = "Gone" => task[t].finalizers = {}
       /\ taskCache[t].life = "Gone" => task[t].life = "Gone"
       /\ task[t].state # "Failed" /\ taskCache[t].state # "Failed"
  /\ pc # "Idle" =>
       /\ taskCache[cur].life # "Absent"
       /\ obj.state # "Failed"
       /\ obj.finalizers # before.finalizers => before.finalizers = {} \/ IsTerminated(obj.state)
  /\ pc \in {"Machines", "Abort", "Normal"} =>
       before.finalizers # {} /\ obj.finalizers = before.finalizers

\* A machine that was gone when a pass listed it is gone for the cache.
KnownOk ==
  pc = "Machines" =>
    \A m \in Machines : machines[m].life = "Gone" => machineCache[m].life = "Gone"

FinalizerInv == SettledOk /\ ReleaseOk /\ KnownOk

-----------------------------------------------------------------------------
(* Once there is nothing left to do, it stays that way.                    *)

\* The pass goes on or leaves with what it has.
Onward ==
  /\ UNCHANGED <<cur, before>>
  /\ \/ pc' \in {"PatchMeta", "PatchStatus"}
     \/ pc = "Machines" /\ pc' = "Abort"
     \/ UNCHANGED <<machines, nodes>> /\ (pc' = pc \/ (pc = "Machines" /\ pc' = "Normal"))

\* Node updates are started only for tasks that have something left, or on machines
\* that were misjudged; they end, and are collected when the cache knows that their
\* task is gone, or count as misjudged.
Calm ==
  /\ \A n \in NodeTasks :
       LET t == nodeTask[n].owner
           k == nodeTask'[n].owner
       IN /\ k # NoTask =>
               \/ /\ k = t
                  /\ nodeTask'[n].machine = nodeTask[n].machine
                  /\ Running(n)' => Running(n)
               \/ /\ ~Unstarted(k)
                  /\ Settled(k) => <<k, nodeTask'[n].machine>> \in misled
          /\ t # NoTask /\ nodeTask[n].state = "Updated" =>
               \/ taskCache[t].life = "Gone"
               \/ <<t, nodeTask[n].machine>> \in misled'
               \/ /\ k = t
                  /\ nodeTask'[n].machine = nodeTask[n].machine
                  /\ nodeTask'[n].state = "Updated"
  /\ \A t \in Tasks, m \in Machines :
       task[t].life # "Absent" /\ Annotated(m, t)' => Annotated(m, t)
  /\ MachinesEvolve
  /\ misled \subseteq misled'
  /\ UNCHANGED <<taskCache, machineCache>>

LEMMA GoneForGood ==
  ASSUME IInv, MachinesEvolve, NEW n \in NodeTasks, nodeTask[n].owner # NoTask,
         ~Exists(machine[nodeTask[n].machine])
  PROVE  ~Exists(machine'[nodeTask[n].machine])
<1>1. nodeTask[n].machine \in Machines /\ machine[nodeTask[n].machine].life # "Absent"
  BY DEF IInv, NodeTasksOk, CachesOk
<1>2. machine[nodeTask[n].machine].life = "Gone"
  BY <1>1 DEF Exists, IInv, TypeOk, ClusterTypeOk, Machine, Lives
<1>3. QED
  BY <1>1, <1>2 DEF MachinesEvolve, Exists

LEMMA SettledKept ==
  ASSUME IInv, HonestInv, Calm, Onward, NEW t \in Tasks, Settled(t)
  PROVE  Settled(t)'
<1>1. Kept(t)'
  <2>1. SUFFICES ASSUME NEW n \in NodeTasks, nodeTask'[n].owner = t, Running(n)'
                 PROVE  \/ ~Exists(machine'[nodeTask'[n].machine])
                        \/ <<t, nodeTask'[n].machine>> \in misled'
    BY DEF Kept, Exists
  <2>2. \/ nodeTask[n].owner = t /\ nodeTask'[n].machine = nodeTask[n].machine /\ Running(n)
        \/ <<t, nodeTask'[n].machine>> \in misled'
    BY <2>1, Constants DEF Calm
  <2>3. CASE nodeTask[n].owner = t /\ nodeTask'[n].machine = nodeTask[n].machine /\ Running(n)
    <3>1. ~Exists(machine[nodeTask[n].machine]) \/ <<t, nodeTask[n].machine>> \in misled
      BY <2>3 DEF Settled, Kept
    <3>2. QED
      BY <2>3, <3>1, GoneForGood, Constants DEF Calm
  <2>4. QED
    BY <2>2, <2>3
<1>2. ASSUME ~Halted(taskCache[t]) PROVE Covered(t)'
  <2>1. SUFFICES ASSUME NEW m \in Machines,
                        \/ Annotated(m, t)'
                        \/ Exists(machineCache'[m]) /\ machineCache'[m].running = t
                 PROVE  \/ \E n \in NodeTasks :
                             /\ nodeTask'[n].owner = t /\ nodeTask'[n].machine = m
                             /\ nodeTask'[n].state = "Updated"
                        \/ <<t, m>> \in misled'
    BY DEF Covered, Annotated, Exists
  <2>2. task[t].life # "Absent" /\ taskCache[t].life # "Gone"
    BY <1>2 DEF Settled, HonestInv, BlankOk, Halted
  <2>3. Annotated(m, t) \/ (Exists(machineCache[m]) /\ machineCache[m].running = t)
    BY <2>1, <2>2 DEF Calm
  <2>4. CASE <<t, m>> \in misled
    BY <2>4 DEF Calm
  <2>5. CASE \E n \in NodeTasks :
               nodeTask[n].owner = t /\ nodeTask[n].machine = m /\ nodeTask[n].state = "Updated"
    <3>1. PICK n \in NodeTasks :
            nodeTask[n].owner = t /\ nodeTask[n].machine = m /\ nodeTask[n].state = "Updated"
      BY <2>5
    <3>2. QED
      BY <2>2, <3>1, Constants DEF Calm
  <2>6. QED
    BY <1>2, <2>3, <2>4, <2>5 DEF Settled, Covered
<1>3. cur' = t /\ pc' \in {"Machines", "Normal"} /\ ~Halted(before') => PassCovered(t)'
  <2>1. misled \subseteq misled'
    BY DEF Calm
  <2>2. QED
    BY <2>1 DEF Settled, PassCovered, HasNodeTask, Onward, Exists
<1>4. taskCache' = taskCache
  BY DEF Calm
<1>5. QED
  BY <1>1, <1>2, <1>3, <1>4 DEF Settled, Halted

LEMMA UnstartedKept ==
  ASSUME Calm, Onward, NEW t \in Tasks, Unstarted(t)
  PROVE  Unstarted(t)'
BY Constants DEF Unstarted, Calm, Onward

\* A step that leaves the caches alone, settles what it releases, and reports nothing.
LEMMA FinalizerCalm ==
  ASSUME IInv, HonestInv, FinalizerInv, Calm, Onward, obj'.state = obj.state, pc' = pc \/ pc # "Idle",
         pc' = "Machines" => UNCHANGED <<pc, machines>>,
         pc' \in {"Machines", "Abort", "Normal"} => pc \in {"Machines", "Abort", "Normal"},
         pc' \in {"Machines", "Abort", "Normal"} => obj'.finalizers = obj.finalizers,
         obj'.finalizers # before.finalizers =>
           before.finalizers = {} \/ IsTerminated(obj.state) \/ pc = "Idle",
         \A t \in Tasks :
           /\ Exists(task'[t]) /\ SaysUpdated(t)' => Exists(task[t]) /\ SaysUpdated(t)
           /\ task'[t].finalizers = {} => task[t].finalizers = {} \/ Settled(t)
           /\ task'[t].life = "Gone" => task'[t].finalizers = {}
           /\ task[t].life = "Gone" => task'[t].life = "Gone"
           /\ task'[t].state # "Failed"
  PROVE  FinalizerInv'
<1>1. SettledOk'
  <2>1. SUFFICES ASSUME NEW t \in Tasks
                 PROVE  /\ task'[t].finalizers = {} => Unstarted(t)' \/ Settled(t)'
                        /\ Exists(task'[t]) /\ SaysUpdated(t)' => Settled(t)'
    BY DEF SettledOk, Exists
  <2>2. QED
    BY SettledKept, UnstartedKept DEF FinalizerInv, SettledOk
<1>2. ReleaseOk'
  BY DEF FinalizerInv, ReleaseOk, Calm, Onward
<1>3. KnownOk'
  BY DEF FinalizerInv, KnownOk, Calm, Onward
<1>4. QED
  BY <1>1, <1>2, <1>3 DEF FinalizerInv

\* A step that stores no more than a state, or brings news to the caches.
LEMMA FinalizerNews ==
  ASSUME IInv, HonestInv, FinalizerInv, UNCHANGED <<machine, nodeTask, misled>>,
         \/ pc' = "Idle" /\ cur' = NoTask
         \/ UNCHANGED <<pc, cur, before, obj, machines, nodes>>,
         \A t \in Tasks :
           /\ task'[t].life = task[t].life /\ task'[t].finalizers = task[t].finalizers
           /\ task'[t].state = "Updated" => SaysUpdated(t)
           /\ task'[t].state # "Failed"
           /\ taskCache'[t] \in {taskCache[t], task[t]},
         \A m \in Machines : machineCache'[m] \in {machineCache[m], machine[m]}
  PROVE  FinalizerInv'
<1>1. \A t \in Tasks : SaysUpdated(t)' => SaysUpdated(t)
  BY Constants DEF SaysUpdated
<1>2. ASSUME NEW t \in Tasks, Settled(t) PROVE Settled(t)'
  <2>1. Kept(t)'
    BY <1>2 DEF Settled, Kept, Running, Exists
  <2>2. taskCache[t].life # "Absent" /\ taskCache'[t].life # "Absent"
    BY <1>2 DEF Settled, HonestInv, BlankOk
  <2>3. ~Halted(taskCache'[t]) => ~Halted(taskCache[t])
    BY DEF IInv, CachesOk
  <2>4. Covered(t) => Covered(t)'
    BY DEF Covered, Annotated, Exists
  <2>5. cur' = t /\ pc' \in {"Machines", "Normal"} /\ ~Halted(before') => PassCovered(t)'
    BY <1>2, Constants DEF Settled, PassCovered, HasNodeTask, Exists
  <2>6. QED
    BY <1>2, <2>1, <2>2, <2>3, <2>4, <2>5 DEF Settled, Halted
<1>3. ASSUME NEW t \in Tasks, Unstarted(t), task[t].finalizers = {} PROVE Unstarted(t)'
  BY <1>3, Constants DEF Unstarted
<1>4. SettledOk'
  BY <1>1, <1>2, <1>3 DEF FinalizerInv, SettledOk, Exists
<1>5. ReleaseOk'
  BY Constants DEF FinalizerInv, ReleaseOk, HonestInv, BlankOk, IInv, WorkerOk
<1>6. KnownOk'
  BY DEF FinalizerInv, KnownOk, IInv, ScopeOk
<1>7. QED
  BY <1>4, <1>5, <1>6 DEF FinalizerInv

-----------------------------------------------------------------------------
(* Passes.                                                                 *)

LEMMA FinalizerInit == Init => FinalizerInv
BY Constants DEF Init, ClusterInit, PassInit, FinalizerInv, SettledOk, ReleaseOk, KnownOk, Unstarted,
   SaysUpdated, AbsentTask, NoNodeTask, Exists

\* A pass that finds no finalizer only adds it; any other starts from the cache,
\* and lists the node updates that keep a settled task settled.
LEMMA FinalizerBegin ==
  ASSUME IInv, HonestInv, FinalizerInv, NEW t \in Tasks, StartPass(t)
  PROVE  FinalizerInv'
<1> USE DEF clusterVars, serverVars, cacheVars
<1>1. CASE ReconcileMissing(t)
  <2>1. UNCHANGED <<clusterVars, passVars>>
    BY <1>1 DEF ReconcileMissing
  <2>2. QED
    BY <2>1, FinalizerNews DEF passVars, ReleaseOk, FinalizerInv, SaysUpdated
<1>2. CASE ~ReconcileMissing(t)
  <2>1. /\ UNCHANGED <<task, machine, nodeTask, taskCache, machineCache, misled>>
        /\ Exists(taskCache[t]) /\ cur' = t /\ before' = taskCache[t]
        /\ obj'.state = taskCache[t].state
        /\ pc = "Idle" /\ cur = NoTask
        /\ \/ pc' = "PatchMeta" /\ (taskCache[t].finalizers = {} \/ obj'.finalizers = taskCache[t].finalizers)
           \/ /\ pc' = "Machines" /\ taskCache[t].finalizers # {}
              /\ obj'.finalizers = taskCache[t].finalizers
              /\ machines' = machineCache
              /\ nodes' = [n \in NodeTasks |->
                             IF nodeTask[n].owner = t THEN nodeTask[n] ELSE NoNodeTask]
    BY <1>2 DEF StartPass, ReconcileFinalizer, OpenScope, ScopeError, Dequeue, Begin, IInv, TypeOk,
       ClusterTypeOk, UpdateTask, WorkerOk
  <2>2. \A k \in Tasks : SaysUpdated(k)' => SaysUpdated(k)
    BY <2>1 DEF SaysUpdated
  <2>3. ASSUME NEW k \in Tasks, Unstarted(k) PROVE Unstarted(k)'
    BY <2>1, <2>3 DEF Unstarted
  <2>4. ASSUME NEW k \in Tasks, Settled(k) PROVE Settled(k)'
    <3>1. Kept(k)'
      BY <2>1, <2>4 DEF Settled, Kept, Running, Exists
    <3>2. Covered(k) => Covered(k)'
      BY <2>1 DEF Covered, Annotated, Exists
    <3>3. ASSUME cur' = k, pc' \in {"Machines", "Normal"}, ~Halted(before') PROVE PassCovered(k)'
      <4>1. Covered(k)
        BY <2>1, <2>4, <3>3 DEF Settled
      <4>2. QED
        BY <2>1, <3>3, <4>1 DEF Covered, PassCovered, HasNodeTask, Exists
    <3>4. QED
      BY <2>1, <2>4, <3>1, <3>2, <3>3 DEF Settled, Halted
  <2>5. SettledOk'
    BY <2>1, <2>2, <2>3, <2>4 DEF FinalizerInv, SettledOk, Exists
  <2>6. ReleaseOk'
    BY <2>1 DEF FinalizerInv, ReleaseOk, Exists
  <2>7. KnownOk'
    BY <2>1 DEF KnownOk
  <2>8. QED
    BY <2>5, <2>6, <2>7 DEF FinalizerInv
<1>3. QED
  BY <1>1, <1>2

\* The decision: if every machine the pass counted is Updated, nothing of the task
\* runs on a machine that exists, and there is no other to update unless the listing
\* does not show it.
LEMMA SettledDecision ==
  ASSUME IInv, HonestInv, FinalizerInv, pc = "Machines", Exists(task[cur]),
         AllUpdated(cur, machines, nodes), pc' \in {"Abort", "Normal"},
         UNCHANGED <<task, machine, nodeTask, taskCache, machineCache, cur, before, machines, nodes>>,
         misled \cup ({cur} \X Unseen) \subseteq misled'
  PROVE  Settled(cur)'
<1>1. ScopeOk /\ cur \in Tasks /\ cur # NoTask
  BY Constants DEF IInv, WorkerOk
<1>2. ASSUME NEW m \in Machines, Exists(machines[m]), NEW n \in NodeTasks, nodes[n].machine = m
      PROVE  nodes[n].state = "Updated"
  <2>1. PICK k \in NodeTasks : nodes[k].machine = m /\ nodes[k].state = "Updated"
    BY <1>2 DEF AllUpdated, HasNodeTask, Reports, LatestNodeTasks
  <2>2. nodes[k].owner = cur /\ nodes[n].owner = cur
    BY <1>1, <1>2, <2>1, Constants DEF ScopeOk, NoNodeTask
  <2>3. k = n
    BY <1>1, <1>2, <2>1, <2>2 DEF ScopeOk
  <2>4. QED
    BY <2>1, <2>3
<1>3. Kept(cur)'
  <2>1. SUFFICES ASSUME NEW n \in NodeTasks, nodeTask[n].owner = cur, Running(n)
                 PROVE  ~Exists(machine[nodeTask[n].machine])
    BY DEF Kept, Running, Exists
  <2>2. /\ nodes[n].owner = cur /\ nodes[n].machine = nodeTask[n].machine
        /\ nodes[n].machine \in Machines /\ machines[nodes[n].machine].life # "Absent"
        /\ nodes[n].state # "Updated"
    BY <1>1, <2>1 DEF ScopeOk, Running, IsTerminated
  <2>3. ~Exists(machines[nodes[n].machine])
    BY <1>2, <2>2
  <2>4. machines[nodes[n].machine].life = "Gone"
    BY <2>2, <2>3 DEF Exists, IInv, TypeOk, Machine, Lives
  <2>5. QED
    BY <1>1, <2>2, <2>4 DEF ScopeOk, Exists
<1>4. Covered(cur)'
  <2>1. SUFFICES ASSUME NEW m \in Machines,
                        \/ Annotated(m, cur)
                        \/ Exists(machineCache[m]) /\ machineCache[m].running = cur
                 PROVE  \/ \E n \in NodeTasks : /\ nodeTask[n].owner = cur /\ nodeTask[n].machine = m
                                                /\ nodeTask[n].state = "Updated"
                        \/ <<cur, m>> \in misled'
    BY DEF Covered, Annotated, Exists
  <2>2. CASE machines[m].running # cur
    BY <2>1, <2>2 DEF Unseen, InScope, Annotated
  <2>3. CASE machines[m].running = cur
    <3>1. machines[m].life \in Lives /\ machines[m].life # "Absent"
      BY <1>1, <2>3 DEF HonestInv, BlankOk, IInv, TypeOk, Machine
    <3>2. machines[m].life # "Gone"
      BY <1>1, <2>1 DEF FinalizerInv, KnownOk, ScopeOk, Annotated, Exists
    <3>3. Exists(machines[m])
      BY <3>1, <3>2 DEF Lives, Exists
    <3>4. PICK n \in NodeTasks : nodes[n].machine = m /\ nodes[n].state = "Updated"
      BY <2>3, <3>3 DEF AllUpdated, InScope, Reports, LatestNodeTasks
    <3>5. nodes[n].owner = cur /\ nodeTask[n].owner = cur
      BY <1>1, <3>4, Constants DEF ScopeOk, NoNodeTask, HonestInv, ListingStands
    <3>6. nodeTask[n].machine = m /\ nodeTask[n].state = "Updated"
      BY <1>1, <3>4, <3>5 DEF ScopeOk, IsTerminated
    <3>7. QED
      BY <3>5, <3>6
  <2>4. QED
    BY <2>2, <2>3
<1>5. PassCovered(cur)'
  BY DEF AllUpdated, InScope, Reports, LatestNodeTasks, PassCovered, HasNodeTask, Exists
<1>6. taskCache[cur].life # "Absent"
  BY DEF FinalizerInv, ReleaseOk
<1>7. QED
  BY <1>3, <1>4, <1>5, <1>6 DEF Settled, Halted

LEMMA FinalizerReportState == ASSUME IInv, HonestInv, FinalizerInv, ReportState PROVE FinalizerInv'
<1>1. /\ UNCHANGED <<task, machine, nodeTask, taskCache, machineCache, cur, before, machines, nodes>>
      /\ pc = "Machines" /\ pc' \in {"Abort", "Normal"}
      /\ obj'.state = SummaryState(cur, before, machines, nodes)
      /\ obj'.finalizers = obj.finalizers
      /\ misled \subseteq misled'
      /\ obj'.state = "Updated" => misled \cup ({cur} \X Unseen) \subseteq misled'
  BY DEF ReportState, serverVars, IInv, TypeOk, UpdateTask
<1>2. Calm /\ Onward
  BY <1>1 DEF Calm, Onward, MachinesEvolve, Running, Annotated, Exists
<1>3. SettledOk'
  <2>1. ASSUME NEW t \in Tasks, task'[t].finalizers = {} PROVE Unstarted(t)' \/ Settled(t)'
    BY <1>1, <1>2, <2>1, SettledKept, UnstartedKept DEF FinalizerInv, SettledOk
  <2>2. ASSUME NEW t \in Tasks, Exists(task'[t]), SaysUpdated(t)' PROVE Settled(t)'
    <3>1. CASE SaysUpdated(t)
      BY <1>1, <1>2, <2>2, <3>1, SettledKept DEF FinalizerInv, SettledOk, Exists
    <3>2. CASE ~SaysUpdated(t)
      <4>1. cur = t /\ obj'.state = "Updated"
        BY <1>1, <2>2, <3>2 DEF SaysUpdated
      <4>2. AllUpdated(cur, machines, nodes) /\ Exists(task[cur])
        BY <1>1, <2>2, <4>1 DEF SummaryState, Exists
      <4>3. Settled(cur)'
        BY <1>1, <4>1, <4>2, SettledDecision
      <4>4. QED
        BY <1>1, <4>1, <4>3
    <3>3. QED
      BY <3>1, <3>2
  <2>3. QED
    BY <2>1, <2>2 DEF SettledOk, Exists
<1>4. ReleaseOk'
  BY <1>1 DEF FinalizerInv, ReleaseOk, SummaryState
<1>5. KnownOk'
  BY <1>1 DEF KnownOk
<1>6. QED
  BY <1>3, <1>4, <1>5 DEF FinalizerInv

\* A pass takes the finalizer off only when it reports a terminal state.
LEMMA FinalizerPatchMeta == ASSUME IInv, HonestInv, FinalizerInv, PatchMeta PROVE FinalizerInv'
<1>1. /\ UNCHANGED <<machine, nodeTask, taskCache, machineCache, misled, cur, before, machines,
                      nodes>>
      /\ pc = "PatchMeta" /\ pc' = "PatchStatus" /\ obj' = Final(obj)
      /\ cur \in Tasks
  BY Constants DEF PatchMeta, cacheVars, IInv, WorkerOk
<1>2. Calm /\ Onward
  BY <1>1 DEF Calm, Onward, MachinesEvolve, Running, Annotated, Exists
<1>3. /\ obj'.state = obj.state
      /\ obj'.finalizers # before.finalizers => before.finalizers = {} \/ IsTerminated(obj.state)
  BY <1>1 DEF Final, IInv, TypeOk, UpdateTask, FinalizerInv, ReleaseOk
<1>4. \/ UNCHANGED task
      \/ /\ Exists(task[cur]) /\ obj'.finalizers # before.finalizers
         /\ task'[cur].finalizers = obj'.finalizers
         /\ task'[cur].state = task[cur].state
         /\ task'[cur].life = "Gone" => obj'.finalizers = {}
         /\ \A t \in Tasks \ {cur} : task'[t] = task[t]
  BY <1>1 DEF PatchMeta, IInv, TypeOk, ClusterTypeOk, UpdateTask, Exists
<1>5. ASSUME Exists(task[cur]), obj'.finalizers # before.finalizers, obj'.finalizers = {}
      PROVE  Settled(cur)
  <2>1. obj.state \in {"Updated", "Aborted"}
    BY <1>1, <1>3, <1>5 DEF FinalizerInv, ReleaseOk, IsTerminated
  <2>2. CASE obj.state = "Updated"
    BY <1>1, <1>5, <2>2 DEF FinalizerInv, SettledOk, SaysUpdated
  <2>3. CASE obj.state = "Aborted"
    <3>1. Quiet(cur) /\ Halted(taskCache[cur])
      BY <1>1, <2>3 DEF IInv, AbortedOk, SaysAborted
    <3>2. taskCache[cur].life # "Absent"
      BY <1>1 DEF FinalizerInv, ReleaseOk
    <3>3. QED
      BY <1>1, <3>1, <3>2 DEF Settled, Kept, Quiet
  <2>4. QED
    BY <2>1, <2>2, <2>3
<1>6. ASSUME NEW t \in Tasks
      PROVE  /\ Exists(task'[t]) /\ SaysUpdated(t)' => Exists(task[t]) /\ SaysUpdated(t)
             /\ task'[t].finalizers = {} => task[t].finalizers = {} \/ Settled(t)
             /\ task'[t].life = "Gone" => task'[t].finalizers = {}
             /\ task[t].life = "Gone" => task'[t].life = "Gone"
             /\ task'[t].state # "Failed"
  BY <1>1, <1>3, <1>4, <1>5 DEF SaysUpdated, Exists, FinalizerInv, ReleaseOk
<1>7. QED
  BY <1>1, <1>2, <1>3, <1>6, FinalizerCalm

\* A node update is created only by a pass that has something left to do, or on a
\* machine that was misjudged.
LEMMA CreatesUnsettled ==
  ASSUME IInv, NEW m \in Machines, CreateNodeTask(m)
  PROVE  /\ ~Unstarted(cur)
         /\ Settled(cur) => <<cur, m>> \in misled
<1>1. pc = "Normal" /\ m \in NextMachines
  BY DEF CreateNodeTask
<1>2. ~Halted(before)
  BY <1>1 DEF IInv, WorkerOk, Stopping, Halted, Exists
<1>3. PassCovered(cur) => <<cur, m>> \in misled
  BY <1>1 DEF NextMachines, Waiting, InScope, PassCovered
<1>4. QED
  BY <1>1, <1>2, <1>3 DEF Unstarted, Settled

LEMMA FinalizerCreate ==
  ASSUME IInv, NEW m \in Machines, CreateNodeTask(m)
  PROVE  Calm
<1>1. UNCHANGED <<machine, taskCache, machineCache, misled>>
  BY DEF CreateNodeTask, cacheVars
<1>2. \A n \in NodeTasks :
        \/ nodeTask'[n] = nodeTask[n]
        \/ nodeTask[n].owner = NoTask /\ nodeTask'[n].owner = cur /\ nodeTask'[n].machine = m
  BY DEF CreateNodeTask, IInv, TypeOk, ClusterTypeOk
<1>3. QED
  BY <1>1, <1>2, CreatesUnsettled DEF Calm, MachinesEvolve, Running, Annotated, Exists

\* All steps of a pass are calm.
LEMMA PassCalm == ASSUME IInv, ContinuePass PROVE Calm
<1> USE DEF Calm, MachinesEvolve, Running, Annotated, Exists, cacheVars
<1>1. ASSUME NEW m \in Machines, PatchMachine(m) PROVE Calm
  <2>1. UNCHANGED <<nodeTask, taskCache, machineCache, misled>>
    BY <1>1 DEF PatchMachine
  <2>2. \A k \in Machines :
          machine'[k].life = machine[k].life /\ machine'[k].running = machine[k].running
    BY <1>1 DEF PatchMachine, IInv, TypeOk, ClusterTypeOk, Machine
  <2>3. QED
    BY <2>1, <2>2
<1>2. ASSUME NEW n \in NodeTasks, AbortNodeTask(n) PROVE Calm
  <2>1. UNCHANGED <<machine, taskCache, machineCache, misled>>
    BY <1>2 DEF AbortNodeTask
  <2>2. \A k \in NodeTasks : /\ nodeTask'[k].owner = nodeTask[k].owner
                             /\ nodeTask'[k].machine = nodeTask[k].machine
                             /\ nodeTask'[k].state = nodeTask[k].state
    BY <1>2 DEF AbortNodeTask, IInv, TypeOk, ClusterTypeOk, NodeUpdateTask
  <2>3. QED
    BY <2>1, <2>2
<1>3. ASSUME UNCHANGED <<machine, nodeTask, taskCache, machineCache>>, misled \subseteq misled'
      PROVE  Calm
  BY <1>3
<1>4. CASE ReportState
  BY <1>3, <1>4 DEF ReportState, serverVars
<1>5. QED
  BY <1>1, <1>2, <1>3, <1>4, FinalizerCreate DEF ContinuePass, AbortDone, NormalBlocked,
     NormalPreflightFails, NormalNothingToDo, PatchMeta, PatchStatus, clusterVars, serverVars

LEMMA FinalizerPass ==
  ASSUME IInv, HonestInv, FinalizerInv, ContinuePass, ~ReportState
  PROVE  FinalizerInv'
<1>1. ASSUME UNCHANGED <<task, cur, before, obj>>, pc # "Idle",
             \/ UNCHANGED <<pc, machines, nodes>>
             \/ pc \in {"Abort", "Normal"} /\ pc' = "PatchMeta"
      PROVE  FinalizerInv'
  <2>1. Calm /\ Onward
    BY <1>1, PassCalm DEF Onward
  <2>2. obj.finalizers # before.finalizers => before.finalizers = {} \/ IsTerminated(obj.state)
    BY <1>1 DEF FinalizerInv, ReleaseOk
  <2>3. \A t \in Tasks : SaysUpdated(t)' => SaysUpdated(t)
    BY <1>1, <2>1 DEF SaysUpdated, Calm
  <2>4. ASSUME NEW t \in Tasks
        PROVE  /\ Exists(task'[t]) /\ SaysUpdated(t)' => Exists(task[t]) /\ SaysUpdated(t)
               /\ task'[t].finalizers = {} => task[t].finalizers = {} \/ Settled(t)
               /\ task'[t].life = "Gone" => task'[t].finalizers = {}
               /\ task[t].life = "Gone" => task'[t].life = "Gone"
               /\ task'[t].state # "Failed"
    BY <1>1, <2>3 DEF Exists, FinalizerInv, ReleaseOk
  <2>5. QED
    BY <1>1, <2>1, <2>2, <2>4, FinalizerCalm
<1>2. ASSUME NEW m \in Machines, PatchMachine(m) PROVE FinalizerInv'
  BY <1>1, <1>2 DEF PatchMachine
<1>3. ASSUME NEW n \in NodeTasks, AbortNodeTask(n) PROVE FinalizerInv'
  BY <1>1, <1>3 DEF AbortNodeTask, Leave
<1>4. CASE AbortDone \/ NormalBlocked \/ NormalPreflightFails \/ NormalNothingToDo
  BY <1>1, <1>4 DEF AbortDone, NormalBlocked, NormalPreflightFails, NormalNothingToDo, Leave,
     clusterVars, serverVars
<1>5. ASSUME NEW m \in Machines, CreateNodeTask(m) PROVE FinalizerInv'
  BY <1>1, <1>5 DEF CreateNodeTask, Leave
<1>6. CASE PatchStatus
  <2>1. UNCHANGED <<machine, nodeTask, taskCache, machineCache, misled>>
        /\ pc' = "Idle" /\ cur' = NoTask /\ pc # "Idle" /\ cur \in Tasks
    BY <1>6, Constants DEF PatchStatus, EndPass, cacheVars, IInv, WorkerOk
  <2>2. \A t \in Tasks : /\ task'[t].life = task[t].life
                         /\ task'[t].finalizers = task[t].finalizers
                         /\ \/ task'[t].state = task[t].state
                            \/ t = cur /\ task'[t].state = obj.state
    BY <1>6, <2>1 DEF PatchStatus, IInv, TypeOk, ClusterTypeOk, UpdateTask
  <2>3. \A t \in Tasks : /\ task'[t].state = "Updated" => SaysUpdated(t)
                         /\ task'[t].state # "Failed"
    BY <2>1, <2>2 DEF SaysUpdated, FinalizerInv, ReleaseOk
  <2>4. QED
    BY <2>1, <2>2, <2>3, FinalizerNews
<1>7. QED
  BY <1>2, <1>3, <1>4, <1>5, <1>6, FinalizerPatchMeta DEF ContinuePass

-----------------------------------------------------------------------------
(* The environment and the manager.                                        *)

\* A node update is collected only when the cache knows that its task is gone, or
\* counts as misjudged; annotations are made only for tasks that are not there yet.
LEMMA FinalizerCollect ==
  ASSUME IInv, HonestInv, Environment, UNCHANGED <<queue, passVars>>
  PROVE  Calm
<1>1. MachinesEvolve /\ NodeTasksEvolve /\ UNCHANGED <<taskCache, machineCache>>
  BY EnvironmentEvolves DEF Evolve, IInv, TypeOk
<1>2. misled \subseteq misled'
      /\ \A t \in Tasks, m \in Machines :
           task[t].life # "Absent" /\ Annotated(m, t)' => Annotated(m, t)
  BY HonestHook, HonestOthers DEF Environment, Gentle
<1>3. ASSUME NEW n \in NodeTasks, nodeTask[n].owner # NoTask, nodeTask'[n] = NoNodeTask
      PROVE  \/ taskCache[nodeTask[n].owner].life = "Gone"
             \/ <<nodeTask[n].owner, nodeTask[n].machine>> \in misled'
  <2>1. PICK k \in NodeTasks : CollectNodeTask(k)
    BY <1>3, Constants DEF Environment, UpdateHook, OtherActors, Surroundings, AnnotateMachine, ForgetUpToDate,
       CreateTask, AbortOlderTask, AbortTask, DeleteTask, JoinMachine, DeleteMachine, RemoveMachine,
       LoseHealth, RegainHealth, ReportProgress, NoNodeTask, IInv, TypeOk, ClusterTypeOk, NodeUpdateTask
  <2>2. k = n
    BY <1>3, <2>1 DEF CollectNodeTask, NoNodeTask
  <2>3. QED
    BY <2>1, <2>2 DEF CollectNodeTask
<1>4. QED
  BY <1>1, <1>2, <1>3 DEF Calm, NodeTasksEvolve, NoNodeTask, Running, IsTerminated

\* The environment makes no task say Updated.
LEMMA EnvironmentTasks ==
  ASSUME IInv, HonestInv, FinalizerInv, Environment, UNCHANGED passVars, NEW t \in Tasks
  PROVE  /\ task'[t].finalizers = task[t].finalizers
         /\ task'[t].state = task[t].state
         /\ task[t].life = "Gone" => task'[t].life = "Gone"
         /\ task'[t].life = "Gone" => task[t].life = "Gone" \/ task[t].finalizers = {}
         /\ Exists(task'[t]) /\ SaysUpdated(t)' => Exists(task[t]) /\ SaysUpdated(t)
<1>1. \A k \in Tasks : /\ task'[k].finalizers = task[k].finalizers
                       /\ task'[k].state = task[k].state
                       /\ task[k].life = "Gone" => task'[k].life = "Gone"
                       /\ task'[k].life = "Gone" => task[k].life = "Gone" \/ task[k].finalizers = {}
                       /\ Exists(task'[k]) => Exists(task[k]) \/ task[k] = AbsentTask
  <2>1. \/ UNCHANGED task
        \/ \E k \in Tasks : CreateTask(k) \/ AbortOlderTask(k) \/ AbortTask(k) \/ DeleteTask(k)
    BY DEF Environment, UpdateHook, OtherActors, Surroundings, AnnotateMachine, ForgetUpToDate,
       JoinMachine, DeleteMachine, RemoveMachine, LoseHealth, RegainHealth, ReportProgress,
       CollectNodeTask
  <2> USE DEF IInv, TypeOk, ClusterTypeOk, UpdateTask, Exists
  <2>2. ASSUME NEW k \in Tasks, CreateTask(k) PROVE <1>1!:
    BY <2>2 DEF CreateTask, HonestInv, BlankOk
  <2>3. ASSUME NEW k \in Tasks, AbortOlderTask(k) \/ AbortTask(k) PROVE <1>1!:
    <3>1. Exists(task[k]) /\ task' = [task EXCEPT ![k].phase = "Abort"]
      BY <2>3 DEF AbortOlderTask, AbortTask
    <3>2. QED
      BY <3>1
  <2>4. ASSUME NEW k \in Tasks, DeleteTask(k) PROVE <1>1!:
    BY <2>4 DEF DeleteTask
  <2>5. QED
    BY <2>1, <2>2, <2>3, <2>4
<1>2. taskCache' = taskCache
  BY EnvironmentEvolves DEF Evolve, IInv, TypeOk
<1>3. ASSUME Exists(task'[t]), SaysUpdated(t)'
      PROVE  Exists(task[t]) /\ SaysUpdated(t)
  <2>1. SaysUpdated(t)
    BY <1>1, <1>2, <1>3 DEF SaysUpdated, passVars
  <2>2. ASSUME task[t] = AbsentTask PROVE FALSE
    BY <2>1, <2>2, Constants DEF SaysUpdated, AbsentTask, HonestInv, BlankOk
  <2>3. QED
    BY <1>1, <1>3, <2>1, <2>2
<1>4. QED
  BY <1>1, <1>3

LEMMA FinalizerEnvironment ==
  ASSUME IInv, HonestInv, FinalizerInv, Environment, UNCHANGED <<queue, passVars>>
  PROVE  FinalizerInv'
<1>1. Calm /\ Onward
  BY FinalizerCollect DEF Onward, passVars
<1>2. ASSUME NEW t \in Tasks
      PROVE  /\ Exists(task'[t]) /\ SaysUpdated(t)' => Exists(task[t]) /\ SaysUpdated(t)
             /\ task'[t].finalizers = {} => task[t].finalizers = {} \/ Settled(t)
             /\ task'[t].life = "Gone" => task'[t].finalizers = {}
             /\ task[t].life = "Gone" => task'[t].life = "Gone"
             /\ task'[t].state # "Failed"
  BY EnvironmentTasks DEF FinalizerInv, ReleaseOk
<1>3. obj.finalizers # before.finalizers =>
        before.finalizers = {} \/ IsTerminated(obj.state) \/ pc = "Idle"
  BY DEF FinalizerInv, ReleaseOk
<1>4. UNCHANGED <<pc, cur, before, obj, machines, nodes>>
  BY DEF passVars
<1>5. pc \in {"Machines", "Abort", "Normal"} \/ pc' \notin {"Machines", "Abort", "Normal"}
  BY <1>4
<1>6. QED
  BY <1>1, <1>2, <1>3, <1>4, <1>5, FinalizerCalm

LEMMA FinalizerManager ==
  ASSUME IInv, HonestInv, FinalizerInv, SyncMachines \/ SyncTasks \/ Resync \/ Restart
  PROVE  FinalizerInv'
<1>1. /\ UNCHANGED <<task, machine, nodeTask, misled>>
      /\ taskCache' \in {taskCache, task} /\ machineCache' \in {machineCache, machine}
      /\ \/ UNCHANGED <<pc, cur, before, obj, machines, nodes>>
         \/ pc' = "Idle" /\ cur' = NoTask
  BY DEF SyncMachines, SyncTasks, Resync, Restart, serverVars, cacheVars, clusterVars, passVars
<1>2. QED
  BY <1>1, FinalizerNews DEF SaysUpdated, FinalizerInv, ReleaseOk

LEMMA FinalizerNext ==
  ASSUME IInv, HonestInv, FinalizerInv, [Next]_vars
  PROVE  FinalizerInv'
<1>1. CASE UNCHANGED vars
  <2>1. UNCHANGED <<task, machine, nodeTask, taskCache, machineCache, misled, pc, cur, before, obj, machines,
                    nodes>>
    BY <1>1 DEF vars, clusterVars, serverVars, cacheVars, passVars
  <2>2. QED
    BY <2>1, FinalizerNews DEF SaysUpdated, FinalizerInv, ReleaseOk
<1>2. CASE Manager
  BY <1>2, FinalizerBegin, FinalizerReportState, FinalizerPass, FinalizerManager DEF Manager, Work
<1>3. CASE Environment /\ UNCHANGED <<queue, passVars>>
  BY <1>3, FinalizerEnvironment
<1>4. QED
  BY <1>1, <1>2, <1>3 DEF Next

-----------------------------------------------------------------------------
\* A task that is gone has no node update running on a machine that exists, now or
\* later, and no pass on a stale copy of it starts another one: except on a machine
\* the manager has misjudged.
THEOREM FinalizerGuardsHolds == Spec => []FinalizerGuards
<1>1. IInv /\ HonestInv /\ FinalizerInv => FinalizerGuards
  BY DEF FinalizerInv, ReleaseOk, SettledOk, Unstarted, Settled, Kept, FinalizerGuards
<1>2. Init => IInv /\ HonestInv /\ FinalizerInv
  BY InvInit, HonestInit, FinalizerInit
<1>3. IInv /\ HonestInv /\ FinalizerInv /\ [Next]_vars => (IInv /\ HonestInv /\ FinalizerInv)'
  BY InvNext, HonestNext, FinalizerNext
<1>4. QED
  BY <1>1, <1>2, <1>3, PTL DEF Spec

=============================================================================
