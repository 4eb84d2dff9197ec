# In-place updater: models, checks and proofs

The program is a Cluster API runtime extension. A lifecycle hook turns an upgrade
of a control plane into one `UpdateTask` (that for a MachineDeployment is still a
stub); the manager's UpdateTask controller rolls that task out over the machines,
one `NodeUpdateTask` of some provider at a time; the provider in this repository
runs a command in a Docker container. This directory holds TLA+ models of hook,
controller and provider and of their surroundings, the TLC configurations that
check them, and proofs about them for every number of tasks, machines and failures.

## 1. Inventory

| Component | State it keeps | Operations | What makes it correct |
|---|---|---|---|
| **UpdateTask controller** `internal/controller/updatetask_controller.go` | work queue; during a pass, copies of the task, the machines and the node update tasks | `Reconcile` = finalizer, scope, `reconcileStatus`, then `reconcileAbort` or `reconcileNormal`, then the deferred patch | one node update per machine and one at a time; a failure stops the roll-out; `Aborted` and `Updated` mean what they say; a deleted task waits for its node updates, and is released; an unfinished task is never forgotten |
| **UpdateTask scope** `pkg/scopes` | none: builds the copies | `New` reads the Cluster, lists machines (cached) and node update tasks (live) | the listing covers every node update task of the UpdateTask |
| **Node update tasks** `pkg/nodes` | wraps a provider's unstructured object | create with a random name, read `phase`, `state`, `machineName`; set `phase = Abort` | a created object is found again by the next pass, with or without an answer |
| **Control plane preflight** `controller/controlplanes/kubeadm.go` | none | `PreflightCheckForKubeadmControlPlane` | no node of a control plane is taken down while another is deleted or unhealthy |
| **Update hook** `internal/handlers/lifecycle` | none; reads and writes the server | abort the tasks in progress, annotate every machine, create the task | success only when every machine is annotated and the task exists; no older task goes on beside the new one |
| **DockerNodeUpdateTask controller** `controller/dockernodeupdatetask_controller.go` | its own informer cache and work queue; during a pass, a copy of the node update task | take a node update task, run the command, sleep, store the state by a deferred patch | keeps the provider contract: ends, stays ended, honours `Abort`, tells failure from success; `Updated` only after the call that runs the command was made |
| **Manager** `cmd/main.go` | informer caches, work queue | watch, resync, restart | no event of an unfinished task is lost |
| API types, generated copies, manifests, e2e tests | | | read for their meaning, not modelled as behaviour |

At this commit `cmd/main.go` registers the hooks that only log, not this one; the
end-to-end test calls it directly, with a client of its own that does not cache. The
model lets each list of a call come from the server or from a cache.

How they interact. All parts meet only in the API server. The hook annotates the
machines one by one with the name of a task, and creates that task *afterwards*.
The manager reads UpdateTasks and Machines from informer caches that trail the
server, each cache at its own pace; node update tasks are `unstructured` objects
and are read live. Node update tasks and Machines are **not watched**: progress
rests on every pass of an unfinished task ending in a requeue. Writes are separate
calls: a condition per machine, then aborts or one creation, then the task's
metadata (finalizer), then its status; each can fail alone. The garbage collector
removes node update tasks after their UpdateTask, because of owner references.

What is hard. (1) a whole pass works on copies while the task is aborted or
deleted and machines join, sicken and go; (2) a create whose answer is lost must
not be repeated, though names are random; (3) `Aborted` is computed by
`reconcileStatus` *before* `reconcileAbort` sends an abort in the same pass; (4) a
manager crash at any point; (5) partly failed deferred patches; (6) a cache behind
by any number of changes; (7) providers that end late or not as asked. `PROJECT.json`
lists each hazard at its line, with the properties that would catch it.

## 2. Modules

| Module | Contents |
|---|---|
| `ClusterState` | objects in the API server, informer caches, and every actor other than the controllers, one action per write |
| `UpdateTaskController` | the worker's pass, the work queue, the informers, resync and restart; `TypeOk`, `Spec` |
| `UpdateTaskProperties` | safety, fairness, liveness, and two statements of the repository that the code breaks |
| `RollingUpdate` | the abstract specification of one task: a serial roll-out over machines that come and go |
| `UpdateTaskRollout` | the refinement mapping by which the controller implements `RollingUpdate` for each task |
| `ExternalUpdateHandler` | the update hook step by step, any number of calls at once |
| `InplaceUpdater` | hook and controller composed; what a call guarantees; refinement of `UpdateTaskController!Spec` |
| `DockerNodeUpdateTask` | the provider's worker, its informer, queue, resync and lost patches |
| `DockerUpdater` | both controllers in one manager, without any assumption about providers; safety and liveness of the whole, and two statements that the code breaks |
| `MCUpdateTask`, `MCInplace`, `MCDocker` | initial states, symmetry and fair specifications of the runs |
| `UpdateTaskProofs`, `HonestProofs`, `FinalizerProofs`, `OutcomeProofs` | theorems about the controller, each module on top of the one before |
| `RollingProofs` | what follows from `RollingUpdate` alone |
| `RolloutProofs` | the refinement of `RollingUpdate` |
| `InplaceProofs`, `DockerProofs` | theorems about the two compositions |

How they compose: `InplaceUpdater` puts the real hook where `ClusterState` has the
loose one, `DockerUpdater` puts the real provider where `ClusterState` has the
contract of one (`ReportProgress`). Both are shown to refine the controller's `Spec`,
which in turn refines `RollingUpdate`.

`ClusterState` is deliberately loose about the hook: it may annotate any machine with
the name of any task that does not exist yet, and create any task, at any time.
`ExternalUpdateHandler` is the code. That the code does no more than the loose version
is the property `KeepsToEnvironment`, so what holds of the controller in the loose
environment holds of the composition. `KeepsToContract` says the same of the provider.

State and code:

| Model | Code |
|---|---|
| `task`, `taskCache` | UpdateTask in the server / in the informer; `life` is absence, deletion timestamp, removal; `phase` is `spec.phase`, `state` is `status.state` |
| `machine`, `machineCache` | Machine: `running` is the update-task annotation, `upToDate` the `MachineUpToDate` condition with its reason, `health` what the preflight check reads |
| `nodeTask` | the provider's objects: owner reference, `machineName`, `phase`, `status.state` |
| `before`, `obj` | the task as read (the patch helper's base) and the copy the pass changes |
| `machines`, `nodes` | `scope.UpdateMachines`, `scope.NodeUpdateTasks` |
| `dockerCache`, `dockerQueue`, `docker` | the provider's informer and work queue; where its single worker is (`Idle`, `Exec`, `Sleep`), with the copy of its pass |
| `hook` | where each call of the hook is, and what its loops have left |
| `result`, `lost` | history, by task and machine: what `ExecContainer` returned last (an error may mean that no command ran at all), and how often that was not stored; `MaxLost` bounds the latter |
| `misled` | history: the pairs of task and machine that a trailing cache let the manager misjudge; no action reads it |
| `queue`, `pc`, `cur`, `todo`, `toAbort`, `retry` | the work queue; where the single worker is, and what its loops have left |

Actions and code, in the order of a pass:

| Action | Code |
|---|---|
| `ReconcileMissing`, `ReconcileFinalizer`, `OpenScope`, `ScopeError` | the head of `Reconcile`: not found; add the finalizer and requeue; `scopes.New`, and its error |
| `PatchMachine` | one round of the loop in `reconcileStatus`: the helper reads the machine from the cache once more, merges the condition three ways, and patches with an optimistic lock; a conflict or an error is only logged |
| `ReportState` | the summary (`Aborted`, `Updated` or `InProgress`) and the branch that follows |
| `AbortNodeTask`, `AbortDone` | `reconcileAbort` |
| `NormalBlocked`, `NormalPreflightFails`, `NormalNothingToDo`, `CreateNodeTask` | the exits of `reconcileNormal` |
| `PatchMeta`, `PatchStatus` | the deferred function: the finalizer of a terminated task is dropped, `helper.Patch` writes metadata and then status, and the task is queued again unless it is terminated and nothing failed |
| `ListTasks`, `AbortOlder` | the head of the hook: cluster and tasks are read, tasks in progress are aborted |
| `ListMachines`, `RemoveCondition`, `Annotate` | its loop; the patch helper removes the condition in one call and sets the annotation in another |
| `AfterPatch` | `if err != patchHelper.Patch(...)`, line 122 |
| `CreateUpdateTask`, `CallFails` | policy and creation; every other way out |
| `NothingToRun`, `StartCommand` | the provider's pass from the queue: not found, machine read from the cache, aborted or ended already; or the command starts |
| `EndCommand` | `ExecContainer` returns; an error sets `Failed` in the copy and the pass goes on |
| `StoreUpdated` | after the ten seconds: `Updated`, the deferred patch, its error only logged |
| `SyncNodeTasks`, `ResyncNodeTasks`, `RestartDocker` | the provider's informer, sync period, manager restart |
| `SyncMachines`, `SyncTasks`, `Resync`, `Restart` | informers, each on its own and up to the present state of the server; sync period, manager restart |
| `ClusterState!Environment` | `UpdateHook`: the writes of the hook, loosely; `Surroundings`: user, Cluster API, garbage collector; `ReportProgress`: a provider |

A pass is cut exactly where it touches the server. What it computes between two
calls from its own copies is one step. `CreateNodeTask` covers success, failure,
and success whose answer is lost (the pass ends the same way and forgets it). A pass
of the provider that returns an error is tried again and changes nothing; it is a
stuttering step.

`machine` and node update task numbers stand for creation time. Ties of creation
timestamps are not modelled; they are harmless as long as `OneNodeTaskPerMachine`
holds (node updates) or only make the order of machines arbitrary.

## 3. Runs

| Run | Question | Instance |
|---|---|---|
| `rollout` | does one roll-out over a control plane keep the safety properties, does its outcome stand, and does it implement `RollingUpdate`? | hook done, 2 machines, 1 disturbance, 2 faults |
| `stale_caches` | does a call of the hook do nothing the controller does not expect, and annotate its whole scope before it creates the task? Do the promises of the roll-out hold of annotations that reach a pass in part or not at all, and of a machine that joins? | 1 call, 1 machine and another that may join, 1 disturbance, 1 fault, 1 failing request of the hook |
| `progress` | does every task end, when stopped, deleted, or left alone? | fair, 2 machines, 1 disturbance |
| `abort_delivery` | does the abort of a stopped task reach its node updates, though calls fail and nobody helps? | only the manager is fair, 1 machine, 2 disturbances, 1 fault |
| `hook_takeover` | do two calls do nothing the controller does not expect, and stop the older task? Is each task's report true when one loses its machine to the other? | 2 calls, 1 machine, 2 node updates; the only abort is the hook's own; symmetric in the tasks |
| `docker_rollout` | does the real provider keep to the contract, and was the command tried wherever the task says `Updated`? | hook done, 2 machines, 1 fault or restart, 1 lost patch per machine |
| `docker_progress` | does a roll-out end with nothing assumed of node updates, and is no new command started once its task has ended? Does an abort, a deletion or a lost machine in the middle of a pass of the provider break the contract? | hook done, fair, 1 machine, 1 disturbance, 1 lost patch |
| `remediation` | does a task go on once its failed machine is replaced? **No** | fair |
| `condition_lost` | does `Updated` imply `MachineUpToDate` on every machine in scope? **No** | fair, one machine, no disturbance, no fault |
| `hook_success` | does Success imply a task? **No** | 1 failing call |
| `docker_failure` | does a failed command block the roll-out? **No** | 2 machines, no disturbance, no fault |
| `docker_abort` | does an aborted node update end? **No** | fair, 1 disturbance |

Bounds. `MaxChurn` counts aborts and deletions by a user, machines joining, going or
getting sick, and node updates collected before the manager has heard that their task is
gone; `MaxFaults` counts failed calls and restarts, `MaxBroken` those of the hook,
`MaxLost` the patches the provider loses for one task on one machine; the cardinalities
of `Tasks`, `Machines` and `NodeTasks` bound the rest. Caches hold the last delivered
state of all objects of a kind, so their lag is unbounded and costs no bound. Two
machines are the least that show a roll-out (a second node update, an order, a failure
with something left to stop); as many node update tasks as machines would hide a
duplicate only if no slot were free, and the slot is free exactly when a duplicate could
arise: after the first creation the second machine's slot is empty, which is what the
mutants of `OneNodeTaskPerMachine` and `SerialUpdate` use. Two faults are a lost create
followed by a restart or a failed patch. In `hook_takeover` and `docker_progress` one
machine is enough for what they ask (two calls contend for one machine; a pass races an
abort or the removal of its machine), and the theorems of `InplaceProofs` and
`DockerProofs` have the same safety properties for any number of machines and failures.
`TaskSymmetry` is sound there: all properties of that run are safety properties, and
tasks and calls begin alike. What these instances cannot show, sizes, is what the
theorems are for.

`AnnotatedInit` starts a run after the hook annotated every machine and before it
created the task, a state the program reaches by `AnnotateMachine` and `SyncMachines`;
it saves the interleavings of the annotations. `stale_caches` and `hook_takeover` explore
those with the real hook, from `InplaceInit`.

Caches. Nothing in the code bounds how far an informer trails, or orders one after
another, and nothing in the model does. Three promises are then not kept in full, and
that is so of the code: a pass that sees a task but not yet the annotation of one of its
machines counts that machine out, and may say `Updated` too early
(`updatetask_controller.go:338`); and node updates that are collected before the manager
has heard that their task is gone make their machines look as if they had not been
updated. `misled` records exactly these pairs of task and machine when it happens
(`ReportState`, `CollectNodeTask`), and `UpdatedIsHonest`, `FinalizerGuards`,
`OutcomeStands`, `RollingUpdate` (where the machines are called `missed`) and the safety
properties of `DockerUpdater` except those pairs and no others. Without the exception
TLC violates the first three in `stale_caches`; without a lagging cache `misled` stays
empty. `StopIsDelivered` excepts them too, once the task has ended. All other safety
properties hold with no exception.

Fairness. `ManagerFairness`: client-go's queue is first in, first out, so a queued
task is not overtaken for ever even though other events may remove it from the head in
between (`SF` of `StartPass` for each task); the worker and informers do not stop
(`WF`). `Fairness` adds what concerns others: a provider ends a node update it was
given, Cluster API removes a deleted machine and a sick machine recovers. The last is
needed because the preflight check waits for it; without it `UpdateCompletes` would
fail for a good reason. `abort_delivery` uses none of these. `DockerFairness` has no
assumption about node updates: they end because the provider's worker takes what stays
queued (`SF` per node update task, as above), its commands return, its informer
delivers, and the resync period passes; without the resync `RollsThrough` fails after
one lost patch, as its mutant shows. The environment owes nothing else: no one must
abort, create or delete. Failed calls are bounded by `MaxFaults`.

`RollsThrough` and `StopsUnlessStranded` state the exception `StrandedWithCause`. A node
update is `Stranded` when no pass has it in hand and the provider knows that it is
aborted, which line 101 skips, or that its machine is gone, which line 83 fails at: then
it never ends, and neither does its task. It comes to that in one of two ways: the
command was never tried, or its result was lost. The second is less obvious than the
first, which `docker_abort` shows: the command runs, the abort arrives, and the patch
that should have stored `Updated` fails (line 77); the repeated pass finds the phase
`Abort`. An abort that comes while the command runs, or during the sleep, strands
nothing as long as the patch succeeds, and that is what the two properties check. A call
of `ExecContainer` that returns an error counts as tried: it can mean that no command
ran at all, but line 120 stores `Updated` all the same.

## 4. What is proved

`UpdateTaskProofs` proves, from `ClusterAssumption` and `ControllerAssumption` only
(naturals as names, `NoTask` not a task, Booleans), and with no bound on the lag of the
caches, on tasks, machines, node updates, churn or faults:

| Theorem | Statement |
|---|---|
| `TypeCorrect` | `Spec => []TypeOk` |
| `OneNodeTaskPerMachineHolds` | no machine gets a second node update from a task |
| `SerialUpdateHolds` | at most one node update of a task runs |
| `AbortedIsQuietHolds` | an aborted task has nothing running on an existing machine |
| `RolloutStopsAtFailureHolds` | a node update starts only when all earlier ones are `Updated` |
| `NoLostTaskHolds` | an unfinished task that the cache shows is queued or at work |

None of these is inductive. The invariant `IInv` adds:

* `ScopeOk`: while a pass uses its copies, they still cover every node update task
  of its task, and the terminal states in them are still true. It holds because one
  worker is the only creator, the listing is live, and a provider never leaves a
  terminal state. From it the listing decides creation correctly although it is
  old: this carries the first two theorems and the last.
* `CachesOk` and `WorkerOk`: caches and copies are old but true of what cannot be
  undone. A task once stopping stays so; a machine once known stays known or gone.
* `NodeTasksOk`: a node update names a machine the manager has heard of, and has
  phase `Abort` only when its task is known to be stopped.
* `AbortedOk`: `Aborted` in the server, the cache or the copy of the running pass
  means the manager knows the task is being stopped, so no later pass takes the
  normal branch. Lemma `AbortedDecision` is the heart: a pass that computes
  `Aborted` counted node updates over *cached* machines, and every one it did not
  count belongs to a machine that is gone.

`NoLostTaskHolds` adds `QueueInv`: a task the cache shows unfinished is queued, at work,
or differs from the server, so that the event to come queues it; and a change that comes
while a pass works on the task queues it too. The work is in the last step of a pass,
which may drop the task only if it was terminated before or the cache is now behind.

`InplaceProofs` proves, with `HandlerAssumption` added and for any number of calls:

| Theorem | Statement |
|---|---|
| `Refinement` | `InplaceSpec => KeepsToEnvironment`, that is `UpdateTaskController!Spec` |
| `InplaceSafety` | hook and controller together keep `SerialUpdate`, `OneNodeTaskPerMachine`, `AbortedIsQuiet` and `NoLostTask` |
| `InplaceRollout` | and `RolloutStopsAtFailure`, `AbortedStands` and `ImplementsRollout` |
| `InplaceReports` | and `UpdatedIsHonest`, `FinalizerGuards` and `OutcomeStands` |
| `InplaceTypeCorrect` | `InplaceSpec => []InplaceTypeOk` |
| `CreatedWithWholeScopeHolds` | a task comes into being only when every listed machine has its name, or lost it to another call, or is gone |
| `CreatedAfterAbortsHolds` | a task comes into being only when every older one found in progress was told to stop |

The refinement mapping is the identity on the controller's variables and hides the
hook's. It needs `NamesFresh`: until a call ends, its task does not exist. Random names
give this at the start of a call; only the call itself creates the task, and that ends
it. Each step of a call then is one write of `UpdateHook` or a stutter (a read, a
removal of a condition that is not there, a failed call).

The two last rest on `CallsOk`: what a call has struck off its lists is done in the
server and stays done, since aborts are not taken back, machines do not come back, and
only calls that have begun change annotations; and the only step that creates a task
(`CreationStep`) has both lists empty.

Further modules add to `IInv` what each of their theorems needs:

| Theorem | Module | Statement |
|---|---|---|
| `UpdatedIsHonestHolds` | `HonestProofs` | `Updated` covers every annotated machine that is not in `misled` |
| `FinalizerGuardsHolds` | `FinalizerProofs` | a task that is gone has nothing running on an existing machine that is not in `misled` |
| `AbortedStandsHolds` | `OutcomeProofs` | `Aborted` is the last a task says |
| `OutcomeStandsHolds` | `OutcomeProofs` | `Updated` stands as well, unless the task is stopped after all, or has a machine in `misled` |
| `RollingIsSound` | `RollingProofs`, of `RollingUpdate` | a roll-out is serial, quiet once it says `Aborted` and once it is over, and complete once it says `Updated`, but for the machines it missed |
| `RolloutRefinement` | `RolloutProofs` | `Spec => ImplementsRollout`: every step is one that `RollingUpdate` allows, for each task |

* `HonestInv`: what does not exist yet is blank everywhere (`BlankOk`); as long as its
  task exists a pass can rely on what it listed (`ListingStands`); and whoever says
  `Updated`, server, cache or copy, has an `Updated` node update for each annotated
  machine or has it in `misled` (`HonestOk`). The case that matters is `ReportState`: each
  annotated machine was either in the listing, and then counted, or is added to `misled`
  by that very step.
* `FinalizerInv`: a task without finalizer, and one that says `Updated`, was never opened
  or is settled (`SettledOk`): nothing of it runs (`Kept`), and neither the cache
  (`Covered`) nor the copies of a pass (`PassCovered`) have a machine left for which
  something could be started, except for `misled`. `ReleaseOk` says when a finalizer goes,
  `KnownOk` that a pass knows of no removal that the cache does not.
* `RolloutInv`: once `Aborted` was said, the machines of unfinished node updates are
  gone for cache and copies too (`FirmOk`), so no later pass says `InProgress` or
  `Updated` again (`ObjOk`).
* `OutcomeInv`: a terminated task is reconciled again, on an event, a resync or after a
  failed patch, and computes its state from scratch. Once `Updated` was said with no
  machine in `misled`, every node update of the task is `Updated`, or its machine is gone
  for cache and copies too (`DoneOk`), and by `FinalizerInv` none is added; so such a pass
  (`UpdatedAgain`) finds `Updated` again, or finds nothing in progress and says `Aborted`
  because it read that the task is to stop (`StandsOk`). That whoever says `Aborted` has
  read a task to stop, and that every later pass reads so too, is `AbortedOk`.

`RolloutRefinement` uses all of these: that `RollingUpdate` forbids any report after
`Aborted` is `ObjOk`; what `Updated` means is `HonestInv`, and its staying so is
`OutcomeInv`. It adds `KnownScope`: a machine that has a node update carries the
annotation in the manager's cache too, so that a machine is missed only before its
update has started. By lemma `KeptIsQuiet` a task that goes away leaves nothing running
but on machines that are gone or were missed. `RollingIsSound` shows that the abstract
specification says something: what it allows satisfies in its own terms what the
properties say of the controller. One of its invariants explains a guard: machines are
annotated when they are there, since one that came later would make a reported `Updated`
false.

`DockerProofs` proves of both controllers together, with `DockerAssumption` added:

| Theorem | Statement |
|---|---|
| `DockerTypeCorrect` | objects, caches, queues and copies of both stay well formed |
| `ProviderKeepsToContract` | every step is one of `UpdateTaskController`, or stutters |
| `DockerSafety` | so roll-outs are serial, touch no machine twice, are quiet once aborted, and are never lost |
| `DockerRollout` | and keep `RolloutStopsAtFailure`, `AbortedStands` and `ImplementsRollout` |
| `DockerOutcome` | and `UpdatedIsHonest`, `FinalizerGuards` and `OutcomeStands` |
| `UpdatedMeansTriedHolds` | `Updated` means that the command was tried on every machine of the task but those in `misled` |
| `NoNewCommandAfterEndHolds` | a command that runs for a task that has ended only repeats one, but on a machine that is gone or in `misled` |

The contract is kept for a reason one would not guess: the provider stores `Updated`
over whatever is there, which would overrule another outcome if it ever stored one. It
never does (`StoresOnlyUpdated`); mended to report failures it would have to look first.
`TriedInv` says of a node update, in the server (`StoredOk`), in the provider's cache
(`CachedOk`) and in the copy of a pass (`PassOk`), that a command that runs for it is
`Harmless`: once its task has ended, it was tried before, or its machine is gone or in
`misled`. What `Updated` stands for in the server was tried, and a pass that sleeps has
tried. `Same` ties a copy, however old, to the node update it was read from, whose task
and machine stay what they are until its task is gone. With that a task ends only when
each of its node updates was tried, or sits on a machine that is gone or in `misled`
(`AbortedOk`, `HonestInv` and `FinalizerInv` of the controller); so the command of an old
copy, which may well run after the end, is not a new one.

Only model-checked: the liveness properties (`StopCompletes`, `DeletionCompletes`,
`UpdateCompletes`, `StopIsDelivered`, `RollsThrough`, `StopsUnlessStranded`), since
liveness under fairness and `ENABLED` are out of the prover's reach. Every other
property of the passing runs, invariant, action property or refinement, is also a theorem
of the specification it is checked of. `AbortedStands` is a theorem only: in the runs it
is part of `ImplementsRollout`.

## 5. Where the repository and the code disagree

* `hook_success`: line 122 of `handlers.go` compares the result of a patch with a nil
  `err` and wraps the latter. A failed patch therefore ends the call with `Success`,
  some machines annotated, and no task. The end-to-end test takes Success for an
  accepted update and expects one task.
* `remediation`: `reconcileNormal` says a task "will continue once failed machine
  get remediated"; a `Failed` node update task outlives its machine and blocks the
  task until it is deleted.
* `condition_lost`: `reconcileStatus` only logs a failed condition patch, and an
  `Updated` task never opens its scope again. In the run nothing fails: the pass reads
  a cached machine that still shows the condition before its own last patch, so the
  three-way patch conflicts, and a machine of a completed task keeps
  `MachineUpToDate = False`. The end-to-end test expects it `True`.

* `docker_failure`: an error of `ExecContainer`, of a command that failed or could not be
  run in the first place, sets `Failed` in the copy of the pass
  (`dockernodeupdatetask_controller.go:110`), the return is commented out, and line 120
  overwrites it with `Updated`. The roll-out goes on to the next machine, where
  `reconcileNormal` says that a failed node update blocks it.
* `docker_abort`: a node update whose phase is `Abort` fails the condition of line 101
  and nothing else looks at the phase, so it never reports `Aborted`. The UpdateTask
  counts it as `aborting` (`updatetask_controller.go:333`) and waits for ever.

## 6. Not modelled, and why

* The UpdateTask's own conditions, its counters and messages: derived from the same
  copies, no step depends on them.
* The Cluster object `scopes.New` needs, and the selection of machines by label:
  a scope that cannot be built is `ScopeError`. That a deleted Cluster keeps a
  deleted task's finalizer for ever is listed as a hazard; a model would add the
  object only to show that nothing follows.
* A node update task with a missing `machineName` or `phase`.
* The fake provider's types (there is no controller for them in `src/`), and providers
  outside the repository: for them `ReportProgress` stands, the contract they must keep.
* The single conditions of a machine in the preflight check: they are abstracted to its
  health, and `PreflightOk` is the check over cached machines. The comment lists
  conditions of the control plane itself that the code does not read.
* A machine without any annotation, on which the hook would write to a nil map, and
  what a call does before its first read (nil references in the request).
* That node updates of two tasks do not overlap: the code does not promise it. The
  hook aborts older tasks that are in progress without awaiting their end, and leaves
  those alone that have no state yet.
* Hooks that only log; flags, TLS, health endpoints; generated deep copies;
  manifests, test code.

## 7. Plan

Done: `ClusterState`, `UpdateTaskController` and its properties; the hook and its
composition; the abstract roll-out and its refinement; the provider and its
composition; the theorems of section 4.

Left, in this order:

1. Hook, controller and provider in one composition. The two existing ones replace
   disjoint parts of `ClusterState`'s environment, so that the safety theorems carry
   over; liveness of the whole is what is to be gained.
2. The Cluster object and its deletion (`updatetask_scope.go:32`), for
   `DeletionCompletes`.
3. The conditions and counters of an UpdateTask, as a pure definition against a
   reference over bounded inputs.
4. Liveness with failed calls (`MaxFaults` above 0) on two machines.
