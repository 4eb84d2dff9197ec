--------------------------- MODULE DockerUpdater ---------------------------
(***************************************************************************)
(* The UpdateTask controller with the Docker provider in place of the      *)
(* provider's contract: both controllers run in one manager, which         *)
(* restarts as a whole.                                                    *)
(***************************************************************************)
EXTENDS UpdateTaskProperties, DockerNodeUpdateTask

dockerUpdaterVars == <<vars, dockerVars>>

DockerUpdaterTypeOk == TypeOk /\ DockerTypeOk

DockerUpdaterInit == Init /\ DockerInit

DockerUpdaterNext ==
  \/ Work /\ UNCHANGED dockerVars
  \/ Restart /\ RestartDocker
  \/ (UpdateHook \/ Surroundings) /\ UNCHANGED <<queue, passVars, dockerVars>>
  \/ DockerWork /\ UNCHANGED <<queue, passVars>>

DockerUpdaterSpec == DockerUpdaterInit /\ [][DockerUpdaterNext]_dockerUpdaterVars

-----------------------------------------------------------------------------
(* Safety.                                                                 *)

\* The provider keeps to the contract the controller relies on: a node update
\* never leaves its terminal state, and reports Aborted only when told to.  So
\* every step is one of the controller's specification, and all that holds of it
\* holds with this provider.
KeepsToContract == [][Next]_vars

Tried(t, m) == result[<<t, m>>] # "None"

\* Updated does not mean that a command has run: line 120 stores it whatever
\* ExecContainer returned.  It does mean that the call was made: for every machine
\* that carries the annotation of an Updated task, except those a pass left out,
\* it was made and has returned, although passes start from old copies, are cut
\* short, and lose their patches.
UpdatedMeansTried ==
  \A t \in Tasks, m \in Machines :
    /\ Exists(task[t]) /\ task[t].state = "Updated"
    /\ Exists(machine[m]) /\ machine[m].running = t
    => Tried(t, m) \/ <<t, m>> \in misled

\* A pass may start a command from a copy that shows neither the end of the node
\* update nor that of its task, nor that both are gone.  But a command that runs for
\* a task that has ended only repeats one, except on a machine that is gone, or one
\* that a pass of the UpdateTask controller had left out.
NoNewCommandAfterEnd ==
  docker.at = "Exec" =>
    LET t == docker.task.owner
        m == docker.task.machine
    IN IsTerminated(task[t].state) =>
         Tried(t, m) \/ ~Exists(machine[m]) \/ <<t, m>> \in misled

-----------------------------------------------------------------------------
(* Liveness.  Nothing is assumed of node updates any more; that they end    *)
(* follows from the fairness of the provider's worker and informer, and of  *)
(* the resync that repeats a pass whose patch was lost.                     *)

DockerFairness ==
  /\ ManagerFairness
  /\ \A m \in Machines : WF_vars(RegainHealth(m) /\ UNCHANGED <<queue, passVars>>)
  /\ \A n \in NodeTasks : SF_dockerUpdaterVars(StartCommand(n) /\ UNCHANGED <<queue, passVars>>)
  /\ WF_dockerUpdaterVars(RunCommand /\ UNCHANGED <<queue, passVars>>)
  /\ WF_dockerUpdaterVars(SyncNodeTasks /\ UNCHANGED <<queue, passVars>>)
  /\ WF_dockerUpdaterVars(ResyncNodeTasks /\ UNCHANGED <<queue, passVars>>)

\* A node update that no pass has in hand and none will end: the provider knows that
\* it is aborted, and skips it (line 101), or that its machine is gone, and fails
\* (line 83).
Stranded(n) ==
  /\ Running(n)
  /\ docker.at = "Idle" \/ docker.n # n
  /\ dockerCache[n].owner = nodeTask[n].owner
  /\ dockerCache[n].phase = "Abort" \/ machineCache[nodeTask[n].machine].life = "Gone"

\* It came to that in one of two ways: the call was never made, or its result lost.
StrandedWithCause(t) == \E n \in NodeTasks :
  LET m == nodeTask[n].machine IN
    nodeTask[n].owner = t /\ Stranded(n) /\ (~Tried(t, m) \/ lost[<<t, m>>] > 0)

\* A roll-out ends Updated, whatever the commands return, unless it is stopped, or a
\* machine is removed before its command started or after its result was lost: only
\* then does it stay in progress for ever.
RollsThrough ==
  \A t \in Tasks :
    (task[t].life = "Live") ~>
      \/ task[t].state = "Updated"
      \/ Stopping(task[t]) \/ task[t].life = "Gone"
      \/ StrandedWithCause(t)

\* A stopped task ends, unless the abort reached a node update before its command
\* started or after its result was lost.  One that comes while the command runs, or
\* while the pass sleeps, does not keep the task from ending.
StopsUnlessStranded ==
  \A t \in Tasks :
    (Exists(task[t]) /\ Stopping(task[t])) ~>
      \/ IsTerminated(task[t].state) \/ task[t].life = "Gone"
      \/ StrandedWithCause(t)

-----------------------------------------------------------------------------
(* What the repository says and the code does not do.                      *)

\* "nodeUpdate failed, cluster UpdateTask will get blocked" (the message of
\* reconcileNormal, line 194): no node update is started after a command that
\* failed or could not be run.
FailedCommandBlocks ==
  [][\A n \in NodeTasks :
       nodeTask[n].owner = NoTask /\ nodeTask'[n].owner # NoTask =>
         \A m \in Machines : result[<<nodeTask'[n].owner, m>>] # "Error"]_dockerUpdaterVars

\* "%d updated, %d failed, %d aborted, %d aborting, %d waitForUpdate" (the message of
\* reconcileStatus, line 333): a node update told to abort is aborting, and ends.
AbortIsHonoured ==
  \A n \in NodeTasks :
    (nodeTask[n].owner # NoTask /\ nodeTask[n].phase = "Abort") ~>
      (IsTerminated(nodeTask[n].state) \/ nodeTask[n].owner = NoTask)

=============================================================================
