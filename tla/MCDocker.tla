------------------------------ MODULE MCDocker ------------------------------
(***************************************************************************)
(* Model-checking instances of the controller with the Docker provider.    *)
(***************************************************************************)
EXTENDS DockerUpdater

CONSTANT t1

\* The update hook has annotated every machine with t1 and the informers have
\* delivered it; t1 itself is still to be created.
AnnotatedInit ==
  /\ task = [t \in Tasks |-> AbsentTask]
  /\ machine = [m \in Machines |->
       [life |-> IF m \in InitialMachines THEN "Live" ELSE "Absent",
        running |-> IF m \in InitialMachines THEN t1 ELSE NoTask,
        upToDate |-> "None", health |-> "Healthy"]]
  /\ nodeTask = [n \in NodeTasks |-> NoNodeTask]
  /\ taskCache = task
  /\ machineCache = machine
  /\ misled = {}
  /\ churn = 0
  /\ faults = 0
  /\ PassInit
  /\ DockerInit

DockerAnnotatedSpec == AnnotatedInit /\ [][DockerUpdaterNext]_dockerUpdaterVars

FairDockerSpec == DockerAnnotatedSpec /\ DockerFairness

=============================================================================
