SPECIFICATION InplaceSpec
CONSTANTS
  t1 = t1
  t2 = t2
  Tasks = {t1}
  NoTask = NoTask
  Machines = {1, 2}
  InitialMachines = {1}
  NodeTasks = {1, 2}
  MaxChurn = 1
  MaxFaults = 1
  KubeadmControlPlane = FALSE
  MaxBroken = 1
INVARIANTS InplaceTypeOk OneNodeTaskPerMachine SerialUpdate AbortedIsQuiet UpdatedIsHonest FinalizerGuards NoLostTask
PROPERTIES RolloutStopsAtFailure OutcomeStands ImplementsRollout KeepsToEnvironment CreatedWithWholeScope
