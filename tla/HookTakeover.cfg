SPECIFICATION InplaceSpec
CONSTANTS
  t1 = t1
  t2 = t2
  Tasks = {t1, t2}
  NoTask = NoTask
  Machines = {1}
  InitialMachines = {1}
  NodeTasks = {1, 2}
  MaxChurn = 0
  MaxFaults = 0
  KubeadmControlPlane = FALSE
  MaxBroken = 0
INVARIANTS AbortedIsQuiet UpdatedIsHonest
PROPERTIES KeepsToEnvironment CreatedAfterAborts
SYMMETRY TaskSymmetry
