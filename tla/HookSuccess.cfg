SPECIFICATION InplaceSpec
CONSTANTS
  t1 = t1
  t2 = t2
  Tasks = {t1}
  NoTask = NoTask
  Machines = {1, 2}
  InitialMachines = {1, 2}
  NodeTasks = {1}
  MaxChurn = 0
  MaxFaults = 0
  KubeadmControlPlane = FALSE
  MaxBroken = 1
INVARIANT SuccessMeansTask
