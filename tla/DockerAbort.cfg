SPECIFICATION FairDockerSpec
CONSTANTS
  MaxLost = 0
  t1 = t1
  Tasks = {t1}
  NoTask = NoTask
  Machines = {1}
  InitialMachines = {1}
  NodeTasks = {1}
  MaxChurn = 1
  MaxFaults = 0
  KubeadmControlPlane = FALSE
PROPERTY AbortIsHonoured
