SPECIFICATION DockerAnnotatedSpec
CONSTANTS
  MaxLost = 0
  t1 = t1
  Tasks = {t1}
  NoTask = NoTask
  Machines = {1, 2}
  InitialMachines = {1, 2}
  NodeTasks = {1, 2}
  MaxChurn = 0
  MaxFaults = 0
  KubeadmControlPlane = FALSE
PROPERTY FailedCommandBlocks
