SPECIFICATION DockerAnnotatedSpec
CONSTANTS
  MaxLost = 1
  t1 = t1
  Tasks = {t1}
  NoTask = NoTask
  Machines = {1, 2}
  InitialMachines = {1, 2}
  NodeTasks = {1, 2}
  MaxChurn = 0
  MaxFaults = 1
  KubeadmControlPlane = FALSE
INVARIANTS DockerUpdaterTypeOk UpdatedMeansTried
PROPERTY KeepsToContract
