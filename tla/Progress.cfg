SPECIFICATION FairAnnotatedSpec
CONSTANTS
  t1 = t1
  Tasks = {t1}
  NoTask = NoTask
  Machines = {1, 2}
  InitialMachines = {1, 2}
  NodeTasks = {1, 2}
  MaxChurn = 1
  MaxFaults = 0
  KubeadmControlPlane = TRUE
PROPERTIES StopCompletes DeletionCompletes UpdateCompletes
