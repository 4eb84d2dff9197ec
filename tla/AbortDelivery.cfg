SPECIFICATION FairManagerSpec
CONSTANTS
  t1 = t1
  Tasks = {t1}
  NoTask = NoTask
  Machines = {1}
  InitialMachines = {1}
  NodeTasks = {1}
  MaxChurn = 2
  MaxFaults = 1
  KubeadmControlPlane = FALSE
PROPERTY StopIsDelivered
