SPECIFICATION FairAnnotatedSpec
CONSTANTS
  t1 = t1
  Tasks = {t1}
  NoTask = NoTask
  Machines = {1}
  InitialMachines = {1}
  NodeTasks = {1}
  MaxChurn = 0
  MaxFaults = 0
  KubeadmControlPlane = FALSE
PROPERTY UpdatedMeansUpToDate
