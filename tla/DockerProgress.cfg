SPECIFICATION FairDockerSpec
CONSTANTS
  MaxLost = 1
  t1 = t1
  Tasks = {t1}
  NoTask = NoTask
  Machines = {1}
  InitialMachines = {1}
  NodeTasks = {1}
  MaxChurn = 1
  MaxFaults = 0
  KubeadmControlPlane = FALSE
INVARIANT NoNewCommandAfterEnd
PROPERTIES KeepsToContract RollsThrough StopsUnlessStranded
