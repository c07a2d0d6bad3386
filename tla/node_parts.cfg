INIT Init
NEXT Next
CONSTANTS
  TmpContainers = {1, 2}
  Generations <- MCGenerations
  IdPoolSize = 2
  MaxRecycles = 1
  MaxTmpFaults = 1
  Pods = {"a", "b", "h"}
  StorageType <- MCStorageType
  LoopDevices = {0, 1}
  RequiredSize = 2
  MaxGenerations = 2
  MaxStorageStarts = 4
  NetContainers = {1, 2}
  Hosts = 3
  MaxPids = 5
  MaxNetFaults = 2
  MaxStarts = 3
  Cgroups = {1, 2, 3, 4}
  NodeOptions <- MCNodeOptions
  TargetSizes = {5}
  Usages <- MCUsages
  MaxWriteFaults = 1
  Owners = {1, 2}
  MaxPathNames = 3
  MaxPathFaults = 2
  MaxResets = 3
  MaxRuncFaults = 3
 
 
INVARIANT ResourcesSafe
 
INVARIANT ResetSafe
CHECK_DEADLOCK FALSE
