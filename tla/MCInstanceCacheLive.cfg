SPECIFICATION FairSpec
CONSTANTS
  Sandboxes = {s1}
  Instances = {i1}
  Vms = {v1}
  Requests = {r1}
  MaxSyncs = 2
  MaxNodeLosses = 1
  MaxVmDeaths = 1
  NoSandbox = NoSandbox
  NoInstance = NoInstance
  NoVm = NoVm
INVARIANTS
  PauseBacked
PROPERTIES
  ExpiredIsEvicted
  WaiterReleased
