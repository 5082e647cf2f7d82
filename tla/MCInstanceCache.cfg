SPECIFICATION Spec
CONSTANTS
  Sandboxes = {s1}
  Instances = {i1, i2}
  Vms = {v1, v2}
  Requests = {r1, r2}
  MaxSyncs = 1
  MaxNodeLosses = 0
  MaxVmDeaths = 0
  NoSandbox = NoSandbox
  NoInstance = NoInstance
  NoVm = NoVm
SYMMETRY Symmetry
INVARIANTS
  TypeOK
  EvictorHoldsWhatItChecked
  UsageSettles
  PauseBacked
  SavedOnce
PROPERTIES
  PauseAnswered
  Refinement
