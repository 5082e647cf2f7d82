SPECIFICATION Spec
CONSTANTS
  Ids = {s1}
  Calls = {c1, c2}
  Requests = {r1}
  Slots = {k1, k2}
  NewSlotsPoolSize = 2
  ReusedSlotsPoolSize = 1
  MaxKvFaults = 0
  maxParalellSnapshotting = 1
  MaxRestarts = 1
  DisconnectFails = TRUE
  NoSlot = NoSlot
  NoId = NoId
  NoCall = NoCall
  NoRequest = NoRequest
SYMMETRY Symmetry
CHECK_DEADLOCK FALSE
INVARIANTS TypeOK OneVmPerSlot RecordsLeadHome EndedIsReleased
