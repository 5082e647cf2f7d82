SPECIFICATION FairSpec
CONSTANTS
  Ids = {s1}
  Calls = {c1}
  Requests = {r1, r2}
  Slots = {k1, k2}
  NewSlotsPoolSize = 2
  ReusedSlotsPoolSize = 1
  MaxKvFaults = 1
  maxParalellSnapshotting = 2
  MaxRestarts = 0
  DisconnectFails = FALSE
  NoSlot = NoSlot
  NoId = NoId
  NoCall = NoCall
  NoRequest = NoRequest
CHECK_DEADLOCK FALSE
INVARIANTS PausedOnce DiskIsFinal PermitsConserved
PROPERTIES EndedIsFreed RequestIsAnswered Refinement
