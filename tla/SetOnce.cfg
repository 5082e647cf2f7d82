SPECIFICATION FairSpec
CONSTANTS
  Setters = {s1, s2, s3}
  Waiters = {w1, w2}
  CtxWaiters = {w2}
  Results = {value, error}
  NoResult = NoResult
  Won = Won
  AlreadySet = AlreadySet
  Cancelled = Cancelled
  Pending = Pending
  Nobody = Nobody
INVARIANTS
  TypeOK
  NoNilResult
  WinnersResultKept
  MutexCovers
PROPERTIES
  WaitersReleased
  Refinement
CHECK_DEADLOCK FALSE
