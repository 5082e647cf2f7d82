SPECIFICATION FairSpec
CONSTANTS
  StartCall = start
  Connects = {a}
  Kinds = {"pipe", "pty", "init"}
  outputBufferSize = 1
  MaxOutput = 2
  MaxLeaves = 1
CHECK_DEADLOCK FALSE
INVARIANTS TypeOK NothingSkipped EndIsLast
PROPERTY EndedIsReported
