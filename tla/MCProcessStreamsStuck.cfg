SPECIFICATION FairSpec
CONSTANTS
  StartCall = start
  Connects = {a}
  Kinds = {"pty"}
  outputBufferSize = 1
  MaxOutput = 2
  MaxLeaves = 0
CHECK_DEADLOCK FALSE
PROPERTY OutputIsPassed
