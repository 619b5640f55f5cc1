\* The background pass of an earlier turn and the maintenance of a later one.
SPECIFICATION Spec
CONSTANTS
  MaxRounds = 8
  AsyncHi = 3
  SyncHi = 4
  L0Cap = 2
  MinFold = 2
  MaxFold = 2
  MaxPasses = 3
  MaxFaults = 0
  Others = {}
INVARIANT NothingLost
CHECK_DEADLOCK FALSE
