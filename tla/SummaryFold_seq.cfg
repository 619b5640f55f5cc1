\* One pass at a time and always awaited (AsyncHi = SyncHi), with edits, failures of
\* the archive and restarts between any two steps.
SPECIFICATION Spec
CONSTANTS
  MaxRounds = 10
  AsyncHi = 4
  SyncHi = 4
  L0Cap = 2
  MinFold = 2
  MaxFold = 3
  MaxPasses = 3
  MaxFaults = 3
  Others = {"restart", "edit", "long"}
INVARIANTS NothingLost ViewIsComplete FoldsAreExact
CHECK_DEADLOCK FALSE
