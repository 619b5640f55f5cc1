\* Turns, background passes and the compact button next to each other, with L0
\* below its archive watermark: only folds write the row.
SPECIFICATION FairSpec
CONSTANTS
  MaxRounds = 7
  AsyncHi = 3
  SyncHi = 4
  L0Cap = 9
  MinFold = 2
  MaxFold = 3
  MaxPasses = 3
  MaxFaults = 1
  Others = {"manual", "restart"}
PROPERTIES PassNeverRewinds PassEnds
CHECK_DEADLOCK FALSE
