SPECIFICATION ServicesSpec
CONSTANTS
  Job = {j1, j2}
  Managed = {j1}
  RunNow = {r1}
  CronMax = 1
  CronRuns = 2
  CronCrashes = 1
  CronEdits = 2
  Model = {m1}
  Worker = {w1, w2}
  FileCount = 2
  DlEpochs = 4
  CacheKb = {b1, b2}
  Instruction = {i1, i2}
  Asker = {a1, a2}
  MaxSize = 2
  CacheEdits = 1
  Channel = {"secret"}
  SbCall = {c1, c2}
  Saver = {s1}
  Slots = 1
  SbSaves = 1
  SbLosses = 1
  SbCrashes = 1
  Folder = {f1, f2}
  SkRequest = {k1, k2}
  SkOps = 5
INVARIANTS
  OneExecution
  ScheduledRunsAgain
  InstalledUnlessCut
  CacheIndexIsExact
  CodeRunsOnce
  SyncRepairs
PROPERTIES
  DueJobsRun
  DownloadSettles
  SandboxSecretReturns
CHECK_DEADLOCK FALSE
