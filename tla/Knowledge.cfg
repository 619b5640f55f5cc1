SPECIFICATION KbFairSpec
CONSTANTS
  Doc = {d1, d2}
  Kb = {k1}
  EModel = {m1}
  DocTask = {t1}
  Rebuilder = {w1}
  Remover = {x1}
  KbCrashes = 1
  KbEdits = 2
INVARIANT RetrievedIsLinked
PROPERTIES KeywordsKept UploadsSettle
CHECK_DEADLOCK FALSE
