\* Two tabs start, join, attach to and leave two runs; the conversation may be
\* deleted, and a cancelled producer may be parked.
SPECIFICATION FairSpec
CONSTANTS
  Client = {c1, c2}
  MaxRuns = 2
  MaxLines = 2
  Deletes = TRUE
INVARIANTS ShownAsEmitted OneProducer
PROPERTY SubscribersAreReleased
CHECK_DEADLOCK FALSE
