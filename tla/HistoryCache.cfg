\* Four loads on up to seven sequence numbers, while turns write, are suspended, resumed,
\* fail and die.
SPECIFICATION HistSpec
CONSTANTS
  MaxSeq = 7
  MaxLoads = 4
INVARIANT TailRefreshIsEnough
CHECK_DEADLOCK FALSE
