SPECIFICATION AnsweringSpec
CONSTANTS
  Skill = {s1, s2}
  Quotas <- MCQuotas
  Piles <- MCPiles
  Windows = {0, 2, 3, 5, 8, 11}
  PrefixCosts = {1, 3}
  SchemaCosts = {0, 1}
  Query = 1
  MaxSeq = 7
  MaxLoads = 4
INVARIANTS
  HistoryInOrder
  RefreshMissesNothing
  RoundsWithinQuota
  FittedOrHopeless
  DropsInOrder
PROPERTY
  RunsEnd
CHECK_DEADLOCK FALSE
