\* Four turns compete for one to three slots.
SPECIFICATION FairSpec
CONSTANTS
  Task = {t1, t2, t3, t4}
  Limits = {1, 2, 3}
  DefaultMax = 3
INVARIANTS SlotConservation QueueIsHonest
PROPERTIES NoOvertaking ImplementsLivePool
