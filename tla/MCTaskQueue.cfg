CONSTANTS
  Tasks = {1, 2, 3, 4, 5, 6}
  NCores = 2
  MaxPriority = 2
  MAX_PRIORITY_GAP = 1
  MAX_PREEMPT_COUNT = 1
  Times = {1, 3}
  INDEX_MOD = 16
  MaxWrites = 6
  Remaining = {0, 2}
SPECIFICATION MCSpec
INVARIANTS TypeOK HeapOrdered ListOrdered CountersExact ScanSelects PlacedOnLeastLoaded
PROPERTIES PoolSpec
CHECK_DEADLOCK FALSE
