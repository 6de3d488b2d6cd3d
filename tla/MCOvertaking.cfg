CONSTANTS
  Tasks = {t1, t2, t3}
  NCores = 2
  MaxPriority = 2
  MAX_PRIORITY_GAP = 1
  MAX_PREEMPT_COUNT = 1
  MaxIndex = 5
SYMMETRY TaskSymmetry
SPECIFICATION Spec
INVARIANTS TypeOK UrgentOvertakenBounded GapRespected RefusalMeansBlocked
CHECK_DEADLOCK FALSE
