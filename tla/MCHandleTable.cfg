CONSTANTS
  p1 = p1
  p2 = p2
  p3 = p3
  h1 = h1
  h2 = h2
  Process = {p1, p2, p3}
  Handle = {h1, h2}
  None = None
  Tables = {"hashmap", "database"}
  InitCapacity = 1
  Growth = 1
  MaxCapacity = 3
  MaxReaders = 4
SPECIFICATION Spec
SYMMETRY Symmetry
CHECK_DEADLOCK FALSE
INVARIANTS
  TypeOK
  HeldKept
  IdleExact
  ReadersExact
  ScanCovers
  ArrayStable
