CONSTANTS
  Handles = {h1, h2, h3}
  NodeCapacity = 5
  Size = 7
  Physical = 1
  Page = 2
  Sizes = {0, 1, 3}
  Aligns = {1, 4}
SYMMETRY HandleSymmetry
SPECIFICATION MCSpec
INVARIANTS TypeOK Consistent ServedIfRoom
PROPERTIES RangesSpec
CHECK_DEADLOCK FALSE
