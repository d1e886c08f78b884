SPECIFICATION Spec
CONSTANTS
  t1 = t1
  t2 = t2
  t3 = t3
  n1 = n1
  n2 = n2
  n3 = n3
  Threads <- ThreeThreads
  Sizes <- ThreeSizes
  Limits = {0, 1, 2}
  MaxBuilds = 4
  None = None
SYMMETRY Symmetry
INVARIANTS
  Coherent
  RightPlan
  LeastRecentEvicted
PROPERTIES
  OneCopy
CHECK_DEADLOCK FALSE
