SPECIFICATION Spec
CONSTANTS
  a1 = a1
  a2 = a2
  a3 = a3
  a4 = a4
  Addresses <- FourAddresses
  Sizes = {1, 2, 3, 7}
  Alignments = {1, 2}
  MinBytes = 2
  Limits = {0, 6}
  NoRequest = NoRequest
  Untracked = Untracked
SYMMETRY Symmetry
INVARIANTS
  Ownership
  GoodFit
  Bookkeeping
PROPERTIES
  ImplementsAllocator
CHECK_DEADLOCK FALSE
