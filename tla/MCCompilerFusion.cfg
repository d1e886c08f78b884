CONSTANTS
  P = 3359
  Turn <- TurnC
  IntLimit = 100
  NaN <- NaNC
  PosInf <- PosInfC
  NegInf <- NegInfC
  LoweringPrograms = {}
  MaxFolded = 3
  BufferPrograms <- PartialSums
  Programs = {}
  Args <- ArgsC
  Results <- ResultsC
SPECIFICATION MCSpec
INVARIANT PassesKeepMeaning
CHECK_DEADLOCK FALSE
