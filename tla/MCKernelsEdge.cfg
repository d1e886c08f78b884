CONSTANTS
  P = 3359
  Turn <- TurnC
  IntLimit = 100
  NaN <- NaNC
  PosInf <- PosInfC
  NegInf <- NegInfC
  FFTJobs = {}
  FFTJunk <- FFTJunkC
  ResampleJobs <- EdgeJobs
  NotFinite <- NotFiniteC
  Junk = 1234
  Pi = 22
  Scripts = {}
  Threads = {1, 2}
  Foreign = {}
  IndexMax = 31
SPECIFICATION MCSpec
CHECK_DEADLOCK FALSE
INVARIANT SamplesAgree
