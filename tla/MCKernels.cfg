CONSTANTS
  P = 3359
  Turn <- TurnC
  IntLimit = 100
  NaN <- NaNC
  PosInf <- PosInfC
  NegInf <- NegInfC
  FFTJobs <- FFTJobsC
  FFTJunk <- FFTJunkC
  ResampleJobs <- ResampleJobsC
  NotFinite <- NotFiniteC
  Junk = 1234
  Pi = 22
  Scripts <- Launches
  Threads = {1, 2}
  Foreign <- Outside
  IndexMax = 31
SPECIFICATION MCSpec
INVARIANTS
  BackendsAgree StagesAreAChain
  DisplacementSound SamplesAgree
  RaisesOwnFirstError VerifiedOpsAccepted AddressesFit
CHECK_DEADLOCK FALSE
