CONSTANTS
  P = 3359
  Turn <- TurnC
  IntLimit = 100
  NaN <- NaNC
  PosInf <- PosInfC
  NegInf <- NegInfC
  LoweringPrograms <- LoweringProgramsC
  MaxFolded = 3
  BufferPrograms <- BufferProgramsC
  Programs <- SchedulesC
  Args <- ArgsC
  Results <- ResultsC
SPECIFICATION MCSpec
INVARIANTS
  StaysVerified RewritesKeepMeaning LoopsAgree
  PassesKeepMeaning PortsWrittenOnce
  MeaningKept LegalIsSimple RunsAsWritten
PROPERTY SchedulesEnd
CHECK_DEADLOCK FALSE
