SPECIFICATION MCSpec
CONSTANTS
  p1 = p1
  p2 = p2
  r1 = r1
  k1 = k1
  k2 = k2
  Compilers <- TwoCompilers
  Clearers <- OneClearer
  Keys <- TwoKeys
  TextStages <- OneText
  Lookups = {TRUE, FALSE}
  MaxSize = 1
  MaxCompiles = 3
  MaxClears = 2
  MaxCrashes = 1
  MaxAges = 1
  Published = Published
  NoKey = NoKey
INVARIANTS TypeOK LockCurrent SharersSucceed
PROPERTIES PruneBounds SharersEnd
CHECK_DEADLOCK FALSE
