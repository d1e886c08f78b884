SPECIFICATION FairSpec
CONSTANTS
  Procs = {p1, p2}
  Starts <- MCStarts
  Pinnable <- MCPinnable
  Devices <- MCDevices
  Verdicts <- MCVerdicts
  Streamed = 1
  MaxCompiles = 2
  MaxCrashes = 1
  None = None
INVARIANTS TypeOK KeptSound GivesUpAtBottom ReportsShipped TraceExplains
PROPERTY Ends
CHECK_DEADLOCK FALSE
