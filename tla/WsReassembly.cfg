SPECIFICATION Spec
CONSTANTS
  Apps = {}
  ClientFrames <- AllFrames
  MaxFrames = 3
  MaxSends = 0
  MaxMessage = 2
  Interval = 1
  Timeout = 2
INVARIANTS
  ReassemblyExact
CHECK_DEADLOCK FALSE
