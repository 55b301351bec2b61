SPECIFICATION Spec
CONSTANTS
  Apps = {a1}
  ClientFrames <- ControlFrames
  MaxFrames = 1
  MaxSends = 0
  MaxMessage = 2
  Interval = 1
  Timeout = 2
INVARIANTS
  CloseHandlerOnce

CHECK_DEADLOCK FALSE
