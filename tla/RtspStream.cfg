SPECIFICATION FairSpec
CONSTANTS
  File <- MCFile
  MaxPayload = 4
  Asked <- MCAsked
  MaxReq = 5
  MaxNet = 3
  MaxQueued = 2
INVARIANTS LoopHasTimer PlayingHasLoop
PROPERTIES SilentWhenStopped   
CHECK_DEADLOCK FALSE
