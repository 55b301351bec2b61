SPECIFICATION FairSpec
CONSTANTS
  Apps = {a1}
  ClientFrames <- ControlFrames
  MaxFrames = 1
  MaxSends = 1
  MaxMessage = 2
  Interval = 1
  Timeout = 2
INVARIANTS
  SingleWriter
  NeverDeaf
  IdleBounded
PROPERTIES
  OutboxSpec
  PingAnswered
  CloseCompletes
CHECK_DEADLOCK FALSE
