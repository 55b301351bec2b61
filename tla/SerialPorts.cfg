SPECIFICATION FairSpec
CONSTANTS
  Callers = {"c1", "c2"}
  Names = {"a"}
  Protocols = {"line", "length", "raw"}
  Stream <- MCStream
  FieldSize = 2
  Offset = 0
  BigEndian = TRUE
  MaxFrame = 4
  MaxCalls <- MCMaxCalls
INVARIANTS FramesExact 
PROPERTY CallsReturn
CHECK_DEADLOCK FALSE
