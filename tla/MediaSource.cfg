SPECIFICATION FairSpec
CONSTANTS
  Payloads <- MCPayloads
  Images <- MCImages
  MaxBuffers = 2
  MaxRefs = 3
  MaxPackets = 2
  MaxCalls = 2
  Limits = {1, 2}
INVARIANTS  FramesInOrder
PROPERTY ReaderReturns
CHECK_DEADLOCK FALSE
