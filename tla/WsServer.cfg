SPECIFICATION FairSpec
CONSTANTS
  Clients = {c1, c2}
  Requests <- MCRequests
  Supported <- MCSupported
  MaxStarts = 2
INVARIANTS  OwnServerSafe
PROPERTY StopIsHeldOnlyBy
CHECK_DEADLOCK FALSE
