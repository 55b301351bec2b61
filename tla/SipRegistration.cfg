SPECIFICATION FairSpec
CONSTANTS
  Restarts = 1
  CSeqs = 2
  MaxDue = 2
  Manual = TRUE
INVARIANTS
  KeepaliveArmed
  StoppedIsQuiet
  ManagerNotAhead
PROPERTIES
  KeepsRegistering
  StopHeldOnlyByCallback
CHECK_DEADLOCK FALSE
