SPECIFICATION FairSpec
CONSTANTS
  MaxPublishes = 2
  QoS2 <- Second
  MaxFaults = 3
INVARIANTS
  SingleChain
  NeverIdle
  KeptAlive
  StaysDown
  
PROPERTIES
  Recovers
  Resubscribes
CHECK_DEADLOCK FALSE
