SPECIFICATION Spec
CONSTANTS
  MaxPublishes = 2
  QoS2 <- Second
  MaxFaults = 1
INVARIANTS
  StopSurvives
CHECK_DEADLOCK FALSE
