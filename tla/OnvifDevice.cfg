SPECIFICATION DeviceFairSpec
CONSTANTS
  Ports = {8080, 9090}
  Forms <- MCForms
  Zones <- MCZones
  Times <- MCTimes
INVARIANTS LearntHolds TimeZoneTold
 
CHECK_DEADLOCK FALSE
