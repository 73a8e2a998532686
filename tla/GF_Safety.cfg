CONSTANTS
  NONE = NONE
  Admin = {p1, p2}
  Override = {o1, o2, o3}
  Threshold = 2
  MaxAge = 3
SPECIFICATION FairSpec
INVARIANTS
  AlarmMatchesRate
  OverrideAsLogged
PROPERTIES
  OutageAlarmed
