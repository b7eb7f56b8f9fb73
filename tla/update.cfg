SPECIFICATION FairSpec
CONSTANTS
  u1 = u1
  u2 = u2
  u3 = u3
  Calls = {u1, u2, u3}
  Shipped = Shipped
  Absent = Absent
  MaxKills = 1
CHECK_DEADLOCK FALSE
INVARIANTS
  TypeOK
  OneAtATime
  ABinarySurvives
  AppliedIsNextToRun
PROPERTIES
  SparesSeenSessions
  UpdatesReturn
