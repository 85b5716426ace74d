SPECIFICATION GraphqlSpec
CONSTANTS
  Null = Null
  Absent = Absent
  Hole = Hole
  Scenario <- MCDeltaLane
  MaxId = 6
INVARIANT
  PayloadCurrent
CHECK_DEADLOCK FALSE
