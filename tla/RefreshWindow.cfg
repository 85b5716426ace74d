SPECIFICATION Spec
CONSTANTS
  Null = Null
  Absent = Absent
  Scenario <- MCFirst
  MaxId = 6
INVARIANT
  WindowShowsAnswer
CHECK_DEADLOCK FALSE
