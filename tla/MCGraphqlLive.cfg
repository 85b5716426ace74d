SPECIFICATION GraphqlSpec
CONSTANTS
  Null = Null
  Absent = Absent
  Hole = Hole
  Scenario <- MCGraphqlScenario
  MaxId = 6
INVARIANTS
  TypeOK
  AnswersCurrent
  WindowDeep
  GroupsCurrent
  BatchCurrent
  GraphqlCurrent
CHECK_DEADLOCK FALSE
