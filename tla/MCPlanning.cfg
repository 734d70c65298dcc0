SPECIFICATION PlanningSpec
CONSTANTS
  Values <- MCValues
  Databases <- MCDatabases
  Statements <- MCStatements
  GivenPlans <- NoGivenPlans
  MaxCalls = 1
  MaxCustom = 0
INVARIANTS
  PlanAnswersStatement
  ReadyToExecute
\* A statement is planned once.
CHECK_DEADLOCK FALSE
