SPECIFICATION ExecutorSpec
CONSTANTS
  Values <- MCValues
  Plans <- AllPlans
  Databases <- AllDatabases
  MaxRuns = 2
INVARIANTS
  ResultIsTheAnswer
PROPERTIES
  ExecuteReturns
\* The caller may stop after its last execution.
CHECK_DEADLOCK FALSE
