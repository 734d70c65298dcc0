SPECIFICATION Spec
CONSTANTS
  Values <- MCValues
  Plans <- AllPlans
  Databases <- AllDatabases
INVARIANTS
  GuardedGetNext
  Aligned
  TreeInv
PROPERTIES
  EveryOperatorIsACursor
  ImplementsCursor
  CloseReachesEveryScan
