SPECIFICATION OptimizerSpec
CONSTANTS
  Values <- MCValues
  GivenPlans <- AllGiven
  Databases <- SomeDatabases
  MaxCalls = 3
  MaxCustom = 1
INVARIANTS
  SingleOwner
  SchemasAreFresh
  NothingIsLost
  SameRows
  FiltersArePushedDown
  ThrowsOnlyIfRefused
PROPERTIES
  OptimizerReturns
\* The client may stop calling.
CHECK_DEADLOCK FALSE
