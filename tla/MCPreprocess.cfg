\* preprocess() returns or throws: then the behaviour ends.
SPECIFICATION PreprocessSpec
CHECK_DEADLOCK FALSE
CONSTANTS
  SchemaItems <- MCItems
  MaxItems = 4
  Catalog <- MCCatalog
  DateOf <- MCDateOf
  Cells <- MCCells
  Queries <- MCQueries
INVARIANTS
  PredicatesAreOwnedOnce
  StatementMeansQuery
  RefusesExactly
  ConstantsAreFolded
