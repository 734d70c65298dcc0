SPECIFICATION ParserSpec
CONSTANTS
  LiteralOf <- MCLiteralOf
  Offered <- MCOffered
  Completions <- MCCompletions
  AnyBound = 6
  ListBound = 10
  ConditionBound = 14
INVARIANTS
  StacksMatchTheSymbols
  ReadsTheStatement
  RefusesOnlyErrors
