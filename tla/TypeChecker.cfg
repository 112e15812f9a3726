SPECIFICATION Spec
CONSTANTS
  Names <- MCNames
  Kinds = {"int", "float", "bool", "string"}
  Externs <- MCExterns
  Expressions <- MCExpressions
  MaxParams = 1
  MaxSymbols = 2
  MaxLocals = 1
  MaxBlocks = 4
CHECK_DEADLOCK FALSE
INVARIANTS
  OverloadsDistinct
  BestOverload
  ScopesAgree
