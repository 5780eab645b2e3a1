SPECIFICATION PreparerSpec
CONSTANTS
  Lexemes <- StatementLexemes
  LexErrors <- AllErrors
  Columns <- TwoColumns
  Literals = {0, 1}
  LongMax = 1
  Ops = {"Add", "Minus", "Mul", "Div", "Rem"}
  AggTypes = {"Sum", "Count"}
  MaxExprs = 5
  MaxAggs = 3
  MaxConstants = 3
  MaxName = 6
  MaxPos = 11
  MaxDepth = 6
CONSTRAINTS
  CanStillBeClosed
  OneFunctionOfExpressions
INVARIANTS
  PreparerTypeOK
  SyntaxErrorIsLocated
  PrecedenceAsMySQL
  PrintFindsAggregates
  OneIndexPerColumn
CHECK_DEADLOCK FALSE
