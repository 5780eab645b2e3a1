SPECIFICATION PreparerSpec
CONSTANTS
  Lexemes <- ExpressionLexemes
  LexErrors = {}
  Columns <- TwoColumns
  Literals = {0, 1}
  LongMax = 15
  Ops = {"Add", "Minus", "Mul", "Div", "Rem"}
  AggTypes = {"Sum", "Count"}
  MaxExprs = 5
  MaxAggs = 3
  MaxConstants = 3
  MaxName = 6
  MaxPos = 11
  MaxDepth = 6
INVARIANT
  ParsedAsMySQL
CHECK_DEADLOCK FALSE
