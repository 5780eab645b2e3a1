SPECIFICATION Spec
CONSTANTS
  Columns = {c1}
  Literals <- SmallLiterals
  LongMax = 1
  Ops = {"Minus", "Div"}
  AggTypes = {"Sum"}
  MaxExprs = 4
  MaxAggs = 1
  MaxConstants = 3
INVARIANT
  BuildingReturns
CHECK_DEADLOCK FALSE
