SPECIFICATION CompSpec
CONSTANTS
  Columns = {c1}
  Literals = {1}
  LongMax = 1
  Ops = {"Minus", "Div"}
  AggTypes = {"Sum"}
  MaxExprs = 4
  MaxAggs = 2
  MaxConstants = 2
  REGS = 3
INVARIANTS
  NothingIsRecalculated
  TypeOK
  UsageIsReferenceCount
  NoTwins
  EstRegsIsCheapestOrder
PROPERTIES
  ImplementsPromise
  HandleDenotesRequest
