SPECIFICATION CompSpec
CONSTANTS
  Columns = {c1, c2}
  Literals = {}
  LongMax = 1
  Ops = {"Minus"}
  AggTypes = {"Sum"}
  MaxExprs = 5
  MaxAggs = 2
  MaxConstants = 0
  REGS = 2
SYMMETRY ColumnSymmetry
CONSTRAINT CanStillBeUsed
ACTION_CONSTRAINT OneBuildOrder
INVARIANTS
  CompTypeOK
  LocksAreFrames
  OperandsSurvive
  InstructionsAreSound
  UsesAllCounted
  OnlyMovIsUseless
  ProgramComputesAggregates
  FailsOnlyBeyondEstimate
