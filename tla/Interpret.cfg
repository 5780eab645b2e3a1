SPECIFICATION Spec
CONSTANTS
  LongLongMax = 7
  HalfWord = 4
  DoubleMax = 40
  Precision = 4
  kRegTotal = 2
  MaxRecords = 3
  Schema <- MCSchema
  Records <- MCRecords
  Programs <- MCPrograms
INVARIANTS
  InterpTypeOK
  AssertsHold
  CountsAndIntSumsAreExact
  ExtremesAreExact
CHECK_DEADLOCK FALSE
