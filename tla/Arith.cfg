SPECIFICATION MachineSpec
CONSTANTS
  LongLongMax = 7
  HalfWord = 4
  DoubleMax = 20
  Precision = 4
INVARIANTS
  RegTypeOK
  PlusIsExact
  MulIsExact
  RepresentableIsStored
CHECK_DEADLOCK FALSE
