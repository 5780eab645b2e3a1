SPECIFICATION Spec
CONSTANTS
  x = x
  y = y
  Garbage = Garbage
  node = node
  Nodes <- SmallNodes
  Items = {item}
  Sql <- SmallSql
  Cells <- SmallCells
  InitialPageSize = 4
  DefaultPageSize = 4
  Overhead = 1
  TooLarge = 11
  ItemsPerPage = 2
  InitialCapacity = 1
  MaxTexts = 4
  MaxLen = 5
  MaxItems = 3
CONSTRAINT FewPages
INVARIANTS
  TextsSurvive
  ArraysSurvive
  HasItemIsExact
PROPERTY ItemsNeverMove
CHECK_DEADLOCK FALSE
