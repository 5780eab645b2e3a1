SPECIFICATION DiagSpec
CONSTANTS
  Texts <- MCTexts
  Dictionary <- MCDictionary
  Implemented <- MCImplemented
  Defined <- MCDefined
  MaxKeyword = 2
  MaxName = 3
  IntMax = 15
  LongMax = 127
INVARIANTS
  SearchIsExact
  DecodesUTF8
  TokenIsItsText
  KeywordsAreNoNames
  ReportsWithoutAssert
  ErrorIsUnderlined
CHECK_DEADLOCK FALSE
