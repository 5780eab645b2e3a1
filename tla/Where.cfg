SPECIFICATION Spec
CONSTANT Languages <- MCLanguages
INVARIANTS
  ConditionAsMySQL
  PrintReadsWhatWasBuilt
CHECK_DEADLOCK FALSE
