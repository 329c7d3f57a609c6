CONSTANTS
  Tables <- MCTables
  Before <- MCBefore
  HasUnderscore <- MCHasUnderscore
  Mneumonic <- MCMneumonic
SPECIFICATION EncSpec
INVARIANTS
  EnumsDeclareUsedNames
CHECK_DEADLOCK FALSE
