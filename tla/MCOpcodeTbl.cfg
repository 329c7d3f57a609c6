CONSTANTS
  Entries <- MCEntries
SPECIFICATION OpcSpec
INVARIANT RowsMatchLines
PROPERTY ConverterCompletes
CHECK_DEADLOCK FALSE
