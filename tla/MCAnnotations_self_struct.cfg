CONSTANTS
  None = None
  PrimSizes <- MCPrimSizes
  MemSize = 4
  StructNamesT <- MCStructNamesT
  FuncDecls = {}
  StructDecls <- MCStructDecls
  GlobalDecls = {}
  TextDecls = {}
  CallstackDecls = {}
  SegDecls = {}
  MaxCalls = 2
SPECIFICATION Spec
INVARIANT StructsWellFounded
CHECK_DEADLOCK FALSE
