CONSTANTS
  None = None
  PrimSizes <- MCPrimSizes
  MemSize = 4
  StructNamesT <- MCStructNamesT
  FuncDecls = {}
  StructDecls = {}
  GlobalDecls <- MCGlobalDecls
  TextDecls = {}
  CallstackDecls = {}
  SegDecls = {}
  MaxCalls = 3
SPECIFICATION Spec
INVARIANT LoadedIsValidated
CHECK_DEADLOCK FALSE
