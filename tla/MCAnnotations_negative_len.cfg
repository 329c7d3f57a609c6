CONSTANTS
  None = None
  PrimSizes <- MCPrimSizes
  MemSize = 4
  StructNamesT <- MCStructNamesT
  FuncDecls = {}
  StructDecls <- MCStructDeclsNeg
  GlobalDecls = {}
  TextDecls = {}
  CallstackDecls = {}
  SegDecls = {}
  MaxCalls = 2
SPECIFICATION Spec
INVARIANT StructsTiled
CHECK_DEADLOCK FALSE
