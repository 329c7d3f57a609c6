CONSTANTS
  None = None
  PrimSizes <- MCPrimSizes
  MemSize = 4
  StructNamesT <- MCStructNamesT
  FuncDecls <- MCFuncDecls
  StructDecls <- MCStructDecls
  GlobalDecls <- MCGlobalDecls
  TextDecls <- MCTextDecls
  CallstackDecls <- MCCallstackDecls
  SegDecls <- MCSegDecls
  MaxCalls = 3
SPECIFICATION Spec
INVARIANTS
  TypeOK
  StructsTiled
  DataSectionDisjoint
  RegionsConsistent
PROPERTIES
  AcceptedLayoutStable
  ImplementsAnnotationModel
CHECK_DEADLOCK FALSE
