CONSTANTS
  None = None
  PrimSizes <- MCPrimSizes
  MemSize = 4
  StructNamesT <- MCStructNamesT
  FuncDecls <- MCHydraFuncDecls
  StructDecls <- MCHydraStructDecls
  GlobalDecls <- MCHydraGlobalDecls
  TextDecls <- MCHydraTextDecls
  CallstackDecls <- MCHydraCallstackDecls
  SegDecls <- MCSegDecls
  MaxCalls = 2
  OverlayName <- MCOverlayName
  HasFPrefix <- MCHasFPrefix
  DropFPrefix <- MCDropFPrefix
SPECIFICATION HydraSpec
INVARIANT CallstackAddrsPreserved
CHECK_DEADLOCK FALSE
