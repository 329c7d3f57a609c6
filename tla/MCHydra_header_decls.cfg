CONSTANTS
  None = None
  PrimSizes <- MCPrimSizes
  MemSize = 4
  StructNamesT <- MCStructNamesT
  FuncDecls <- MCHeaderFuncDecls
  StructDecls <- MCHydraStructDecls
  GlobalDecls <- MCHydraGlobalDecls
  TextDecls <- MCHydraTextDecls
  CallstackDecls <- MCHydraCallstackDecls
  SegDecls <- MCSegDecls
  MaxCalls = 2
  OverlayName <- MCOverlayName
  HasFPrefix <- MCHasFPrefix
  DropFPrefix <- MCDropFPrefix
SPECIFICATION HydraSpec
INVARIANT HeaderDeclarationsSound
CHECK_DEADLOCK FALSE
