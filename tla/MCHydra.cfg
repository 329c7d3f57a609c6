CONSTANTS
  None = None
  PrimSizes <- MCPrimSizes
  MemSize = 4
  StructNamesT <- MCStructNamesT
  FuncDecls <- MCHydraFuncDecls
  StructDecls <- MCHydraStructDecls
  GlobalDecls <- MCHydraGlobalDecls
  TextDecls <- MCHydraTextDecls
  CallstackDecls <- MCHydraCallstackDecls
  SegDecls <- MCSegDecls
  MaxCalls = 3
  OverlayName <- MCOverlayName
  HasFPrefix <- MCHasFPrefix
  DropFPrefix <- MCDropFPrefix
SPECIFICATION HydraSpec
INVARIANTS
  CallTargetsResolve
  HeaderStructsMatchC
CHECK_DEADLOCK FALSE
