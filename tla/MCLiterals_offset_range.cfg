CONSTANTS
  None = None
  PrimSizes <- MCLitPrimSizes
  TypeTexts <- MCTypeTexts
  AddrTexts <- MCAddrTexts
SPECIFICATION LitSpec
INVARIANT AddrLiteralsChecked
CHECK_DEADLOCK FALSE
