CONSTANTS
  None = None
  PrimSizes <- MCLitPrimSizes
  TypeTexts <- MCTypeTexts
  AddrTexts <- MCAddrTexts
SPECIFICATION LitSpec
INVARIANTS
  TypeRoundTrip
  AddrRoundTrip
  FromStrAcceptsGrammar
CHECK_DEADLOCK FALSE
