CONSTANTS
  ByteBits = 2
  NumRegs = 13
  LineBytes = 8
  RedZone = 8
  StackAlign = 4
  StubLimit = 12
  Calls <- AliasedCalls
SPECIFICATION Spec
PROPERTY XerExact
