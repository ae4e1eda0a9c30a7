CONSTANTS
  B = 4
  W = 8
  BitAnd <- MCAnd
  BitOr <- MCOr
  BitXor <- MCXor
  Pow2 <- MCPow2
  Decode <- MCDecode
  TohostAddr = 192
  FromhostAddr = 200
  ReadOnly = {128, 129, 130, 131}
  ResetPc = 16
  Images <- LogImages
  MaxIcnts = {6}
  DumpIcnts = {9}
  MaxFds = 5
  MaxIO = 2
  HostValues = {0, 5}
  Logging = TRUE
  Known <- MCKnown
SPECIFICATION LogSpec
INVARIANTS OneLineEach ShownByPrint LastWords
CHECK_DEADLOCK FALSE
