CONSTANTS
  B = 4
  W = 8
  BitAnd <- MCAnd
  BitOr <- MCOr
  BitXor <- MCXor
  Pow2 <- MCPow2
  Decode <- MCDecode
  TohostAddr = 192
  FromhostAddr = 200
  ReadOnly = {32, 33, 34, 35}
  ResetPc = 16
  Images <- IsaImages
  MaxIcnts = {7}
  DumpIcnts = {3, 9}
  MaxFds = 5
  MaxIO = 2
  HostValues = {0, 5}
SPECIFICATION Spec
PROPERTY RunsRv32im
CHECK_DEADLOCK FALSE
