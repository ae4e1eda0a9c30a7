CONSTANTS
  B = 4
  W = 8
  BitAnd <- MCAnd
  BitOr <- MCOr
  BitXor <- MCXor
  Pow2 <- MCPow2
  Decode <- GuestDecode
  TohostAddr = 192
  FromhostAddr = 200
  ReadOnly = {32, 33, 34, 35}
  ResetPc = 16
  Images <- GuestImages
  MaxIcnts = {5, 12, 60}
  DumpIcnts = {9, 70}
  MaxFds = 5
  MaxIO = 2
  HostValues = {0, 5}
  Role <- MCRole
  BufAddr = 160
  UpperValue = 1
  HaltValue = 1
  LowReg = 1
  UpperReg = 2
  NumberReg = 3
  SeenReg = 5
SPECIFICATION GuestSpec
INVARIANTS ServedBeforeExec RequestIsFresh
PROPERTIES ImplementsPort CallFootprint StdStreamsStay ServesStub Terminates EveryRequestAnswered
CHECK_DEADLOCK FALSE
