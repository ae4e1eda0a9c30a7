CONSTANTS
  Buffers <- MCBuffers
  B = 4
  W = 8
  BitAnd <- MCAnd
  BitOr <- MCOr
  BitXor <- MCXor
  Pow2 <- MCPow2
  Starts = {1, 127, 128, 254}
  Host <- Linux
  Requests <- FlagRequests
  FirstWords <- InstructionWords
  MaxFlips = 2
  Width = 3
  Touched = {0, 5, 31}
SPECIFICATION AllSpec
INVARIANTS PathsAgree OneByteTells OpensAsAsked BitsAsSet DecodedAsDrawn HalvesOfProduct OneDivision SignsAgree
CHECK_DEADLOCK FALSE
