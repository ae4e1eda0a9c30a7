CONSTANTS
  Buffer = 160
  Upper = 1
  Halted = 1
  Calls <- MCCalls
  Served <- MCServed
SPECIFICATION FairSpec
INVARIANTS OneAnswer
PROPERTIES StubReturns
CHECK_DEADLOCK FALSE
