CONSTANTS
  MARGS = 2
  Commands <- MCCommands
SPECIFICATION Spec
INVARIANT ArgumentsReachGuest
CHECK_DEADLOCK FALSE
