CONSTANTS
  MARGS = 2
  Commands <- MCCommands
SPECIFICATION Spec
INVARIANTS TypeOK Owned DumpsAtThePoint
CHECK_DEADLOCK FALSE
