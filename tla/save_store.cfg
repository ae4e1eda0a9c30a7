CONSTANTS
  NPages = 3
  Contents = {zero, x, y}
  Zero = zero
  Cpus = {c1, c2}
  None = none
SPECIFICATION FairSpec
INVARIANTS TypeOK FileIsPrefix
PROPERTIES ImplementsStore Finishes
