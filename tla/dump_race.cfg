CONSTANTS
  Procs <- MCProcs
  Records <- MCRecords
  Hole = "hole"
  Torn = "torn"
  Scenarios <- MCScenarios
SPECIFICATION FairSpec
INVARIANT LastDumpWins
PROPERTY Settles
CHECK_DEADLOCK FALSE
