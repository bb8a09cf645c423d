SPECIFICATION FairSpec
CONSTANTS
  Executors = {x, y}
  Loads <- OperationLoads
  MaxFaults = 1
CHECK_DEADLOCK FALSE
INVARIANTS CancelWins
PROPERTIES TerminalFinal Superseded EntryReady Settles
