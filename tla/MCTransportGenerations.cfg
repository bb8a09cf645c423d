SPECIFICATION FairSpec
CONSTANTS
  read = read
  write = write
  c1 = c1
  Grants = {read, write}
  MaxGens = 6
  Callers = {c1}
  MaxFaults = 2
  Loads <- Loads_MC
INVARIANTS NothingLeaks IntakeServed FenceHolds
PROPERTIES WorkKept  Converges
CHECK_DEADLOCK FALSE
