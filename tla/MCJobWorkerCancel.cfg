SPECIFICATION Spec
CONSTANTS
  Jobs = {a, b}
  Tokens = {t1, t2, t3, t4, t5, t6, t7}
  Times = {0, 2, 4}
  MaxActive = 1
  MaxQueued = 1
  WhenFull = {"reject"}
  StalePolicy = "block"
  NoJob = NoJob
  Workers = {w1, w2}
  Keying = {TRUE, FALSE}
  MaxTries = 1
  Deadlines = {}
  MaxRuns = 1
  MaxCancels = 1
  Snapshots = {"current", "Pending"}
  MaxFaults = 1
  MaxStalls = 1
  NoToken = NoToken
CHECK_DEADLOCK FALSE
SYMMETRY WorkSymmetry
INVARIANT HandlersBounded
PROPERTY SettlementKept
