SPECIFICATION FairSpec
CONSTANTS
  Jobs = {a, b}
  Tokens = {t1, t2, t3, t4, t5, t6, t7}
  Times = {0, 2, 4}
  MaxActive = 1
  MaxQueued = 1
  WhenFull = {"reject"}
  StalePolicy = "block"
  NoJob = NoJob
  Workers = {w1, w2}
  Keying = {TRUE}
  MaxTries = 1
  Deadlines = {}
  MaxRuns = 1
  MaxCancels = 1
  Snapshots = {"Pending"}
  MaxFaults = 0
  MaxStalls = 0
  NoToken = NoToken
CHECK_DEADLOCK FALSE
PROPERTY CancelTakesEffect
