SPECIFICATION FairSpec
CONSTANTS
  a = a
  b = b
  c1 = c1
  c2 = c2
  Ids = {a, b}
  Calls = {c1, c2}
  Loads <- Situations
  w1 = w1
  w2 = w2
  Workers = {w1, w2}
  MaxDeliver = 2
  MaxFaults = 1
CHECK_DEADLOCK FALSE
INVARIANTS CommandOnce JournalLegal ReportedFirst
PROPERTIES Converges
