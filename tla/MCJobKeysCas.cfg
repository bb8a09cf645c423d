SPECIFICATION Spec
CONSTANTS
  Jobs = {a, b}
  Tokens = {t1, t2}
  Times = {0, 2, 4}
  MaxActive = 1
  MaxQueued = 0
  WhenFull = {"reject", "replace-oldest"}
  StalePolicy = "fail-stale"
  NoJob = NoJob
  MaxOpen = 1
  Clients = {c1, c2}
  MaxRev = 4
SYMMETRY CallSymmetry
INVARIANT WritesFresh
PROPERTY Atomic
