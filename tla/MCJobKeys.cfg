SPECIFICATION Spec
CONSTANTS
  Jobs = {a, b, c, d}
  Tokens = {t1, t2, t3}
  Times = {0, 1, 2}
  MaxActive = 2
  MaxQueued = 1
  WhenFull = {"reject", "coalesce", "replace-oldest"}
  StalePolicy = "fail-stale"
  NoJob = NoJob
  MaxOpen = 1
SYMMETRY JobSymmetry
INVARIANTS SlotsBounded SlotsDistinct
PROPERTIES NoSilentDisplacement ObligationKept
