SPECIFICATION Spec
CONSTANTS
  Jobs = {a, b, c}
  Tokens = {t1, t2}
  Times = {2, 4}
  MaxActive = 1
  MaxQueued = 0
  WhenFull = {"replace-oldest", "coalesce", "reject"}
  StalePolicy = "block"
  NoJob = NoJob
  Awaited = {a}
  MaxFaults = 2
  MaxWaitFaults = 1
CHECK_DEADLOCK FALSE
INVARIANTS LeaksBounded ViewHonest WaitHonest
PROPERTIES AcceptedSettles WaitAnswered
