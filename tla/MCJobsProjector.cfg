SPECIFICATION Spec
CONSTANTS
  Jobs = {a}
  Alphabet <- RunEvents
  MaxEvents = 3
  BatchSize = 2
  MaxFailures = 1
CHECK_DEADLOCK FALSE
INVARIANTS ProjectedOnce NothingLost
PROPERTY EventuallyProjected

