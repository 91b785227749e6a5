SPECIFICATION FairSpec
CONSTANTS
  Turns = {t1, t2}
  Handles = {h1}
  TTL = 2
  LIMIT = 2
  MaxResends = 1
  Never = Never
  None = None
INVARIANTS ExpiryUnlessCut HistoryInOrder OwnTextRecalled
PROPERTIES TurnsEnd Forgotten
CHECK_DEADLOCK FALSE
