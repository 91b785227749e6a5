SPECIFICATION FairSpec
CONSTANTS
  Tasks = {t1, t2, t3}
  Users = {u1, u2}
  Keyed = {u1}
  MaxPosts = 1
  None = None
INVARIANTS MadeInOrder OwnConfig ManualOnce
PROPERTY TasksEnd
CHECK_DEADLOCK FALSE
