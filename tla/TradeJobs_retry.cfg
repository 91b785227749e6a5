SPECIFICATION Spec
CONSTANTS
  Jobs = {j1, j2}
  Handles = {"u1", "u2"}
  Members = {"u1"}
INVARIANT FailedJobsRetried
CHECK_DEADLOCK FALSE
