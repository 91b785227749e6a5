SPECIFICATION Spec
CONSTANTS
  Users = {u1}
  Instants <- MCInstants
  FIXED_SECRET = TRUE
  MaxRestarts = 1
  None = None
INVARIANT WorksTwoHours
