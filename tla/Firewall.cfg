SPECIFICATION FairSpec
CONSTANTS
  Procs = {p1, p2}
  MAX_HP = 4
  HEAL_RATE = 1
  WEIGHTS <- MCWeights
  AUTO_EXIT = TRUE
  PROMPT = TRUE
  MaxIncidents = 3
  None = None
INVARIANTS NoIdleAtZero GaugeIsExact
PROPERTIES PoppedExits ZeroIsFinal
