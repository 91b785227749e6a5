SPECIFICATION Spec
CONSTANTS
  Handles = {h1}
  Keys = {k1}
  SolAmounts = {0, 9}
  TokenAmounts = {0}
  Risks = {"med"}
  Slots = {s1, s2}
  AGENT = TRUE
  MaxPending = 2
  MaxChanges = 2
  MaxKills = 0
  OldProfiles <- MCOldProfiles
  OldFormats = {"enc"}
  None = None
INVARIANT LiveBalance
