SPECIFICATION Spec
CONSTANTS
  Handles = {h1}
  Keys = {k1, k2}
  SolAmounts = {0}
  TokenAmounts = {0}
  Risks = {"med"}
  Slots = {s1}
  AGENT = TRUE
  MaxPending = 1
  MaxChanges = 0
  MaxKills = 1
  OldProfiles <- MCOldProfiles
  OldFormats = {"enc"}
  None = None
INVARIANT GivenKeysAreKept
