SPECIFICATION FairSpec
CONSTANTS
  Handles = {h1}
  Keys = {k1}
  SolAmounts = {0, 9}
  TokenAmounts = {0, 1}
  Risks = {"med"}
  Slots = {s1}
  AGENT = TRUE
  MaxPending = 1
  MaxChanges = 1
  MaxKills = 1
  OldProfiles <- MCOldProfiles
  OldFormats = {"enc", "plain"}
  None = None
INVARIANT AutoSellsPerChange
PROPERTIES CallsEnd BootEnds
