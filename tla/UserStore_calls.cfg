SPECIFICATION Spec
CONSTANTS
  Handles = {h1}
  Keys = {k1, k2}
  SolAmounts = {0, 9}
  TokenAmounts = {0}
  Risks = {"med"}
  Slots = {s1, s2}
  AGENT = TRUE
  MaxPending = 2
  MaxChanges = 1
  MaxKills = 0
  OldProfiles <- MCOldProfiles
  OldFormats = {"enc", "corrupt"}
  None = None
SYMMETRY Symmetry
INVARIANTS StoreCatchesUp OneAddressPerProcess StoredKeyIsUsed SavedIsListed
PROPERTY ImplementsAddressBook
