SPECIFICATION FairSpec
CONSTANTS
  Calls = {c1, c2}
  ATTEMPTS = 3
  PCT = 40
  Lamports = {0, 3}
INVARIANTS TransferOnce SwapsBounded BurnBeforeDev PaidExactly
PROPERTY CallsEnd
CHECK_DEADLOCK FALSE
