SPECIFICATION Spec
CONSTANTS
  Calls = {1, 2}
  Req <- ReqAll
  Buyers = {c1, c2}
  Workers = {w1}
  Capacity = 2
  MaxQuantity = 2
  MaxAttempts = 3
  BatchSize = 2
  MaxFaults = 0
  LateCapture = TRUE
  None = None
INVARIANTS
  NoOversell
CHECK_DEADLOCK FALSE
