SPECIFICATION Spec
CONSTANTS
  Calls = {1, 2, 3, 4, 5}
  Req <- ReqSale
  Buyers = {c1}
  Workers = {w1}
  Capacity = 3
  MaxQuantity = 2
  MaxAttempts = 2
  BatchSize = 2
  MaxFaults = 1
  LateCapture = FALSE
  None = None
INVARIANTS
  TypeOK
  
  OneReservationPerKey
PROPERTIES
  ImplementsReservation
CHECK_DEADLOCK FALSE
