SPECIFICATION FairSpec
CONSTANTS
  Calls = {1, 3, 4}
  Req <- ReqReturn
  Buyers = {c1}
  Workers = {w1}
  Capacity = 3
  MaxQuantity = 2
  MaxAttempts = 2
  BatchSize = 2
  MaxFaults = 1
  LateCapture = FALSE
  None = None
PROPERTIES
  ReserveEnds
  LapsedReservationIsReturned
CHECK_DEADLOCK FALSE
