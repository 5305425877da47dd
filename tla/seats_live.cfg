SPECIFICATION FairSpec
CONSTANTS
  SeatIds = {1, 2}
  Stock = {1, 2}
  Holds = {1, 2, 3}
  Req <- ReqBatch
  Buyers = {}
  Workers = {w1}
  BatchSize = 2
  MaxFaults = 0
  None = None
INVARIANTS
  OneHoldPerKey
PROPERTIES
  ReserveEnds
  LapsedHoldIsReleased
CHECK_DEADLOCK FALSE
