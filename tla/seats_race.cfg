SPECIFICATION Spec
CONSTANTS
  SeatIds = {1, 2}
  Stock = {1, 2}
  Holds = {1, 2}
  Req <- ReqRace
  Buyers = {c1, c2}
  Workers = {w1, w2}
  BatchSize = 2
  MaxFaults = 1
  None = None
INVARIANTS
  TypeOK
  HoldOwnsItsSeats
  LostMeansGone
  NoReserveDeadlock
  LocksReturned
PROPERTIES
  ImplementsReservation
  SoldIsForever
  ImplementsLedger
  LocksDroppedByOwner
CHECK_DEADLOCK FALSE
