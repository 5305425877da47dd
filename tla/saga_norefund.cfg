SPECIFICATION FairSpec
CONSTANTS
  Calls = {1, 2, 3}
  Req <- ReqRetryHold
  Reservations = {"hold"}
  Assigned = {"hold"}
  Owner <- OwnerAlice
  Serial = TRUE
  RollbackExpires = TRUE
  MaxFaults = 0
  None = None
PROPERTIES
  LostSaleIsRefunded
CHECK_DEADLOCK FALSE
