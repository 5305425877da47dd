SPECIFICATION Spec
CONSTANTS
  Calls = {1, 2, 3, 4}
  Req <- ReqTabs
  Reservations = {"hold"}
  Assigned = {"hold"}
  Owner <- OwnerAlice
  Serial = FALSE
  RollbackExpires = TRUE
  MaxFaults = 1
  None = None
INVARIANTS
  TypeOK
  NoDoubleCharge
  HoldIsSoldOnce
CHECK_DEADLOCK FALSE
