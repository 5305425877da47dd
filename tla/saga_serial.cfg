SPECIFICATION ExpirySpec
CONSTANTS
  Calls = {1, 2, 3, 4}
  Req <- ReqBoth
  Reservations = {"hold", "ga"}
  Assigned = {"hold"}
  Owner <- OwnerBoth
  Serial = TRUE
  RollbackExpires = FALSE
  MaxFaults = 1
  None = None
INVARIANTS
  ConfirmedIsPaid
  MoneyIsAccountedFor
  ToldStaysTrue
  SaleIsOneCommit
  NewOrderIsChargedOutside
PROPERTIES
  DeclinedComesBack
CHECK_DEADLOCK FALSE
