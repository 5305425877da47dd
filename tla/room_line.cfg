SPECIFICATION Spec
CONSTANTS
  Visitors = {alice, bob}
  fan1 = fan1
  fan2 = fan2
  fan3 = fan3
  Fans <- NoFans
  FloodBatch = 1
  Requests = {r1, r2}
  Workers = {w1}
  Bulkhead = 1
  PerSecond = 1
  Ttl = 2
  MaxScore = 2
  MaxFaults = 1
  Serial = FALSE
  None = None
INVARIANTS
  TypeOK
  ShoppersAreLetIn
PROPERTIES
  LineIsFair
SYMMETRY Symmetry
