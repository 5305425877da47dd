SPECIFICATION FairSpec
CONSTANTS
  Visitors = {alice, bob, fan1, fan2, fan3}
  fan1 = fan1
  fan2 = fan2
  fan3 = fan3
  Fans <- ThreeFans
  FloodBatch = 2
  Requests = {r1}
  Workers = {w1}
  Bulkhead = 2
  PerSecond = 1
  Ttl = 3
  MaxScore = 5
  MaxFaults = 0
  Serial = TRUE
  None = None
PROPERTIES
  ImplementsLedger
  QueuedIsAdmitted
