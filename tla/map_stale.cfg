SPECIFICATION Spec
CONSTANTS
  Layout <- Stand
  Letters = 2
  InsertChunk = 4
  Seeders = {o1, o2}
  Readers = {r1, r2}
  Seats <- OneSeat
  Capacity = 1
  Ttl = 2
  Span = 1
  MaxChanges = 2
  MaxFaults = 1
  None = None
INVARIANTS
  TypeOK
PROPERTIES
  ShownWasTrue
  SeedIsIdempotent
