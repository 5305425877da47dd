SPECIFICATION FairSpec
CONSTANTS
  Events = {1, 2, 3}
  Reservations = {1}
  Workers = {w1, w2}
  BatchSize = 2
  MaxFaults = 2
  None = None
INVARIANTS
  TypeOK
  PublishedWasDelivered
  AgainOnlyAfterFailure
PROPERTIES
  WrittenIsPublished
  LapsedIsExpired
