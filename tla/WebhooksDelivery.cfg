\* Two events for one destination, two workers two of whose batches may be cut off.
SPECIFICATION FairSpec
CONSTANTS
  Events = {e1, e2}
  Destinations = {d1}
  Workers = {w1, w2}
  Wanted <- MCWanted
  LongWindow = FALSE
  MaxAttempts = 3
  BackoffCap = 2
  JobTimeout = 1
  StaleAfter = 2
  MaxInserts = 2
  MaxAborts = 2
INVARIANTS
  TypeOK
  OneHolder
  AttemptsLeft
  NoDuplicateDelivery
PROPERTIES
  KeepsOutbox
  DeliveriesSettle
