\* The controller still lists an event that was pruned.
SPECIFICATION Spec
CONSTANTS
  Events = {e1}
  Destinations = {d1}
  Workers = {w1}
  Wanted <- MCWanted
  LongWindow = TRUE
  MaxAttempts = 2
  BackoffCap = 1
  JobTimeout = 1
  StaleAfter = 2
  MaxInserts = 2
  MaxAborts = 0
INVARIANTS
  NoDuplicateDelivery
