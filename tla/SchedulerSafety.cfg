\* A lease (8) longer than the longest execution (7), two attempts, two processes
\* on one database.
SPECIFICATION Spec
CONSTANTS
  Servers = {p1, p2}
  NoServer = NoServer
  NumSchedules = 1
  Copies = 2
  Period = 3
  RetryDelay = 1
  Schedules <- MCSchedules
  Execs <- MCExecs
  ScheduleOf <- MCScheduleOf
  Interval <- MCInterval
  Backoff <- MCBackoff
  StartBy <- MCStartBy
  Retryable = {1}
  Runnable = {1}
  AutomationEnabled = TRUE
  Limit = 1
  TickSeconds = 1
  JobTimeout = 1
  MaxAttempts = 2
  StaleAfter = 8
  TxDelay = 1
  StoreFails = TRUE
  AgeCap = 9
  OverdueCap = 1
  MaxDisruptions = 2
INVARIANTS
  TypeOK
  NoOverlap
  LiveHoldsClaim
  LiveRunNotClosed
  LeaseInv
PROPERTIES
  SpacedStarts
  KeepsLedger
SYMMETRY MCSymmetry
