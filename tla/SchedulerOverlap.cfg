\* The lease is MaxAttempts * JobTimeout, as the default settings are (900 = 3 * 300).
SPECIFICATION Spec
CONSTANTS
  Servers = {p1}
  NoServer = NoServer
  NumSchedules = 1
  Copies = 2
  Period = 10
  RetryDelay = 1
  Schedules <- MCSchedules
  Execs <- MCExecs
  ScheduleOf <- MCScheduleOf
  Interval <- MCInterval
  Backoff <- MCBackoff
  StartBy <- MCStartBy
  Retryable = {1}
  Runnable = {1}
  AutomationEnabled = TRUE
  Limit = 1
  TickSeconds = 1
  JobTimeout = 3
  MaxAttempts = 3
  StaleAfter = 9
  TxDelay = 0
  StoreFails = FALSE
  AgeCap = 12
  OverdueCap = 1
  MaxDisruptions = 0
INVARIANTS
  NoOverlap
