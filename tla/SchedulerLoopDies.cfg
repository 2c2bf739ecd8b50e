\* One transaction may fail.
SPECIFICATION FairSpec
CONSTANTS
  Servers = {p1}
  NoServer = NoServer
  NumSchedules = 2
  Copies = 1
  Period = 2
  RetryDelay = 1
  Schedules <- MCSchedules
  Execs <- MCExecs
  ScheduleOf <- MCScheduleOf
  Interval <- MCInterval
  Backoff <- MCBackoff
  StartBy <- MCStartBy
  Retryable = {}
  Runnable = {1, 2}
  AutomationEnabled = TRUE
  Limit = 2
  TickSeconds = 1
  JobTimeout = 1
  MaxAttempts = 1
  StaleAfter = 3
  TxDelay = 0
  StoreFails = TRUE
  AgeCap = 3
  OverdueCap = 4
  MaxDisruptions = 1
PROPERTIES
  EnabledKeepsRunning
