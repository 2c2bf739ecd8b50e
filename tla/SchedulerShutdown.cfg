\* A graceful shutdown while a batch of two jobs is executing.
SPECIFICATION FairSpec
CONSTANTS
  Servers = {p1}
  NoServer = NoServer
  NumSchedules = 2
  Copies = 1
  Period = 3
  RetryDelay = 1
  Schedules <- MCSchedules
  Execs <- MCExecs
  ScheduleOf <- MCScheduleOf
  Interval <- MCInterval
  Backoff <- MCBackoff
  StartBy <- MCStartBy
  Retryable = {}
  Runnable = {1, 2}
  AutomationEnabled = TRUE
  Limit = 2
  TickSeconds = 1
  JobTimeout = 1
  MaxAttempts = 1
  StaleAfter = 6
  TxDelay = 1
  StoreFails = FALSE
  AgeCap = 7
  OverdueCap = 1
  MaxDisruptions = 1
PROPERTIES
  ShutdownDrains
