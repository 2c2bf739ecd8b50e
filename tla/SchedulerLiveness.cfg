\* Two schedules that compete for one job slot, crashes and edits, a store that never fails.
SPECIFICATION FairSpec
CONSTANTS
  Servers = {p1}
  NoServer = NoServer
  NumSchedules = 2
  Copies = 1
  Period = 2
  RetryDelay = 1
  Schedules <- MCSchedules
  Execs <- MCExecs
  ScheduleOf <- MCScheduleOf
  Interval <- MCInterval
  Backoff <- MCBackoff
  StartBy <- MCStartBy
  Retryable = {}
  Runnable = {1, 2}
  AutomationEnabled = TRUE
  Limit = 1
  TickSeconds = 1
  JobTimeout = 1
  MaxAttempts = 1
  StaleAfter = 2
  TxDelay = 0
  StoreFails = FALSE
  AgeCap = 2
  OverdueCap = 3
  MaxDisruptions = 1
PROPERTIES
  OrphansReleased
  EnabledKeepsRunning
