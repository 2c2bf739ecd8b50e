\* One call of a network tool, and nobody else.
SPECIFICATION Spec
CONSTANTS
  i1 = i1
  i2 = i2
  n1 = n1
  n2 = n2
  c1 = c1
  c2 = c2
  Ids = {i1, i2}
  Names = {n1, n2}
  Values = {1, 2}
  Absent = Absent
  Unread = Unread
  Start <- MCStart
  Calls = {c1}
  Requests <- MCNetworkRequests
  Edits <- MCEdits
  Attempts = 2
  MaxConsole = 0
INVARIANTS
  RejectedIsRefused
CHECK_DEADLOCK FALSE
