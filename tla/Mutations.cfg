\* Two calls, each of any kind, one change at the console and a lagging listing.
SPECIFICATION FairSpec
CONSTANTS
  i1 = i1
  i2 = i2
  n1 = n1
  n2 = n2
  c1 = c1
  c2 = c2
  Ids = {i1, i2}
  Names = {n1, n2}
  Values = {1, 2}
  Absent = Absent
  Unread = Unread
  Start <- MCStart
  Calls = {c1, c2}
  Requests <- MCRequests
  Edits <- MCEdits
  Attempts = 2
  MaxConsole = 1
INVARIANTS
  TypeOK
  ToldTruth
  MeantObject
PROPERTIES
  KeepsTheRest
  PoolStaysInSubnet
  CallsEnd
CHECK_DEADLOCK FALSE
