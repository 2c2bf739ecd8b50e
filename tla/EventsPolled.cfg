\* A Network console that never answers and a Protect console, polled by two jobs at once.
SPECIFICATION FairSpec
CONSTANTS
  net = net
  cam = cam
  Events = {1, 2}
  Sources = {net, cam}
  Protect = {cam}
  SourceOf <- MCSourceOf
  Jobs = {j1, j2}
  MaxConcurrency = 2
  PageLimit = 2
  Overlap = 1
  Day = 1
  Lateness = 1
  Broken = {net}
  Malformed = {}
  MaxFailures = 1
  MaxTime = 2
INVARIANTS
  TypeOK
  NothingLeftBehind
  CursorShowsStored
PROPERTIES
  ReportedIsStored
  NeverBehindRead
  TakesAsPromised
