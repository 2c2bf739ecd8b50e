\* Three calls in progress, one cache key, a session that may expire at any time.
SPECIFICATION Spec
CONSTANTS
  Requests = {r1, r2, r3}
  Keys = {k1}
  Absent = Absent
  LocalMode = TRUE
  MaxVersion = 2
  MaxGeneration = 2
SYMMETRY MCSymmetry
INVARIANTS
  TypeOK
  CacheFresh
  InFlightFresh
  WriteOnce
PROPERTIES
  KeepsPromise
