CONSTANTS
  Count = 3
  NumThreads = 3
  NumXstreams = 1
  NumChases = 2
  IoMode = 1
  Prefetch = TRUE
  Faults = {}
  MaxPeeks = 2
SPECIFICATION Spec
INVARIANT PrefetchOverlapped
PROPERTY ReportsEventually
