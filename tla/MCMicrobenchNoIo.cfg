CONSTANTS
  Count = 5
  NumThreads = 3
  NumXstreams = 2
  NumChases = 1
  IoMode = 0
  Prefetch = TRUE
  Faults = {}
  MaxPeeks = 1
SPECIFICATION Spec
INVARIANTS
  SlicesPartition
