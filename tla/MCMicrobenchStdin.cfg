CONSTANTS
  Count = 1
  NumThreads = 2
  NumXstreams = 1
  NumChases = 0
  IoMode = 0
  Prefetch = FALSE
  Faults = {}
  MaxPeeks = 1
SPECIFICATION Spec
INVARIANT StdinKept
