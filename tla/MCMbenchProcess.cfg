CONSTANTS
  Op = {1, 2}
  Latency = {0, 5, 9}
  Files <- ParamFiles
  Faults = {"script", "chain", "open", "run"}
  MaxLaunches = 2
SPECIFICATION Spec
INVARIANTS
  MeasuredAsRequested
  FastOutsideRuns
  CacheTruthful
  PrintsTranscript
PROPERTIES
  ProcessEnds
CHECK_DEADLOCK FALSE
