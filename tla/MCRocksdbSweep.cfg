SPECIFICATION Spec
CONSTANTS
  NumCoresList <- TwoCores
  ThreadsPerCoreList <- TwoThreads
  MixThreadsList <- OneThread
  MixCores = 1
  LatencyList <- TwoLatencies
  NotebookLatencies <- ShownLatencies
  CxlLatency = 1000
  Renamed = 500
  Rate <- RateOf
  MaxFaults = 1
  MaxStarts = 2
INVARIANTS MeasuredAsNamed NoStaleLogs
PROPERTY FiguresRight
CHECK_DEADLOCK FALSE
