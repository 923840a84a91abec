CONSTANTS
  Count = 4
  NumThreads = 3
  NumXstreams = 2
  NumChases = 1
  IoMode = 1
  Prefetch = TRUE
  Faults = {"init", "setup", "submit", "peek", "io"}
  MaxPeeks = 2
SPECIFICATION Spec
INVARIANTS
  TypeOK
  RecordedInOrder
  ReportComplete
  RingDiscipline
  ScheduledOnce
  PeeksAccounted
PROPERTIES
  NeverOverwritten
  ImplementsBenchmarkRun
