CONSTANTS
  Stages <- TwoFiles
  NumArgs = 1
  Faults = {"message", "warning", "killed", "interrupt"}
  MaxMessages = 2
  MaxStarts = 2
SPECIFICATION Spec
INVARIANTS
  OneSpoiltRecord
  RecordsOfOneRun
  RunsInOrder
  AllRunsRecorded
PROPERTY ResultsKept
CHECK_DEADLOCK FALSE
