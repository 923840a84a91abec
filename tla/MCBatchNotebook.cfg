CONSTANTS
  Stages <- OneFile
  NumArgs = 1
  Faults = {}
  MaxMessages = 0
  MaxStarts = 1
SPECIFICATION Spec
INVARIANT NotebookLoads
CHECK_DEADLOCK FALSE
