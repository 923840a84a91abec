CONSTANTS
  Word = 8
  MaxLatency = 5
  MaxCount = 4
SPECIFICATION Spec
INVARIANTS
  RanksRight
  FiguresAgree
  IndexInside
CHECK_DEADLOCK FALSE
