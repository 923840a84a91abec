SPECIFICATION Spec
CONSTANTS
  NumLatencies = 2
  Base = 5
  Step = 4
  From = 3
  To = 1
  Day = 7
  StartTimes = {0, 5}
  MaxSlips = 2
  MaxLate = 2
  MaxMinutes = 13
INVARIANTS SeriesAligned ElapsedTime WindowsOnLatency WholeBlocks
CHECK_DEADLOCK FALSE
