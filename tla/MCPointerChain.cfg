CONSTANTS
  Size = 6
  Base = 2
  NumChases = 5
  FileSize = 11
  AccessSize = 4
SPECIFICATION Spec
INVARIANTS
  TypeOK
  ChaseNeverRepeats
  FullLap
  AccessInsideFile
