CONSTANTS
  Rate <- RateOf
  NumServers = 2
  Latencies <- ThreeLatencies
  ClientThreads <- ThreeThreads
  LoadThreads = 3
  Defrag = TRUE
  MaxRounds = 2
  MaxFaults = 2
SPECIFICATION Spec
INVARIANTS
  FiguresAsMeasured
  MisfiledTowardsEarlier
  EnoughLatencies
CHECK_DEADLOCK FALSE
