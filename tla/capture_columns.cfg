SPECIFICATION Spec
CONSTANTS
  p1 = p1
  p2 = p2
  Processes <- TwoProcesses
  Statements <- AllStatements
  MaxCols = 2
  MaxRels = 1
  IndexRange = 65536
  HashSize = 4
  Window = 6
  RingSize = 4
  AnalysisInterval = 2
  AdvisorInterval = 2
  MaxDelay = 1
  RestartTime = 1
  Events = {}
  MaxQueries = 1
INVARIANT JoinsAndSortsCaptured
