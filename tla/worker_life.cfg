SPECIFICATION FairSpec
CONSTANTS
  AnalysisInterval = 2
  AdvisorInterval = 2
  LifecycleInterval = 3
  MaxPid = 3
  Events = {"terminate", "reload", "crash"}
INVARIANTS
  TypeOK
  
PROPERTIES
  TerminationObeyed
CHECK_DEADLOCK FALSE
