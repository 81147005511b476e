SPECIFICATION FairSpec
CONSTANTS
  AnalysisInterval = 1
  AdvisorInterval = 1
  LifecycleInterval = 2
  MaxPid = 2
  Events = {"reload"}
PROPERTY ShutdownObeyed
CHECK_DEADLOCK FALSE
