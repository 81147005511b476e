SPECIFICATION Spec
CONSTANTS
  AnalysisInterval = 1
  AdvisorInterval = 1
  LifecycleInterval = 2
  MaxPid = 2
  Events = {"crash"}
INVARIANT HookChainEnds
CHECK_DEADLOCK FALSE
