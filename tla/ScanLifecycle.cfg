SPECIFICATION FairSpec
CONSTANTS
  Findings = {f1, f2}
  Pods = {p1}
  Pipelines <- AllPipelines
  Faults <- NoLaunchErrors
  MaxRows = 2
CHECK_DEADLOCK FALSE
PROPERTIES
  Implements
  LaunchedSettles
