SPECIFICATION Spec
CONSTANTS
  Findings = {f1}
  Pods = {p1}
  Pipelines = {"graph"}
  Faults <- Restarts
  MaxRows = 2
CHECK_DEADLOCK FALSE
INVARIANT
  ScansSurviveRestarts
