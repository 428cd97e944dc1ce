SPECIFICATION Spec
CONSTANTS
  Findings = {f1, f2}
  Pods = {p1, p2}
  Pipelines <- AllPipelines
  Faults <- AllFaults
  MaxRows = 2
CHECK_DEADLOCK FALSE
SYMMETRY Symmetry
INVARIANTS
  TypeOK
  CompletedIsDelivered
  SuccessIsVisible
  LeakNeedsGiveUp
  SuccessGaveUpOnlyCrew
  StoredOnceUnlessRaised
PROPERTY
  ContractHolds
