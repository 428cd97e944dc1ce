SPECIFICATION Spec
CONSTANTS
  Agents = {a1, a2}
  Uploaders = {a1}
  Names = {n1}
  Threads = {t1, t2}
  Pods = {}
  Files = {f1}
  Reports = {}
  MaxTokens = 1
  MaxSecrets = 2
  MaxSecond = 1
  MaxBacklog = 0
  MaxDepth = 0
  Faults = {"db", "redis", "temporal", "timeout"}
CHECK_DEADLOCK FALSE
SYMMETRY Symmetry
INVARIANTS
  EnrolmentsHold
  IngestsAreStored
  AnsweredUploadsAreIngested
