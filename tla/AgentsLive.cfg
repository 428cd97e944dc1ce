SPECIFICATION FairSpec
CONSTANTS
  Agents = {a1}
  Names = {n1}
  Threads = {t1}
  Pods = {p1, p2}
  Uploaders = {}
  Files = {}
  Reports = {"IDLE"}
  MaxTokens = 1
  MaxSecrets = 2
  MaxSecond = 0
  MaxBacklog = 1
  MaxDepth = 1
  Faults = {"db", "redis", "silence", "crash"}
CHECK_DEADLOCK FALSE
INVARIANTS
  TypeOK
PROPERTIES
  OfflineDoesNotStick
  SilentAgentsFade
