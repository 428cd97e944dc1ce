SPECIFICATION FairSpec
CONSTANTS
  Calls = {c1, c2, c3}
  Replicas = {r1, r2}
  Amounts <- SomeAmounts
  MaxBalance = 3
  PoolSize = 2
  Faults <- AllFaults
CHECK_DEADLOCK FALSE
INVARIANTS
  TypeOK
  BalanceIsLedger
  NeverOverdrawn
  AnswersAreTrue
PROPERTIES
  IsAtomic
  EveryCallAnswered
