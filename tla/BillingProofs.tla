----------------------------- MODULE BillingProofs ----------------------------
(***************************************************************************)
(* Proofs about Billing for every set of calls, replicas, amounts and      *)
(* faults, and for pools of every size.                                    *)
(***************************************************************************)
EXTENDS Billing, FiniteSetTheorems, TLAPS

(* The session that holds the row lock sees the committed balance, and no  *)
(* call is booked before its own session commits.                          *)
LockInv ==
  /\ \A c \in Calls : stage[c] = "locked" <=> c \in lock
  /\ \A c, d \in lock : c = d
  /\ \A c \in lock : seen[c] = balance

BookedInv ==
  /\ \A c \in Calls : c \in booked => stage[c] \in {"committed", "ok", "error", "lost"}
  /\ \A c \in Calls : stage[c] \in {"committed", "ok"} => c \in booked
  /\ \A c \in Calls : stage[c] # "idle" => amount[c] \in Amounts

IInv ==
  /\ TypeOK
  /\ LockInv
  /\ BookedInv
  /\ BalanceIsLedger
  /\ NeverOverdrawn

LEMMA InvInit == Init => IInv
BY BillingAssumption
   DEF Init, IInv, TypeOK, LockInv, BookedInv, BalanceIsLedger, NeverOverdrawn

(* A commit books a call that was not booked, from the balance of now.     *)
LEMMA CommitFacts ==
  ASSUME IInv, NEW c \in Calls, stage[c] = "locked", Commit(c)
  PROVE  /\ c \notin booked
         /\ seen[c] = balance
         /\ amount[c] \in Amounts \cup {0} /\ amount[c] \in Int
         /\ balance + amount[c] \in 0 .. MaxBalance
         /\ balance' = balance + amount[c]
         /\ booked' = booked \cup {c}
         /\ granted' = IF amount[c] < 0 THEN granted ELSE granted + amount[c]
         /\ spent' = IF amount[c] < 0 THEN spent - amount[c] ELSE spent
<1>1. seen[c] = balance /\ c \notin booked
  BY DEF IInv, LockInv, BookedInv
<1>2. amount[c] \in Amounts \cup {0} /\ amount[c] \in Int /\ balance \in Int
  <2>1. amount[c] \in Amounts \cup {0} /\ balance \in Int
    BY DEF IInv, TypeOK
  <2>2. \A a \in Amounts \cup {0} : a \in Int
    BY BillingAssumption
  <2>. QED
    BY <2>1, <2>2
<1>3. balance \in 0 .. MaxBalance /\ MaxBalance \in Nat
  BY BillingAssumption DEF IInv, NeverOverdrawn
<1>4. balance + amount[c] \in 0 .. MaxBalance
  BY <1>1, <1>2, <1>3 DEF Commit, Insufficient
<1>. QED
  BY <1>1, <1>2, <1>4 DEF Commit

(* What a commit does to the account.                                      *)
LEMMA CommitAccount ==
  ASSUME IInv, NEW c \in Calls, stage[c] = "locked", Commit(c)
  PROVE  /\ balance' \in Int /\ granted' \in Nat /\ spent' \in Nat
         /\ booked' \subseteq Calls
         /\ BalanceIsLedger' /\ NeverOverdrawn'
<1>1. balance \in Int /\ granted \in Nat /\ spent \in Nat /\ balance = granted - spent
  BY DEF IInv, TypeOK, BalanceIsLedger
<1>2. MaxBalance \in Nat
  BY BillingAssumption
<1>3. NeverOverdrawn'
  BY CommitFacts DEF NeverOverdrawn
<1>4. balance' \in Int /\ granted' \in Nat /\ spent' \in Nat /\ BalanceIsLedger'
  BY CommitFacts, <1>1 DEF BalanceIsLedger
<1>. QED
  BY CommitFacts, <1>3, <1>4 DEF IInv, TypeOK

LEMMA InvStep == IInv /\ [Next]_vars => IInv'
<1>. SUFFICES ASSUME IInv, [Next]_vars
              PROVE  IInv'
  OBVIOUS
<1>. USE DEF TypeOK, LockInv, BookedInv, Active, Answers, account
<1>1. ASSUME NEW c \in Calls, Call(c)
      PROVE  IInv'
  BY <1>1 DEF IInv, Call, BalanceIsLedger, NeverOverdrawn
<1>2. ASSUME NEW c \in Calls, Connect(c)
      PROVE  IInv'
  BY <1>2 DEF IInv, Connect, BalanceIsLedger, NeverOverdrawn
<1>3. ASSUME NEW c \in Calls, LockRow(c)
      PROVE  IInv'
  BY <1>3 DEF IInv, LockRow, BalanceIsLedger, NeverOverdrawn
<1>4. ASSUME NEW c \in Calls, Refuse(c) \/ Overflow(c)
      PROVE  IInv'
  BY <1>4 DEF IInv, Refuse, Overflow, Release, BalanceIsLedger, NeverOverdrawn
<1>5. ASSUME NEW c \in Calls, stage[c] = "locked", Commit(c),
             NEW answer \in {"committed", "error"}, Release(c, answer),
             UNCHANGED <<home, amount, seen>>
      PROVE  IInv'
  <2>1. TypeOK'
    BY <1>5, CommitAccount DEF IInv, Release
  <2>2. LockInv'
    <3>1. lock' = {}
      BY <1>5 DEF IInv, Release
    <3>. QED
      BY <1>5, <3>1 DEF IInv, Release
  <2>3. BookedInv'
    BY <1>5, CommitFacts DEF IInv, Release
  <2>. QED
    BY <2>1, <2>2, <2>3, <1>5, CommitAccount DEF IInv
<1>6. ASSUME NEW c \in Calls, Book(c)
      PROVE  IInv'
  BY <1>5, <1>6 DEF Book
<1>7. ASSUME NEW c \in Calls, Refresh(c)
      PROVE  IInv'
  BY <1>7 DEF IInv, Refresh, BalanceIsLedger, NeverOverdrawn
<1>8. ASSUME NEW c \in Calls, Raise(c)
      PROVE  IInv'
  <2>1. CASE stage[c] = "locked" /\ Commit(c)
    BY <1>5, <1>8, <2>1 DEF Raise
  <2>2. CASE UNCHANGED account
    BY <1>8, <2>2 DEF IInv, Raise, Release, BalanceIsLedger, NeverOverdrawn
  <2>. QED
    BY <1>8, <2>1, <2>2 DEF Raise
<1>9. ASSUME NEW c \in Calls, PoolTimeout(c)
      PROVE  IInv'
  BY <1>9 DEF IInv, PoolTimeout, BalanceIsLedger, NeverOverdrawn
<1>10. ASSUME NEW r \in Replicas, Restart(r)
       PROVE  IInv'
  BY <1>10 DEF IInv, Restart, BalanceIsLedger, NeverOverdrawn
<1>11. CASE UNCHANGED vars
  BY <1>11 DEF IInv, vars, BalanceIsLedger, NeverOverdrawn
<1>. QED
  BY <1>1, <1>2, <1>3, <1>4, <1>6, <1>7, <1>8, <1>9, <1>10, <1>11 DEF Next

THEOREM Invariance == Spec => []IInv
BY InvInit, InvStep, PTL DEF Spec

(* companies.token_balance is always the sum of the company's ledger.      *)
THEOREM LedgerCorrect == Spec => []BalanceIsLedger
<1>1. IInv => BalanceIsLedger
  BY DEF IInv
<1>. QED
  BY <1>1, Invariance, PTL

(* However many calls spend concurrently, the balance stays in its range.  *)
THEOREM SolvencyCorrect == Spec => []NeverOverdrawn
<1>1. IInv => NeverOverdrawn
  BY DEF IInv
<1>. QED
  BY <1>1, Invariance, PTL

(* Every call is in one of the stages of AdjustTokens, and what sessions,  *)
(* pools and the account hold has its type.                                *)
THEOREM TypeCorrect == Spec => []TypeOK
<1>1. IInv => TypeOK
  BY DEF IInv
<1>. QED
  BY <1>1, Invariance, PTL

(* A call answered with a balance is booked, one that is refused is not.   *)
THEOREM AnswersCorrect == Spec => []AnswersAreTrue
<1>1. IInv => AnswersAreTrue
  BY DEF IInv, BookedInv, AnswersAreTrue
<1>. QED
  BY <1>1, Invariance, PTL

-----------------------------------------------------------------------------

LEMMA AccountStep == IInv /\ [Next]_vars => [Account!Next]_account
<1>. SUFFICES ASSUME IInv, [Next]_vars
              PROVE  [Account!Next]_account
  OBVIOUS
<1>1. ASSUME NEW c \in Calls, stage[c] = "locked", Commit(c)
      PROVE  Account!Next
  <2>1. amount[c] \in Amounts
    BY <1>1 DEF IInv, BookedInv
  <2>2. Account!Adjust(c, amount[c])
    BY <1>1, CommitFacts DEF Account!Adjust
  <2>. QED
    BY <2>1, <2>2 DEF Account!Next
<1>2. CASE Next
  BY <1>1, <1>2 DEF Next, Call, Connect, LockRow, Refuse, Overflow, Book, Refresh, Raise,
                    PoolTimeout, Restart
<1>3. CASE UNCHANGED vars
  BY <1>3 DEF vars
<1>. QED
  BY <1>2, <1>3

(* AdjustTokens implements the atomic account: whatever the interleaving,  *)
(* the failures and the restarts, each step on companies and token_ledger  *)
(* is one whole adjustment, of a call not booked before.                   *)
THEOREM AccountRefinement == Spec => IsAtomic
<1>1. Init => Account!Init
  BY DEF Init, Account!Init
<1>2. IInv /\ [Next]_vars => [Account!Next]_(Account!vars)
  BY AccountStep DEF account, Account!vars
<1>. QED
  BY <1>1, <1>2, Invariance, PTL DEF Spec, IsAtomic, Account!Spec

-----------------------------------------------------------------------------
(* The connection pools and the row lock.                                  *)

Lent(r) == {c \in conns : home[c] = r}

(* A session keeps its connection only while it waits for the row or holds *)
(* it, and no pool lends more connections than it has.                     *)
PoolInv ==
  /\ \A c \in Calls : c \in conns <=> stage[c] \in {"waiting", "locked"}
  /\ \A r \in Replicas : IsFiniteSet(Lent(r)) /\ Cardinality(Lent(r)) <= PoolSize

(* What a session needs for its next statement: nothing, the row, or a     *)
(* connection.                                                             *)
CanStep(c) ==
  \/ stage[c] = "locked"
  \/ stage[c] = "waiting" /\ lock = {}
  \/ stage[c] \in {"queued", "committed"} /\ ~Full(home[c])

(* A call that cannot go on is blocked by a session that can, and that     *)
(* holds a connection: the lock and the pool never block each other, and   *)
(* the calls that need a second connection to answer hold none meanwhile.  *)
NeverStuck ==
  \A c \in Calls : stage[c] \in Active =>
    \E d \in Calls : CanStep(d) /\ (d = c \/ d \in conns)

LEMMA PoolInit == Init => PoolInv
<1>1. Init => \A r \in Replicas : Lent(r) = {}
  BY DEF Init, Lent
<1>. QED
  BY <1>1, FS_EmptySet, BillingAssumption DEF Init, PoolInv

(* Taking a connection of a pool that is not full, or giving some back,    *)
(* keeps every pool within its size.                                       *)
LEMMA LentStep ==
  ASSUME TypeOK, PoolInv, UNCHANGED home, NEW c \in Calls,
         conns' \subseteq conns \/ (conns' = conns \cup {c} /\ ~Full(home[c]))
  PROVE  (\A r \in Replicas : IsFiniteSet(Lent(r)) /\ Cardinality(Lent(r)) <= PoolSize)'
<1>. SUFFICES ASSUME NEW r \in Replicas
              PROVE  IsFiniteSet(Lent(r)') /\ Cardinality(Lent(r)') <= PoolSize
  OBVIOUS
<1>1. IsFiniteSet(Lent(r)) /\ Cardinality(Lent(r)) <= PoolSize /\ PoolSize \in Nat
  BY BillingAssumption DEF PoolInv
<1>2. Cardinality(Lent(r)) \in Nat
  BY <1>1, FS_CardinalityType
<1>3. CASE Lent(r)' \subseteq Lent(r)
  <2>1. IsFiniteSet(Lent(r)') /\ Cardinality(Lent(r)') <= Cardinality(Lent(r))
    BY <1>1, <1>3, FS_Subset
  <2>2. Cardinality(Lent(r)') \in Nat
    BY <2>1, FS_CardinalityType
  <2>. QED
    BY <1>1, <1>2, <2>1, <2>2
<1>4. CASE ~(Lent(r)' \subseteq Lent(r))
  <2>1. Lent(r)' = Lent(r) \cup {c} /\ home[c] = r /\ ~Full(r) /\ c \notin Lent(r)
    BY <1>4 DEF Lent
  <2>2. Cardinality(Lent(r)) < PoolSize
    BY <1>1, <1>2, <2>1 DEF Full, Lent
  <2>3. IsFiniteSet(Lent(r)') /\ Cardinality(Lent(r)') = Cardinality(Lent(r)) + 1
    BY <1>1, <2>1, FS_AddElement
  <2>. QED
    BY <1>1, <1>2, <2>2, <2>3
<1>. QED
  BY <1>3, <1>4

LEMMA PoolStep == IInv /\ PoolInv /\ [Next]_vars => PoolInv'
<1>. SUFFICES ASSUME IInv, PoolInv, [Next]_vars
              PROVE  PoolInv'
  OBVIOUS
<1>0. TypeOK /\ UNCHANGED home
  BY DEF IInv, Next, vars, Call, Connect, LockRow, Refuse, Overflow, Book, Refresh, Raise,
         PoolTimeout, Restart
<1>1. \A c \in Calls : c \in conns' <=> stage'[c] \in {"waiting", "locked"}
  BY <1>0 DEF PoolInv, TypeOK, Active, Next, vars, Call, Connect, LockRow, Refuse, Overflow,
     Book, Refresh, Raise, PoolTimeout, Restart, Release
<1>2. \/ conns' \subseteq conns
      \/ \E c \in Calls : conns' = conns \cup {c} /\ ~Full(home[c])
  BY DEF Next, vars, Call, Connect, LockRow, Refuse, Overflow, Book, Refresh, Raise,
         PoolTimeout, Restart, Release
<1>3. (\A r \in Replicas : IsFiniteSet(Lent(r)) /\ Cardinality(Lent(r)) <= PoolSize)'
  <2>1. CASE \E c \in Calls : TRUE
    BY <1>0, <1>2, <2>1, LentStep
  <2>2. CASE Calls = {}
    <3>1. \A r \in Replicas : Lent(r)' = Lent(r)
      BY <1>0, <1>2, <2>2 DEF TypeOK, Lent
    <3>. QED
      BY <3>1 DEF PoolInv
  <2>. QED
    BY <2>1, <2>2
<1>. QED
  BY <1>1, <1>3 DEF PoolInv

(* No replica's pool lends more connections than it has, and only sessions *)
(* that wait for the company's row or hold it keep one.                    *)
THEOREM PoolsHold == Spec => []PoolInv
<1>1. Init => IInv /\ PoolInv
  BY InvInit, PoolInit
<1>2. IInv /\ PoolInv /\ [Next]_vars => IInv' /\ PoolInv'
  BY InvStep, PoolStep
<1>. QED
  BY <1>1, <1>2, PTL DEF Spec

(* The safety half of "every call is answered": whatever the number of     *)
(* calls and the size of the pools, calls never wait for each other in a   *)
(* circle.                                                                 *)
THEOREM NoDeadlock == Spec => []NeverStuck
<1>1. IInv /\ PoolInv => NeverStuck
  <2>. SUFFICES ASSUME IInv, PoolInv, NEW c \in Calls, stage[c] \in Active
                PROVE  \E d \in Calls : CanStep(d) /\ (d = c \/ d \in conns)
    BY DEF NeverStuck
  <2>1. CASE lock # {}
    <3>1. PICK d \in Calls : d \in lock
      BY <2>1 DEF IInv, TypeOK
    <3>2. stage[d] = "locked" /\ d \in conns
      BY <3>1 DEF IInv, LockInv, PoolInv
    <3>. QED
      BY <3>2 DEF CanStep
  <2>2. CASE lock = {} /\ \E d \in Calls : d \in conns
    <3>1. PICK d \in Calls : d \in conns
      BY <2>2
    <3>2. stage[d] = "waiting"
      BY <2>2, <3>1 DEF IInv, LockInv, PoolInv
    <3>. QED
      BY <2>2, <3>1, <3>2 DEF CanStep
  <2>3. CASE lock = {} /\ conns = {}
    <3>1. stage[c] \in {"queued", "committed"}
      BY <2>3 DEF IInv, LockInv, PoolInv, Active
    <3>2. {d \in conns : home[d] = home[c]} = {}
      BY <2>3
    <3>3. ~Full(home[c])
      BY <3>2, FS_EmptySet, BillingAssumption DEF Full
    <3>. QED
      BY <3>1, <3>3 DEF CanStep
  <2>. QED
    BY <2>1, <2>2, <2>3 DEF IInv, TypeOK
<1>2. Spec => [](IInv /\ PoolInv)
  BY Invariance, PoolsHold, PTL
<1>. QED
  BY <1>1, <1>2, PTL
=============================================================================
