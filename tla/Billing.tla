------------------------------- MODULE Billing --------------------------------
(***************************************************************************)
(* BillingService.AdjustTokens (billing.py) on the account of one company. *)
(* Calls run concurrently in the threads of several replicas.  A call      *)
(* takes a connection of its replica's pool, locks the company row         *)
(* (SELECT ... FOR UPDATE), checks the balance it read, writes the new     *)
(* balance and a ledger row in one transaction and, because the session    *)
(* expires its objects on commit, reads the row again, on a connection     *)
(* taken anew, to answer with the balance.                                 *)
(***************************************************************************)
EXTENDS Integers, FiniteSets

CONSTANTS
  Calls,       \* the AdjustTokens calls
  Replicas,    \* the Brain processes
  Amounts,     \* the amounts requested
  MaxBalance,  \* the largest value of the INTEGER column token_balance
  PoolSize,    \* the connections of a replica's SQLAlchemy pool
  Faults       \* the faults the environment may inject, a subset of AllFaults

(* "db": a statement raises, a commit maybe after it took effect; "pool":  *)
(* the wait for a connection times out; "restart": a replica dies.         *)
AllFaults == {"db", "pool", "restart"}

ASSUME BillingAssumption ==
  /\ Amounts \subseteq Int
  /\ MaxBalance \in Nat
  /\ PoolSize \in Nat \ {0}
  /\ Faults \subseteq AllFaults

VARIABLES
  stage,     \* progress of each call, or its answer
  home,      \* the replica that serves it
  amount,    \* its amount
  seen,      \* the balance its session holds
  conns,     \* the calls that hold a connection
  lock,      \* the calls that hold the row lock (at most one)
  balance, booked, granted, spent   \* see TokenAccount

account == <<balance, booked, granted, spent>>
vars == <<stage, home, amount, seen, conns, lock, account>>

Active == {"queued", "waiting", "locked", "committed"}
Answers == {"denied", "insufficient", "error", "ok", "lost"}

(* can_adjust_tokens, over kinds of identity: a role of                    *)
(* TOKEN_ADJUSTMENT_ROLES; a role of TOKEN_CONSUMPTION_ROLES of the        *)
(* company itself; anyone else.                                            *)
Identities == {"adjuster", "consumer", "other"}
CanAdjust(identity, a) ==
  \/ identity = "adjuster"
  \/ identity = "consumer" /\ a < 0

TypeOK ==
  /\ stage \in [Calls -> {"idle"} \cup Active \cup Answers]
  /\ home \in [Calls -> Replicas]
  /\ amount \in [Calls -> Amounts \cup {0}]
  /\ seen \in [Calls -> Int]
  /\ conns \subseteq Calls
  /\ lock \subseteq Calls
  /\ booked \subseteq Calls
  /\ balance \in Int /\ granted \in Nat /\ spent \in Nat

Init ==
  /\ stage = [c \in Calls |-> "idle"]
  /\ home \in [Calls -> Replicas]
  /\ amount = [c \in Calls |-> 0]
  /\ seen = [c \in Calls |-> 0]
  /\ conns = {}
  /\ lock = {}
  /\ balance = 0 /\ booked = {} /\ granted = 0 /\ spent = 0

-----------------------------------------------------------------------------

(* The session ends: the row lock and the connection are given back.       *)
Release(c, answer) ==
  /\ stage' = [stage EXCEPT ![c] = answer]
  /\ lock' = lock \ {c}
  /\ conns' = conns \ {c}

Full(r) == Cardinality({c \in conns : home[c] = r}) >= PoolSize

Call(c) ==
  /\ stage[c] = "idle"
  /\ \E a \in Amounts, identity \in Identities :
       /\ amount' = [amount EXCEPT ![c] = a]
       /\ stage' = [stage EXCEPT ![c] =
                      IF CanAdjust(identity, a) THEN "queued" ELSE "denied"]
  /\ UNCHANGED <<home, seen, conns, lock, account>>

Connect(c) ==
  /\ stage[c] = "queued"
  /\ ~Full(home[c])
  /\ stage' = [stage EXCEPT ![c] = "waiting"]
  /\ conns' = conns \cup {c}
  /\ UNCHANGED <<home, amount, seen, lock, account>>

(* A plausible bug: the row is read without FOR UPDATE.                    *)
BrokenLockRow(c) ==
  /\ stage[c] = "waiting"
  /\ lock' = lock \cup {c}
  /\ seen' = [seen EXCEPT ![c] = balance]
  /\ stage' = [stage EXCEPT ![c] = "locked"]
  /\ UNCHANGED <<home, amount, conns, account>>

LockRow(c) ==
  /\ stage[c] = "waiting"
  /\ lock = {}
  /\ lock' = {c}
  /\ seen' = [seen EXCEPT ![c] = balance]
  /\ stage' = [stage EXCEPT ![c] = "locked"]
  /\ UNCHANGED <<home, amount, conns, account>>

(* A plausible bug: the check compares with the wrong bound.               *)
BrokenInsufficient(c) == amount[c] < 0 /\ seen[c] < 0

Insufficient(c) == amount[c] < 0 /\ seen[c] + amount[c] < 0

(* A plausible bug: the early return leaves the transaction open.          *)
BrokenRefuse(c) ==
  /\ stage[c] = "locked"
  /\ Insufficient(c)
  /\ stage' = [stage EXCEPT ![c] = "insufficient"]
  /\ UNCHANGED <<home, amount, seen, conns, lock, account>>

Refuse(c) ==
  /\ stage[c] = "locked"
  /\ Insufficient(c)
  /\ Release(c, "insufficient")
  /\ UNCHANGED <<home, amount, seen, account>>

(* token_balance, an INTEGER, cannot hold the sum: the UPDATE raises.      *)
Overflow(c) ==
  /\ stage[c] = "locked"
  /\ seen[c] + amount[c] > MaxBalance
  /\ Release(c, "error")
  /\ UNCHANGED <<home, amount, seen, account>>

(* A plausible bug: the ledger row of a consumption has the wrong sign.    *)
BrokenCommit(c) ==
  /\ ~Insufficient(c)
  /\ seen[c] + amount[c] <= MaxBalance
  /\ balance' = seen[c] + amount[c]
  /\ booked' = booked \cup {c}
  /\ granted' = IF amount[c] < 0 THEN granted ELSE granted + amount[c]
  /\ spent' = IF amount[c] < 0 THEN spent + amount[c] ELSE spent

(* The transaction commits: the new balance and a ledger row.              *)
Commit(c) ==
  /\ ~Insufficient(c)
  /\ seen[c] + amount[c] <= MaxBalance
  /\ balance' = seen[c] + amount[c]
  /\ booked' = booked \cup {c}
  /\ granted' = IF amount[c] < 0 THEN granted ELSE granted + amount[c]
  /\ spent' = IF amount[c] < 0 THEN spent - amount[c] ELSE spent

Book(c) ==
  /\ stage[c] = "locked"
  /\ Commit(c)
  /\ Release(c, "committed")
  /\ UNCHANGED <<home, amount, seen>>

(* The answer reads company.token_balance, which was expired by the commit.*)
Refresh(c) ==
  /\ stage[c] = "committed"
  /\ ~Full(home[c])
  /\ seen' = [seen EXCEPT ![c] = balance]
  /\ stage' = [stage EXCEPT ![c] = "ok"]
  /\ UNCHANGED <<home, amount, conns, lock, account>>

(* A plausible bug: the handler of the exception answers with a balance.   *)
BrokenRaise(c) ==
  /\ "db" \in Faults
  /\ stage[c] \in {"waiting", "locked", "committed"}
  /\ \/ stage[c] = "locked" /\ Commit(c)
     \/ UNCHANGED account
  /\ Release(c, "ok")
  /\ UNCHANGED <<home, amount, seen>>

(* A statement raises; the rollback changes nothing that was committed.    *)
Raise(c) ==
  /\ "db" \in Faults
  /\ stage[c] \in {"waiting", "locked", "committed"}
  /\ \/ stage[c] = "locked" /\ Commit(c)
     \/ UNCHANGED account
  /\ Release(c, "error")
  /\ UNCHANGED <<home, amount, seen>>

PoolTimeout(c) ==
  /\ "pool" \in Faults
  /\ stage[c] \in {"queued", "committed"}
  /\ Full(home[c])
  /\ stage' = [stage EXCEPT ![c] = "error"]
  /\ UNCHANGED <<home, amount, seen, conns, lock, account>>

(* A replica dies: its connections drop and PostgreSQL rolls back what it  *)
(* had not committed.  Its callers get no answer.                          *)
Restart(r) ==
  LET dying == {c \in Calls : home[c] = r /\ stage[c] \in Active}
  IN  /\ "restart" \in Faults
      /\ dying # {}
      /\ stage' = [c \in Calls |-> IF c \in dying THEN "lost" ELSE stage[c]]
      /\ conns' = conns \ dying
      /\ lock' = lock \ dying
      /\ UNCHANGED <<home, amount, seen, account>>

-----------------------------------------------------------------------------

(* What the thread that serves a call does next.                           *)
Progress(c) ==
  Connect(c) \/ LockRow(c) \/ Refuse(c) \/ Overflow(c) \/ Book(c) \/ Refresh(c)

Next ==
  \/ \E c \in Calls :
       \/ Call(c) \/ Connect(c) \/ LockRow(c) \/ Refuse(c) \/ Overflow(c)
       \/ Book(c) \/ Refresh(c) \/ Raise(c) \/ PoolTimeout(c)
  \/ \E r \in Replicas : Restart(r)

Spec == Init /\ [][Next]_vars

(* Threads run, and PostgreSQL and the pool serve those who wait in turn.  *)
(* Nothing is assumed of the callers.                                      *)
FairSpec == Spec /\ \A c \in Calls : WF_vars(Progress(c))

-----------------------------------------------------------------------------

(* The balance is what the ledger adds up to, although each call writes    *)
(* the absolute balance it computed from the one it read.                  *)
BalanceIsLedger == balance = granted - spent

(* Concurrent consumptions never overdraw the account, and concurrent      *)
(* grants never exceed the column.                                         *)
NeverOverdrawn == balance \in 0 .. MaxBalance

(* A call that is answered with a balance is booked; one that is refused   *)
(* is not.  (One that is answered with an error, or not at all, may be.)   *)
AnswersAreTrue ==
  \A c \in Calls :
    /\ stage[c] = "ok" => c \in booked
    /\ stage[c] \in {"denied", "insufficient"} => c \notin booked

(* AdjustTokens is atomic: interleaved calls, failures and restarts        *)
(* included, the account moves only as TokenAccount allows.                *)
Account == INSTANCE TokenAccount
IsAtomic == Account!Spec

(* Every call is answered: neither the row lock nor the pool, whose        *)
(* connections the waiters for the lock occupy, blocks a call for ever.    *)
EveryCallAnswered ==
  \A c \in Calls : stage[c] \in Active ~> stage[c] \in Answers
=============================================================================
