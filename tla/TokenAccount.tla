----------------------------- MODULE TokenAccount -----------------------------
(***************************************************************************)
(* What the billing service promises of one company's tokens: every        *)
(* adjustment is booked at most once and takes effect in one step, on the  *)
(* balance and on the ledger together, and the account is never overdrawn. *)
(***************************************************************************)
EXTENDS Integers

CONSTANTS Calls, Amounts, MaxBalance

VARIABLES
  balance,         \* companies.token_balance
  booked,          \* the adjustments that have a row in token_ledger
  granted, spent   \* the ledger's sums of positive and of negative amounts

vars == <<balance, booked, granted, spent>>

Init == balance = 0 /\ booked = {} /\ granted = 0 /\ spent = 0

Adjust(c, a) ==
  /\ c \notin booked
  /\ balance + a \in 0 .. MaxBalance
  /\ booked' = booked \cup {c}
  /\ balance' = balance + a
  /\ granted' = IF a < 0 THEN granted ELSE granted + a
  /\ spent' = IF a < 0 THEN spent - a ELSE spent

Next == \E c \in Calls, a \in Amounts : Adjust(c, a)

Spec == Init /\ [][Next]_vars
=============================================================================
