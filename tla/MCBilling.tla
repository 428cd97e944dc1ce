------------------------------ MODULE MCBilling -------------------------------
(* Instance of Billing for TLC. *)
EXTENDS Billing

(* A grant, a grant that may exceed MaxBalance = 3, a consumption.         *)
SomeAmounts == {-2, 1, 3}
=============================================================================
