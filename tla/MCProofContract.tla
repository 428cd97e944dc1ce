--------------------------- MODULE MCProofContract ---------------------------
(* Instances of ProofContract for TLC. *)
EXTENDS ProofContract, TLC

Item(success, excerpt, flag) ==
  [payload |-> "p", success |-> success, excerpt |-> excerpt, flag |-> flag]

(* A flag that only prose claims; a flag in the raw output; a tool that    *)
(* failed but left a flag; a tool that succeeded.                          *)
Claimed == Item(TRUE, "text", TRUE)
Proven == Item(TRUE, "flag", TRUE)
Failed == Item(FALSE, "blank", TRUE)
Quiet == Item(TRUE, "blank", FALSE)

SomeEvidence == {Claimed, Proven, Failed, Quiet}

Copies(e, n) == [x \in SomeEvidence |-> IF x = e THEN n ELSE 0]

SomeLists == {Copies(e, 1) : e \in SomeEvidence} \cup {Copies(Quiet, 0), Copies(Quiet, 2)}

Symmetry == Permutations(Keys)
=============================================================================
