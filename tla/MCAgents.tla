------------------------------- MODULE MCAgents -------------------------------
(* Instances of Agents for TLC. *)
EXTENDS Agents, TLC

Symmetry == Permutations(Threads)
=============================================================================
