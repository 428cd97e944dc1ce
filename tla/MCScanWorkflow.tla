--------------------------- MODULE MCScanWorkflow ----------------------------
(* Instances of ScanWorkflow for TLC. *)
EXTENDS ScanWorkflow, TLC

Restarts == {"restart"}
NoLaunchErrors == AllFaults \ {"launch"}

(* Pods and findings are interchangeable; used in runs without liveness.   *)
Symmetry == Permutations(Pods) \cup Permutations(Findings)
=============================================================================
