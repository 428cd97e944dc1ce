---------------------------- MODULE ScanLifecycle ----------------------------
(***************************************************************************)
(* What a client of the Brain may see of one scan: the status column, the  *)
(* findings stored for it and its report.  The status walks the pipeline   *)
(* one phase at a time or drops to FAILED, and never leaves FAILED; the    *)
(* findings appear once, all together, while the scan is ANALYZING; the    *)
(* report appears while it is GENERATING_REPORT and describes exactly the  *)
(* stored findings.  ScanWorkflow implements this contract when a single   *)
(* Brain pod serves the task queue (ScanWorkflow!Implements).              *)
(***************************************************************************)
CONSTANT Findings

VARIABLES
  status,   \* scans.status, or "none" while there is no row
  stored,   \* the findings that have a row in table vulnerabilities
  report    \* scans.report_pdf: {} (NULL) or {S}, the report on the findings S

vars == <<status, stored, report>>

(* The phases in the order the workflow announces them.                    *)
Order == { <<"PENDING", "PROVISIONING">>,
           <<"PROVISIONING", "RECONNAISSANCE">>,
           <<"RECONNAISSANCE", "SEEDING">>,
           <<"SEEDING", "ATTACKING">>,
           <<"ATTACKING", "ANALYZING">>,
           <<"ANALYZING", "GENERATING_REPORT">>,
           <<"GENERATING_REPORT", "CLEANING_UP">>,
           <<"CLEANING_UP", "COMPLETED">> }

Init == status = "none" /\ stored = {} /\ report = {}

Submit ==
  /\ status = "none"
  /\ status' = "PENDING"
  /\ UNCHANGED <<stored, report>>

Advance ==
  /\ <<status, status'>> \in Order
  /\ status' = "COMPLETED" => report = {stored}
  /\ UNCHANGED <<stored, report>>

Store ==
  /\ status = "ANALYZING"
  /\ stored = {}
  /\ stored' \in SUBSET Findings
  /\ UNCHANGED <<status, report>>

Publish ==
  /\ status = "GENERATING_REPORT"
  /\ report = {}
  /\ report' = {stored}
  /\ UNCHANGED <<status, stored>>

(* A COMPLETED scan may still drop to FAILED: the write of COMPLETED took  *)
(* effect but its acknowledgement did not reach the workflow in time.      *)
Fail ==
  /\ status \notin {"none", "FAILED"}
  /\ status' = "FAILED"
  /\ UNCHANGED <<stored, report>>

Next == Submit \/ Advance \/ Store \/ Publish \/ Fail

Spec == Init /\ [][Next]_vars
=============================================================================
