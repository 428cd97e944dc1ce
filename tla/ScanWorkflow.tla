---------------------------- MODULE ScanWorkflow -----------------------------
(***************************************************************************)
(* One pentest scan, from the StartScan call that creates it to the end of *)
(* its Temporal workflow: the gRPC handler (scans.py), the workflow        *)
(* (graph_pentest_workflow.py, or the older pentest_workflow.py), the      *)
(* database activities it awaits (db_activities.py), the Brain pods that   *)
(* execute them, and, as environment, the Temporal service and the         *)
(* Deployer.                                                               *)
(*                                                                         *)
(* The workflow awaits one activity at a time; pc names it.  A status      *)
(* update is named by the status it writes.  An activity is executed in    *)
(* attempts.  An attempt that raises is retried, because no call sets a    *)
(* retry policy; an attempt whose pod dies is never retried, because no    *)
(* call sets start_to_close_timeout; and schedule_to_close_timeout makes   *)
(* the workflow give up while an attempt may still be running.  The        *)
(* database activities are `async def` functions around blocking calls, so *)
(* a pod that executes one can run no workflow code until it returns.      *)
(***************************************************************************)
EXTENDS Naturals, FiniteSets

CONSTANTS
  Findings,   \* the findings the two pentest workers may report, deduplicated
  Pods,       \* the Brain replicas that poll BRAIN_TASK_QUEUE
  Pipelines,  \* the workflows that may be launched, a subset of AllPipelines
  Faults,     \* the faults the environment may inject, a subset of AllFaults
  MaxRows     \* bound on the rows that retried saves insert for one finding

(* "db": a database call raises, before or after its commit took effect;   *)
(* "deadline": an activity outlives its schedule_to_close_timeout;         *)
(* "restart": a pod dies; "launch": start_workflow raises.                 *)
AllFaults == {"db", "deadline", "restart", "launch"}

(* GraphDrivenPentestWorkflow, which StartScan names, and PentestWorkflow, *)
(* which the worker still serves.                                          *)
AllPipelines == {"graph", "image"}

ASSUME ScanAssumption ==
  /\ Pods # {}
  /\ Pipelines \subseteq AllPipelines
  /\ Faults \subseteq AllFaults
  /\ MaxRows \in Nat \ {0}

VARIABLES
  rpc,        \* progress of the StartScan handler
  host,       \* the pod that serves it
  pipeline,   \* the workflow it launches
  pc,         \* the activity the workflow awaits, or how the workflow ended
  task,       \* that activity, as the Temporal service sees it
  cause,      \* what sent the workflow to its failure handler
  findings,   \* what _ingest_findings returned
  pod,        \* the database attempt each pod is executing
  deployer,   \* the Deployer attempts that are executing
  status, completedAt, vulns, pdf,  \* the scan in PostgreSQL
  sandbox,    \* the namespace aegis-war-room-<scan_id> exists
  gaveUp,     \* history: the activities the workflow gave up on
  resaved     \* history: rows of a finding from saves that raised after all

rpcVars == <<rpc, host, pipeline>>
flowVars == <<pc, task, cause, findings, gaveUp>>
dbVars == <<status, completedAt, vulns, pdf, resaved>>
vars == <<rpcVars, flowVars, pod, deployer, dbVars, sandbox>>

-----------------------------------------------------------------------------
(* The activities.                                                         *)

Phases == { "PROVISIONING", "RECONNAISSANCE", "SEEDING", "ATTACKING", "ANALYZING",
            "GENERATING_REPORT", "CLEANING_UP", "COMPLETED", "FAILED" }

(* A plausible bug: COMPLETED is missing, so it gets no completed_at.      *)
BrokenTerminal == {"FAILED", "CANCELLED"}

TERMINAL_SCAN_STATUSES == {"COMPLETED", "FAILED", "CANCELLED"}

(* Activities of db_activities.py, all executed by the Brain's pods.       *)
Writes == Phases \cup {"bundle", "seedBundle", "crewReport", "save", "pdf"}
(* CreateSandbox, DestroySandbox and, as "undo", DestroySandbox when it is *)
(* called from the failure handler.                                        *)
DeployerSteps == {"create", "cleanup", "undo"}
(* Activities that leave no trace in the state modelled here.              *)
Reads == {"download", "targets", "topology", "seed", "pentest", "pollers", "crew"}
Steps == Writes \cup DeployerSteps \cup Reads
(* "wedged": the failure handler ended by re-raising an exception that is  *)
(* no Temporal failure, so Temporal retries the workflow task for ever.    *)
Ended == {"succeeded", "failed", "wedged"}

-----------------------------------------------------------------------------
(* The control flow of run(): which activity is awaited after which.       *)

ProvisionGraph ==
  { <<"download", "targets">>, <<"targets", "PROVISIONING">>,
    <<"PROVISIONING", "topology">>, <<"PROVISIONING", "create">>,
    <<"topology", "create">> }

ProvisionImage ==
  { <<"PROVISIONING", "download">>, <<"PROVISIONING", "create">>,
    <<"download", "create">> }

AttackGraph ==
  { <<"pentest", "pollers">>, <<"pollers", "crew">>, <<"pollers", "crewReport">>,
    <<"crew", "crewReport">>, <<"crew", "ANALYZING">>, <<"crewReport", "ANALYZING">> }

AttackImage == { <<"pentest", "ANALYZING">> }

(* An optional debug bundle reference is stored after CreateSandbox and    *)
(* after SeedTargetDatabases.                                              *)
Deploy ==
  { <<"create", "bundle">>, <<"create", "RECONNAISSANCE">>,
    <<"bundle", "RECONNAISSANCE">>, <<"RECONNAISSANCE", "SEEDING">>,
    <<"SEEDING", "seed">>, <<"seed", "seedBundle">>, <<"seed", "ATTACKING">>,
    <<"seedBundle", "ATTACKING">>, <<"ATTACKING", "pentest">> }

(* A plausible bug: the happy path forgets the teardown.                   *)
BrokenDeliver ==
  { <<"ANALYZING", "save">>, <<"save", "GENERATING_REPORT">>,
    <<"GENERATING_REPORT", "pdf">>, <<"pdf", "CLEANING_UP">>,
    <<"CLEANING_UP", "COMPLETED">> }

(* A plausible bug: the next phase is announced before the findings are    *)
(* stored.                                                                 *)
BrokenOrder ==
  { <<"ANALYZING", "GENERATING_REPORT">>, <<"GENERATING_REPORT", "save">>,
    <<"save", "pdf">>, <<"pdf", "CLEANING_UP">>,
    <<"CLEANING_UP", "cleanup">>, <<"cleanup", "COMPLETED">> }

Deliver ==
  { <<"ANALYZING", "save">>, <<"save", "GENERATING_REPORT">>,
    <<"GENERATING_REPORT", "pdf">>, <<"pdf", "CLEANING_UP">>,
    <<"CLEANING_UP", "cleanup">>, <<"cleanup", "COMPLETED">> }

First == IF pipeline = "graph" THEN {"download", "targets"} ELSE {"PROVISIONING"}

Edges == Deploy \cup Deliver \cup
         IF pipeline = "graph" THEN ProvisionGraph \cup AttackGraph
                               ELSE ProvisionImage \cup AttackImage

(* After these the sandbox request is validated; a bad one raises an       *)
(* ApplicationError.                                                       *)
Validated == IF pipeline = "graph" THEN {"PROVISIONING", "topology"}
                                   ELSE {"PROVISIONING", "download"}

(* After these the workflow's own code may raise a plain Python exception: *)
(* no workload to clone, no endpoint, an endpoint that does not parse, a   *)
(* finding that makes the ingestion raise (see ProofContract).             *)
Raising ==
  {"ATTACKING", "ANALYZING"} \cup
  IF pipeline = "graph" THEN {"topology", "create", "bundle"} ELSE {}

(* A plausible bug: a failed seeding is logged and the scan goes on.       *)
BrokenTolerated == {"seed", "pollers", "crew"}

(* Activities whose failure does not fail the scan.                        *)
Tolerated == {"pollers", "crew"}

-----------------------------------------------------------------------------

TypeOK ==
  /\ rpc \in {"idle", "inserted", "replied", "failing", "aborted", "dead"}
  /\ host \in Pods /\ pipeline \in Pipelines
  /\ pc \in Steps \cup Ended \cup {"unstarted"}
  /\ task \in {"none", "scheduled", "started", "done", "failed"}
  /\ cause \in {"none", "rejected", "local", "activity"}
  /\ findings \subseteq Findings
  /\ pod \in [Pods -> Writes \cup {"idle"}]
  /\ deployer \subseteq DeployerSteps
  /\ status \in Phases \cup {"none", "PENDING"}
  /\ completedAt \in BOOLEAN
  /\ vulns \in [Findings -> Nat] /\ resaved \in [Findings -> Nat]
  /\ pdf \in {{}} \cup {{S} : S \in SUBSET Findings}
  /\ sandbox \in BOOLEAN
  /\ gaveUp \subseteq Steps

Init ==
  /\ rpc = "idle"
  /\ host \in Pods /\ pipeline \in Pipelines
  /\ pc = "unstarted"
  /\ task = "none"
  /\ cause = "none"
  /\ findings = {}
  /\ pod = [p \in Pods |-> "idle"]
  /\ deployer = {}
  /\ status = "none"
  /\ completedAt = FALSE
  /\ vulns = [f \in Findings |-> 0]
  /\ pdf = {}
  /\ sandbox = FALSE
  /\ gaveUp = {}
  /\ resaved = [f \in Findings |-> 0]

-----------------------------------------------------------------------------
(* ScanService.StartScan.                                                  *)

(* The row is inserted; or _start_scan_db raises, with or without the row  *)
(* committed, and the call ends before it launched the workflow.           *)
InsertScan ==
  /\ rpc = "idle"
  /\ \/ rpc' = "inserted" /\ status' = "PENDING"
     \/ "db" \in Faults /\ rpc' = "dead" /\ status' \in {status, "PENDING"}
  /\ UNCHANGED <<host, pipeline, flowVars, pod, deployer, completedAt, vulns, pdf,
                 resaved, sandbox>>

(* The Temporal service accepts the workflow.                              *)
Begins ==
  /\ pc' \in First
  /\ task' = "scheduled"
  /\ UNCHANGED <<cause, findings, gaveUp>>

Launch ==
  /\ rpc = "inserted"
  /\ rpc' = "replied"
  /\ Begins
  /\ UNCHANGED <<host, pipeline, pod, deployer, dbVars, sandbox>>

(* start_workflow raises; the service may have accepted the workflow or    *)
(* not.                                                                    *)
LaunchRaises ==
  /\ "launch" \in Faults
  /\ rpc = "inserted"
  /\ rpc' = "failing"
  /\ Begins \/ UNCHANGED flowVars
  /\ UNCHANGED <<host, pipeline, pod, deployer, dbVars, sandbox>>

(* A plausible bug: a scan whose launch failed goes back to PENDING, to be *)
(* started again.                                                          *)
BrokenMarkFailed ==
  /\ rpc = "failing"
  /\ rpc' = "aborted"
  /\ status' = "PENDING"
  /\ UNCHANGED <<host, pipeline, flowVars, pod, deployer, completedAt, vulns, pdf,
                 resaved, sandbox>>

(* _update_scan_status_db(scan_id, "FAILED"); this UPDATE sets no          *)
(* completed_at.                                                           *)
MarkFailed ==
  /\ rpc = "failing"
  /\ rpc' = "aborted"
  /\ \/ status' = "FAILED"
     \/ "db" \in Faults /\ UNCHANGED status
  /\ UNCHANGED <<host, pipeline, flowVars, pod, deployer, completedAt, vulns, pdf,
                 resaved, sandbox>>

-----------------------------------------------------------------------------
(* Attempts of database activities.                                        *)

(* A plausible bug: the name of any activity is written as the status.     *)
BrokenSetStatus(s) ==
  /\ status' = s
  /\ completedAt' = (completedAt \/ s \in TERMINAL_SCAN_STATUSES)

SetStatus(s) ==
  /\ status' = IF s \in Phases THEN s ELSE status
  /\ completedAt' = (completedAt \/ s \in TERMINAL_SCAN_STATUSES)

(* A plain INSERT of every finding.                                        *)
SaveVulnerabilities(s) ==
  vulns' = [f \in Findings |->
              IF s = "save" /\ f \in findings THEN vulns[f] + 1 ELSE vulns[f]]

StoreReport(s) == pdf' = IF s = "pdf" THEN {findings} ELSE pdf

(* The committed effect of an attempt of s.  The debug bundle and crew     *)
(* report columns are left out.                                            *)
Commit(s) == SetStatus(s) /\ SaveVulnerabilities(s) /\ StoreReport(s)

(* The Temporal service learns how the attempt of s ended.  It ignores the *)
(* answer when the workflow already gave up on s.                          *)
Report(s, answer) ==
  task' = IF s = pc /\ task = "started" THEN answer ELSE task

Pick(p) ==
  /\ task = "scheduled"
  /\ pc \in Writes
  /\ pod[p] = "idle"
  /\ pc = "save" => \A f \in findings : vulns[f] < MaxRows
  /\ task' = "started"
  /\ pod' = [pod EXCEPT ![p] = pc]
  /\ UNCHANGED <<rpcVars, pc, cause, findings, gaveUp, deployer, dbVars, sandbox>>

Succeed(p) ==
  /\ pod[p] # "idle"
  /\ Commit(pod[p])
  /\ Report(pod[p], "done")
  /\ pod' = [pod EXCEPT ![p] = "idle"]
  /\ UNCHANGED <<rpcVars, pc, cause, findings, gaveUp, deployer, resaved, sandbox>>

(* The attempt raises.  The rows may be committed all the same: commit()   *)
(* lost its answer, or what follows it in the same try block raised.       *)
Resave ==
  resaved' = [f \in Findings |->
                IF vulns'[f] # vulns[f] THEN resaved[f] + 1 ELSE resaved[f]]

Raise(p) ==
  /\ "db" \in Faults
  /\ pod[p] # "idle"
  /\ \/ Commit(pod[p]) /\ Resave
     \/ UNCHANGED dbVars
  /\ Report(pod[p], "scheduled")
  /\ pod' = [pod EXCEPT ![p] = "idle"]
  /\ UNCHANGED <<rpcVars, pc, cause, findings, gaveUp, deployer, sandbox>>

Attempt(p) == Succeed(p) \/ Raise(p)

(* The pod dies and comes back: its attempt ends, before or after its      *)
(* commit, and nobody reports it; a StartScan call it serves is lost.      *)
Crash(p) ==
  /\ "restart" \in Faults
  /\ pod' = [pod EXCEPT ![p] = "idle"]
  /\ \/ pod[p] # "idle" /\ Commit(pod[p]) /\ UNCHANGED resaved
     \/ UNCHANGED dbVars
  /\ rpc' = IF p = host /\ rpc \in {"inserted", "failing"} THEN "dead" ELSE rpc
  /\ UNCHANGED <<host, pipeline, flowVars, deployer, sandbox>>

-----------------------------------------------------------------------------
(* Attempts of the other activities, executed by services outside this     *)
(* repository or without an effect on the state.                           *)

Deploying ==
  /\ task = "scheduled"
  /\ pc \in DeployerSteps
  /\ task' = "started"
  /\ deployer' = deployer \cup {pc}
  /\ UNCHANGED <<rpcVars, pc, cause, findings, gaveUp, pod, dbVars, sandbox>>

(* The Deployer ends an attempt, which created or destroyed the namespace, *)
(* and answers; an error answer makes Temporal retry.                      *)
Deployed(s) ==
  /\ s \in deployer
  /\ deployer' = deployer \ {s}
  /\ \/ sandbox' = (s = "create") /\ Report(s, "done")
     \/ sandbox' \in {sandbox, s = "create"} /\ Report(s, "scheduled")
  /\ UNCHANGED <<rpcVars, pc, cause, findings, gaveUp, pod, dbVars>>

Read ==
  /\ task = "scheduled"
  /\ pc \in Reads
  /\ task' = "done"
  /\ UNCHANGED <<rpcVars, pc, cause, findings, gaveUp, pod, deployer, dbVars, sandbox>>

-----------------------------------------------------------------------------
(* The workflow.                                                           *)

(* An attempt whose pod died: only schedule_to_close_timeout ends the wait.*)
Lost == task = "started" /\ pc \in Writes /\ \A p \in Pods : pod[p] # pc

(* A plausible bug: a start_to_close_timeout makes Temporal retry an       *)
(* attempt whose pod died, after it had saved its rows.                    *)
BrokenGiveUp ==
  /\ task \in {"scheduled", "started"}
  /\ \/ /\ "deadline" \in Faults
        /\ task' = "failed"
        /\ gaveUp' = gaveUp \cup {pc}
     \/ Lost /\ task' = "scheduled" /\ UNCHANGED gaveUp
  /\ UNCHANGED <<rpcVars, pc, cause, findings, pod, deployer, dbVars, sandbox>>

(* The activity failed for good: its schedule_to_close_timeout passed, or, *)
(* for an activity executed elsewhere, it failed with a non-retryable      *)
(* error.                                                                  *)
GiveUp ==
  /\ task \in {"scheduled", "started"}
  /\ "deadline" \in Faults \/ Lost
  /\ task' = "failed"
  /\ gaveUp' = gaveUp \cup {pc}
  /\ UNCHANGED <<rpcVars, pc, cause, findings, pod, deployer, dbVars, sandbox>>

(* A workflow task is executed by a pod whose event loop is free.          *)
Activated == \E p \in Pods : pod[p] = "idle"

Await(s) ==
  /\ pc' = s
  /\ task' = IF s \in Steps THEN "scheduled" ELSE "none"

(* Before the save, the findings of the workers are validated against the  *)
(* proof contract and deduplicated: whatever is accepted.                  *)
IngestFindings ==
  IF pc' = "save" THEN findings' \in SUBSET Findings ELSE UNCHANGED findings

(* The awaited activity returned and run() goes on to the next one.        *)
Proceed ==
  /\ task = "done" /\ Activated
  /\ \E s \in Steps : <<pc, s>> \in Edges /\ Await(s)
  /\ IngestFindings
  /\ UNCHANGED <<rpcVars, cause, gaveUp, pod, deployer, dbVars, sandbox>>

Finish ==
  /\ task = "done" /\ Activated
  /\ pc = "COMPLETED"
  /\ Await("succeeded")
  /\ UNCHANGED <<rpcVars, cause, findings, gaveUp, pod, deployer, dbVars, sandbox>>

(* Between two activities run() raises and enters _handle_workflow_failure.*)
RaiseBetween ==
  /\ task = "done" /\ Activated
  /\ \/ pc \in Validated /\ cause' = "rejected"
     \/ pc \in Raising /\ cause' = "local"
  /\ Await("undo")
  /\ UNCHANGED <<rpcVars, findings, gaveUp, pod, deployer, dbVars, sandbox>>

(* A plausible bug: the failure handler forgets the teardown.              *)
BrokenActivityFails ==
  /\ task = "failed" /\ Activated
  /\ pc \notin {"undo", "FAILED"}
  /\ IF pc \in Tolerated
       THEN Await("crewReport") /\ UNCHANGED cause
       ELSE Await("FAILED") /\ cause' = "activity"
  /\ UNCHANGED <<rpcVars, findings, gaveUp, pod, deployer, dbVars, sandbox>>

(* The awaited activity failed in run(): the crew's activities are         *)
(* tolerated, any other failure enters _handle_workflow_failure.           *)
ActivityFails ==
  /\ task = "failed" /\ Activated
  /\ pc \notin {"undo", "FAILED"}
  /\ IF pc \in Tolerated
       THEN Await("crewReport") /\ UNCHANGED cause
       ELSE Await("undo") /\ cause' = "activity"
  /\ UNCHANGED <<rpcVars, findings, gaveUp, pod, deployer, dbVars, sandbox>>

(* A plausible bug: the handler insists on the teardown and starts it      *)
(* again whenever it fails.                                                *)
BrokenHandleFailure ==
  /\ task \in {"done", "failed"} /\ Activated
  /\ \/ pc = "undo" /\ task = "failed" /\ Await("undo")
     \/ pc = "undo" /\ task = "done" /\ Await("FAILED")
     \/ pc = "FAILED" /\ Await(IF task = "done" /\ cause = "local" THEN "wedged" ELSE "failed")
  /\ UNCHANGED <<rpcVars, cause, findings, gaveUp, pod, deployer, dbVars, sandbox>>

(* _handle_workflow_failure: whether the teardown succeeded or not, FAILED *)
(* is written; then the first error is re-raised, or the error of that     *)
(* write.                                                                  *)
HandleFailure ==
  /\ task \in {"done", "failed"} /\ Activated
  /\ \/ pc = "undo" /\ Await("FAILED")
     \/ pc = "FAILED" /\ Await(IF task = "done" /\ cause = "local" THEN "wedged" ELSE "failed")
  /\ UNCHANGED <<rpcVars, cause, findings, gaveUp, pod, deployer, dbVars, sandbox>>

Resume == Proceed \/ Finish \/ RaiseBetween \/ ActivityFails \/ HandleFailure

-----------------------------------------------------------------------------

Next ==
  \/ InsertScan \/ Launch \/ LaunchRaises \/ MarkFailed
  \/ \E p \in Pods : Pick(p) \/ Succeed(p) \/ Raise(p) \/ Crash(p)
  \/ Deploying \/ Read
  \/ \E s \in DeployerSteps : Deployed(s)
  \/ GiveUp
  \/ Proceed \/ Finish \/ RaiseBetween \/ ActivityFails \/ HandleFailure

Spec == Init /\ [][Next]_vars

(* Temporal delivers every workflow task to a live worker and fires every  *)
(* schedule_to_close timer; a blocking database call returns or raises.    *)
(* Nothing is assumed of the Deployer, of the StartScan caller or of which *)
(* attempt is picked.                                                      *)
Fairness ==
  /\ WF_vars(Resume)
  /\ WF_vars(GiveUp)
  /\ \A p \in Pods : WF_vars(Attempt(p))

FairSpec == Spec /\ Fairness

-----------------------------------------------------------------------------
(* Properties.                                                             *)

(* Whoever reads COMPLETED finds every finding the workflow accepted       *)
(* stored, the report written for exactly those findings, the sandbox gone *)
(* and no CreateSandbox attempt that could bring it back.  This holds even *)
(* for a COMPLETED that a late attempt wrote after the workflow failed.    *)
CompletedIsDelivered ==
  status = "COMPLETED" =>
    /\ \A f \in findings : vulns[f] > 0
    /\ pdf = {findings}
    /\ ~sandbox
    /\ "create" \notin deployer

(* A workflow that succeeded leaves status COMPLETED, whatever attempts    *)
(* were retried; only a StartScan handler that saw start_workflow raise    *)
(* can have overwritten it.                                                *)
SuccessIsVisible ==
  pc = "succeeded" => \/ status = "COMPLETED" /\ completedAt
                      \/ rpc = "aborted" /\ status = "FAILED"

(* When the workflow has ended, a sandbox is left over only if the failure *)
(* handler's teardown failed or CreateSandbox outlived its deadline.       *)
LeakNeedsGiveUp ==
  pc \in Ended /\ sandbox => gaveUp \cap {"create", "undo"} # {}

(* Every failure except those of the crew's activities ends the workflow   *)
(* as failed: a workflow that succeeded gave up on nothing else.           *)
SuccessGaveUpOnlyCrew == pc = "succeeded" => gaveUp \subseteq {"pollers", "crew"}

(* A finding is stored twice only by an attempt that raised although it    *)
(* had committed, and once more by each of these: pods that die after a    *)
(* commit, deadlines that pass while an attempt is running and retries of  *)
(* attempts that committed nothing add no row.                             *)
StoredOnceUnlessRaised == \A f \in Findings : vulns[f] <= 1 + resaved[f]

(* Once a workflow is launched it settles: it ends, or its failure handler *)
(* ran and Temporal keeps retrying the task that re-raises the error.      *)
LaunchedSettles == pc # "unstarted" ~> pc \in Ended

(* The contract of ScanLifecycle.                                          *)
Lifecycle == INSTANCE ScanLifecycle WITH
  stored <- {f \in Findings : vulns[f] > 0},
  report <- pdf

(* What a client sees of a scan follows the contract: phases in order,     *)
(* findings before report, nothing after FAILED.  It relies on a single    *)
(* pod: an attempt the workflow gave up on commits before the pod can pick *)
(* the write of FAILED.                                                    *)
Implements == Lifecycle!Spec

(* With any number of pods every step a client sees is one of the          *)
(* contract, as long as the workflow gave up on no database activity and   *)
(* StartScan's error path did not run; and from COMPLETED on, whatever     *)
(* happened before: a late attempt may still write FAILED, but none leads  *)
(* the scan back or changes the findings or the report.                    *)
OnCourse == gaveUp \cap Writes = {} /\ rpc # "aborted"

ContractHolds ==
  [][OnCourse \/ status = "COMPLETED" => [Lifecycle!Next]_(Lifecycle!vars)]_vars

(* "Durable Workflows: ... ensuring scans survive pod restarts" (README):  *)
(* when pods restart and nothing else goes wrong, no scan fails because of *)
(* an activity.                                                            *)
ScansSurviveRestarts ==
  Faults = {"restart"} /\ status = "FAILED" => cause # "activity"
=============================================================================
