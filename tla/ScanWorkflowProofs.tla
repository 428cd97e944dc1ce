-------------------------- MODULE ScanWorkflowProofs --------------------------
(***************************************************************************)
(* Proofs about ScanWorkflow for every set of findings, pods and faults.   *)
(*                                                                         *)
(* The safety properties follow from one inductive invariant, IInv.  Its   *)
(* parts say where the workflow must be when an attempt is running (in a   *)
(* pod or in the Deployer), and what the awaited activities left behind.   *)
(* What a client sees follows from two more: FlowInv, what the rows of the *)
(* scan are while an activity of the happy path is awaited, and LateInv,   *)
(* which attempts may be running then and once COMPLETED is written.  With *)
(* one pod TurnInv, that every running attempt may still take its turn,    *)
(* makes the whole scan implement ScanLifecycle.                           *)
(***************************************************************************)
EXTENDS ScanWorkflow, TLAPS

(* From the failure handler's first activity on.                           *)
FailurePath == {"undo", "FAILED", "failed", "wedged"}
AfterSave == { "GENERATING_REPORT", "pdf", "CLEANING_UP", "cleanup",
               "COMPLETED", "succeeded" }
AfterPdf == {"CLEANING_UP", "cleanup", "COMPLETED", "succeeded"}

TaskInv ==
  /\ (pc \in Ended \cup {"unstarted"}) <=> (task = "none")
  /\ rpc \in {"idle", "inserted"} => pc = "unstarted"

(* Until the workflow fails, a pod executes nothing but the activity the   *)
(* workflow awaits; no two pods ever execute the same one.                 *)
AttemptInv ==
  /\ \A p \in Pods : pod[p] # "idle" =>
       \/ pc \in FailurePath
       \/ pod[p] = pc /\ task \in {"started", "failed"}
  /\ \A p \in Pods : pod[p] = "FAILED" => pc \in FailurePath \ {"undo"}
  /\ \A p \in Pods : task = "scheduled" => pod[p] # pc
  /\ \A p, q \in Pods : pod[p] = pod[q] /\ pod[p] # "idle" => p = q

GaveUpInv ==
  /\ task = "failed" => pc \in gaveUp
  /\ pc \in FailurePath \/ gaveUp \subseteq
       Tolerated \cup IF task = "failed" THEN {pc} ELSE {}

DeliveryInv ==
  /\ pc \in AfterSave \/ (pc = "save" /\ task = "done") =>
       \A f \in findings : vulns[f] > 0
  /\ pc \in AfterPdf \/ (pc = "pdf" /\ task = "done") => pdf = {findings}

SandboxInv ==
  /\ "create" \in deployer =>
       \/ pc = "create" /\ task \in {"started", "failed"}
       \/ pc \in FailurePath /\ "create" \in gaveUp
  /\ pc \in {"COMPLETED", "succeeded"} \/ (pc = "cleanup" /\ task = "done") =>
       ~sandbox
  /\ pc \in FailurePath \ {"undo"} \/ (pc = "undo" /\ task = "done") =>
       (sandbox => gaveUp \cap {"create", "undo"} # {})

(* COMPLETED is, or may still be, written.                                 *)
Completing ==
  \/ status = "COMPLETED"
  \/ \E p \in Pods : pod[p] = "COMPLETED"
  \/ pc \in {"COMPLETED", "succeeded"}

CompletedInv ==
  Completing =>
    /\ pc \in {"COMPLETED", "succeeded"} \cup FailurePath
    /\ \A f \in findings : vulns[f] > 0
    /\ pdf = {findings}
    /\ ~sandbox
    /\ "create" \notin deployer

VisibleInv ==
  pc = "succeeded" \/ (pc = "COMPLETED" /\ task = "done") =>
    \/ status = "COMPLETED" /\ completedAt
    \/ rpc = "aborted" /\ status = "FAILED"

(* While an attempt of the save may commit, and until the save is awaited, *)
(* all rows are from attempts that raised.                                 *)
OnceInv ==
  /\ \A f \in Findings : vulns[f] <= 1 + resaved[f]
  /\ \A p \in Pods : pod[p] = "save" => \A f \in Findings : vulns[f] <= resaved[f]
  /\ (\E f \in Findings : vulns[f] > resaved[f]) =>
       \/ pc \in AfterSave \cup FailurePath
       \/ pc = "save" /\ task \in {"started", "done", "failed"}

IInv ==
  /\ TypeOK
  /\ TaskInv
  /\ AttemptInv
  /\ GaveUpInv
  /\ DeliveryInv
  /\ SandboxInv
  /\ CompletedInv
  /\ VisibleInv
  /\ OnceInv

-----------------------------------------------------------------------------

(* The happy path: what an edge of the control flow says of its two ends.  *)
LEMMA EdgeFacts ==
  ASSUME NEW a, NEW b, <<a, b>> \in Edges
  PROVE  /\ a \in Steps \ FailurePath
         /\ a # "COMPLETED"
         /\ b \in Steps \ FailurePath
         /\ b \in AfterSave => a \in AfterSave \cup {"save"}
         /\ b \in AfterPdf => a \in AfterPdf \cup {"pdf"}
         /\ b = "COMPLETED" => a = "cleanup"
         /\ b = "save" => a = "ANALYZING"
BY DEF Edges, Deploy, Deliver, ProvisionGraph, ProvisionImage, AttackGraph,
       AttackImage, Steps, Writes, Phases, DeployerSteps, Reads, FailurePath,
       AfterSave, AfterPdf

-----------------------------------------------------------------------------
(* Type correctness.                                                       *)

LEMMA CommitType ==
  ASSUME TypeOK, NEW s \in Writes, Commit(s)
  PROVE  (status' \in Phases \cup {"none", "PENDING"}) /\ (completedAt' \in BOOLEAN)
         /\ (vulns' \in [Findings -> Nat]) /\ (pdf' \in {{}} \cup {{S} : S \in SUBSET Findings})
<1>1. vulns \in [Findings -> Nat]
  BY DEF TypeOK
<1>2. vulns' \in [Findings -> Nat]
  BY <1>1 DEF Commit, SaveVulnerabilities
<1>3. pdf' \in {{}} \cup {{S} : S \in SUBSET Findings}
  BY DEF TypeOK, Commit, StoreReport
<1>4. completedAt' \in BOOLEAN
  BY Zenon DEF TypeOK, Commit, SetStatus
<1>5. status' \in Phases \cup {"none", "PENDING"}
  BY DEF TypeOK, Commit, SetStatus
<1>. QED
  BY <1>2, <1>3, <1>4, <1>5

LEMMA TypeStep == TypeOK /\ TaskInv /\ [Next]_vars => TypeOK'
<1>. SUFFICES ASSUME TypeOK, TaskInv, [Next]_vars
              PROVE  TypeOK'
  OBVIOUS
<1>. USE DEF TypeOK, rpcVars, flowVars, dbVars
<1>1. CASE InsertScan
  BY <1>1 DEF InsertScan
<1>2. CASE Launch \/ LaunchRaises
  <2>1. pc' \in Steps \cup Ended \cup {"unstarted"}
    BY <1>2 DEF Launch, LaunchRaises, Begins, First, Steps, Reads, Writes, Phases
  <2>. QED
    BY <1>2, <2>1 DEF Launch, LaunchRaises, Begins
<1>3. CASE MarkFailed
  BY <1>3 DEF MarkFailed, Phases
<1>4. ASSUME NEW p \in Pods, Pick(p)
      PROVE  TypeOK'
  BY <1>4 DEF Pick
<1>5. ASSUME NEW p \in Pods, Succeed(p)
      PROVE  TypeOK'
  BY <1>5, CommitType DEF Succeed, Report
<1>6. ASSUME NEW p \in Pods, Raise(p)
      PROVE  TypeOK'
  <2>1. resaved' \in [Findings -> Nat]
    BY <1>6 DEF Raise, Resave
  <2>. QED
    BY <1>6, <2>1, CommitType DEF Raise, Report
<1>7. ASSUME NEW p \in Pods, Crash(p)
      PROVE  TypeOK'
  BY <1>7, CommitType DEF Crash
<1>8. CASE Deploying \/ Read
  BY <1>8 DEF Deploying, Read
<1>9. ASSUME NEW s \in DeployerSteps, Deployed(s)
      PROVE  TypeOK'
  <2>1. sandbox' \in BOOLEAN
    BY <1>9, Zenon DEF Deployed
  <2>2. deployer' \subseteq DeployerSteps
    BY <1>9 DEF Deployed
  <2>. QED
    BY <1>9, <2>1, <2>2 DEF Deployed, Report
<1>10. CASE GiveUp
  <2>1. pc \in Steps
    BY <1>10 DEF GiveUp, TaskInv
  <2>. QED
    BY <1>10, <2>1 DEF GiveUp
<1>11. CASE Resume
  <2>1. CASE Proceed
    BY <2>1 DEF Proceed, IngestFindings, Await
  <2>2. CASE Finish \/ RaiseBetween \/ ActivityFails \/ HandleFailure
    <3>1. pc' \in Steps \cup Ended
      BY <2>2 DEF Finish, RaiseBetween, ActivityFails, HandleFailure, Await, Ended,
                  Steps, DeployerSteps, Writes, Phases
    <3>2. task' \in {"scheduled", "none"}
      BY <2>2 DEF Finish, RaiseBetween, ActivityFails, HandleFailure, Await
    <3>3. cause' \in {"none", "rejected", "local", "activity"}
      BY <2>2 DEF Finish, RaiseBetween, ActivityFails, HandleFailure
    <3>. QED
      BY <2>2, <3>1, <3>2, <3>3
         DEF Finish, RaiseBetween, ActivityFails, HandleFailure
  <2>. QED
    BY <1>11, <2>1, <2>2 DEF Resume
<1>12. CASE UNCHANGED vars
  BY <1>12 DEF vars
<1>. QED
  BY <1>1, <1>2, <1>3, <1>4, <1>5, <1>6, <1>7, <1>8, <1>9, <1>10, <1>11, <1>12
     DEF Next, Resume

LEMMA TaskStep == TypeOK /\ TaskInv /\ [Next]_vars => TaskInv'
<1>. SUFFICES ASSUME TypeOK, TaskInv, [Next]_vars
              PROVE  TaskInv'
  OBVIOUS
<1>. USE DEF TypeOK, TaskInv, rpcVars, flowVars
<1>1. Steps \cap (Ended \cup {"unstarted"}) = {}
  BY DEF Steps, Writes, Phases, DeployerSteps, Reads, Ended
<1>2. First \subseteq Steps
  BY DEF First, Steps, Writes, Phases, Reads
<1>3. CASE InsertScan \/ Launch \/ LaunchRaises \/ MarkFailed
  BY <1>1, <1>2, <1>3 DEF InsertScan, Launch, LaunchRaises, MarkFailed, Begins
<1>4. ASSUME NEW p \in Pods, Pick(p) \/ Succeed(p) \/ Raise(p) \/ Crash(p)
      PROVE  TaskInv'
  BY <1>4 DEF Pick, Succeed, Raise, Crash, Report
<1>5. CASE Deploying \/ Read \/ GiveUp \/ \E s \in DeployerSteps : Deployed(s)
  BY <1>5 DEF Deploying, Read, GiveUp, Deployed, Report
<1>6. CASE Resume
  BY <1>1, <1>6 DEF Resume, Proceed, Finish, RaiseBetween, ActivityFails, HandleFailure,
                    Await, Ended, Steps, Writes, Phases, DeployerSteps
<1>7. CASE UNCHANGED vars
  BY <1>7 DEF vars
<1>. QED
  BY <1>3, <1>4, <1>5, <1>6, <1>7 DEF Next, Resume

LEMMA TypeInit == Init => TypeOK /\ TaskInv
<1>. SUFFICES ASSUME Init
              PROVE  TypeOK /\ TaskInv
  OBVIOUS
<1>1. completedAt \in BOOLEAN /\ sandbox \in BOOLEAN
  BY Zenon DEF Init
<1>2. pod \in [Pods -> Writes \cup {"idle"}] /\ vulns \in [Findings -> Nat]
  BY DEF Init
<1>. QED
  BY <1>1, <1>2 DEF Init, TypeOK, TaskInv, Ended

(* The state of a scan stays within its types: in particular scans.status  *)
(* holds nothing but the phases _update_status is called with.             *)
THEOREM TypeCorrect == Spec => []TypeOK
<1>1. Init => TypeOK /\ TaskInv
  BY TypeInit
<1>2. TypeOK /\ TaskInv /\ [Next]_vars => TypeOK' /\ TaskInv'
  BY TypeStep, TaskStep
<1>. QED
  BY <1>1, <1>2, PTL DEF Spec

-----------------------------------------------------------------------------
(* The parts of the inductive invariant.                                   *)

(* The sets of activities do not overlap.                                  *)
LEMMA Disjoint ==
  /\ Writes \cap (DeployerSteps \cup Reads \cup Ended \cup {"unstarted", "idle"}) = {}
  /\ DeployerSteps \cap (Reads \cup Ended \cup {"unstarted"}) = {}
  /\ Steps \cap (Ended \cup {"unstarted", "idle"}) = {}
  /\ Steps = Writes \cup DeployerSteps \cup Reads
  /\ Tolerated \subseteq Reads
  /\ First \subseteq Steps \ (FailurePath \cup AfterSave \cup {"save", "pdf"})
BY DEF Writes, Phases, DeployerSteps, Reads, Ended, Steps, Tolerated, First,
       FailurePath, AfterSave

LEMMA AttemptStep == TypeOK /\ TaskInv /\ AttemptInv /\ [Next]_vars => AttemptInv'
<1>. SUFFICES ASSUME TypeOK, TaskInv, AttemptInv, [Next]_vars
              PROVE  AttemptInv'
  OBVIOUS
<1>. USE DEF TypeOK, AttemptInv, rpcVars, flowVars
<1>1. CASE InsertScan \/ MarkFailed
  BY <1>1 DEF InsertScan, MarkFailed
<1>2. CASE Launch \/ LaunchRaises
  <2>1. \A p \in Pods : pod[p] = "idle"
    BY <1>2 DEF Launch, LaunchRaises, TaskInv, FailurePath
  <2>. QED
    BY <1>2, <2>1, Disjoint DEF Launch, LaunchRaises, Begins
<1>3. ASSUME NEW p \in Pods, Pick(p)
      PROVE  AttemptInv'
  BY <1>3, Disjoint DEF Pick, FailurePath
<1>4. ASSUME NEW p \in Pods, Succeed(p) \/ Raise(p) \/ Crash(p)
      PROVE  AttemptInv'
  <2>1. /\ pod' = [pod EXCEPT ![p] = "idle"]
        /\ pc' = pc
        /\ task' = task \/ (pod[p] = pc /\ task = "started")
    BY <1>4 DEF Succeed, Raise, Crash, Report
  <2>2. pc # "idle"
    BY Disjoint DEF Ended
  <2>. QED
    BY <2>1, <2>2
<1>5. CASE Deploying \/ Read \/ GiveUp
  BY <1>5, Disjoint DEF Deploying, Read, GiveUp
<1>6. ASSUME NEW s \in DeployerSteps, Deployed(s)
      PROVE  AttemptInv'
  BY <1>6, Disjoint DEF Deployed, Report
<1>7. CASE Proceed
  BY <1>7, EdgeFacts, Disjoint DEF Proceed, Await
<1>8. CASE Finish \/ RaiseBetween
  BY <1>8, Disjoint DEF Finish, RaiseBetween, Await, FailurePath, Validated, Raising
<1>9. CASE ActivityFails
  <2>1. pc \notin FailurePath
    BY <1>9 DEF ActivityFails, TaskInv, FailurePath, Ended
  <2>2. \A p \in Pods : pod[p] = "idle" \/ pod[p] = pc
    BY <2>1
  <2>3. CASE pc \in Tolerated
    BY <1>9, <2>1, <2>2, <2>3, Disjoint DEF ActivityFails, Await
  <2>4. CASE pc \notin Tolerated
    <3>1. pc' = "undo" /\ pod' = pod
      BY <1>9, <2>4 DEF ActivityFails, Await
    <3>2. \A p \in Pods : pod[p] # "undo" /\ pod[p] # "FAILED"
      BY <2>1, Disjoint DEF DeployerSteps, FailurePath
    <3>. QED
      BY <3>1, <3>2 DEF FailurePath
  <2>. QED
    BY <2>3, <2>4
<1>10. CASE HandleFailure
  BY <1>10 DEF HandleFailure, Await, FailurePath, Writes, Phases
<1>11. CASE UNCHANGED vars
  BY <1>11 DEF vars
<1>. QED
  BY <1>1, <1>2, <1>3, <1>4, <1>5, <1>6, <1>7, <1>8, <1>9, <1>10, <1>11
     DEF Next

LEMMA GaveUpStep == TypeOK /\ TaskInv /\ GaveUpInv /\ [Next]_vars => GaveUpInv'
<1>. SUFFICES ASSUME TypeOK, TaskInv, GaveUpInv, [Next]_vars
              PROVE  GaveUpInv'
  OBVIOUS
<1>. USE DEF GaveUpInv, rpcVars, flowVars
<1>1. CASE InsertScan \/ Launch \/ LaunchRaises \/ MarkFailed
  BY <1>1 DEF InsertScan, Launch, LaunchRaises, MarkFailed, Begins, TaskInv, FailurePath
<1>2. ASSUME NEW p \in Pods, Pick(p) \/ Succeed(p) \/ Raise(p) \/ Crash(p)
      PROVE  GaveUpInv'
  BY <1>2 DEF Pick, Succeed, Raise, Crash, Report
<1>3. CASE Deploying \/ Read \/ GiveUp \/ \E s \in DeployerSteps : Deployed(s)
  BY <1>3 DEF Deploying, Read, GiveUp, Deployed, Report
<1>4. CASE Proceed
  BY <1>4, EdgeFacts, Disjoint DEF Proceed, Await
<1>5. CASE Finish \/ RaiseBetween \/ ActivityFails \/ HandleFailure
  <2>1. pc \in FailurePath /\ task # "none" => pc \in {"undo", "FAILED"}
    BY DEF FailurePath, TaskInv, Ended
  <2>. QED
    BY <1>5, <2>1
       DEF Finish, RaiseBetween, ActivityFails, HandleFailure, Await, FailurePath
<1>6. CASE UNCHANGED vars
  BY <1>6 DEF vars
<1>. QED
  BY <1>1, <1>2, <1>3, <1>4, <1>5, <1>6 DEF Next

(* What a step of a pod does to the rows of the scan.                      *)
LEMMA RowsStep ==
  ASSUME TypeOK, NEW p \in Pods, Succeed(p) \/ Raise(p) \/ Crash(p)
  PROVE  /\ \A f \in Findings : vulns'[f] \in {vulns[f], vulns[f] + 1}
         /\ (pdf' = pdf) \/ (pod[p] = "pdf" /\ pdf' = {findings})
         /\ UNCHANGED <<pc, findings, sandbox, deployer, gaveUp, cause>>
<1>1. Commit(pod[p]) =>
        /\ \A f \in Findings : vulns'[f] \in {vulns[f], vulns[f] + 1}
        /\ (pdf' = pdf) \/ (pod[p] = "pdf" /\ pdf' = {findings})
  BY DEF Commit, SaveVulnerabilities, StoreReport, TypeOK
<1>2. UNCHANGED dbVars =>
        /\ \A f \in Findings : vulns'[f] \in {vulns[f], vulns[f] + 1}
        /\ pdf' = pdf
  BY DEF dbVars
<1>3. Commit(pod[p]) \/ UNCHANGED dbVars
  BY DEF Succeed, Raise, Crash
<1>. QED
  BY <1>1, <1>2, <1>3 DEF Succeed, Raise, Crash, flowVars

LEMMA DeliveryStep == TypeOK /\ TaskInv /\ DeliveryInv /\ [Next]_vars => DeliveryInv'
<1>. SUFFICES ASSUME TypeOK, TaskInv, DeliveryInv, [Next]_vars
              PROVE  DeliveryInv'
  OBVIOUS
<1>. USE DEF DeliveryInv, rpcVars, flowVars, dbVars
<1>1. CASE InsertScan \/ MarkFailed
  BY <1>1 DEF InsertScan, MarkFailed
<1>2. CASE Launch \/ LaunchRaises
  BY <1>2, Disjoint DEF Launch, LaunchRaises, Begins, AfterSave, AfterPdf
<1>3. ASSUME NEW p \in Pods, Pick(p)
      PROVE  DeliveryInv'
  BY <1>3 DEF Pick
<1>4. ASSUME NEW p \in Pods, Raise(p) \/ Crash(p)
      PROVE  DeliveryInv'
  <2>1. task' = "done" => task = "done"
    BY <1>4 DEF Raise, Crash, Report
  <2>2. \A f \in findings : vulns[f] > 0 => vulns'[f] > 0
    BY <1>4, RowsStep DEF TypeOK
  <2>. QED
    BY <1>4, <2>1, <2>2, RowsStep
<1>5. ASSUME NEW p \in Pods, Succeed(p)
      PROVE  DeliveryInv'
  <2>1. \A f \in findings : vulns[f] > 0 => vulns'[f] > 0
    BY <1>5, RowsStep DEF TypeOK
  <2>2. task' = "done" => task = "done" \/ pod[p] = pc
    BY <1>5 DEF Succeed, Report
  <2>3. pod[p] = "save" => \A f \in findings : vulns'[f] > 0
    BY <1>5 DEF Succeed, Commit, SaveVulnerabilities, TypeOK
  <2>4. pod[p] = "pdf" => pdf' = {findings}
    BY <1>5 DEF Succeed, Commit, StoreReport
  <2>. QED
    BY <1>5, <2>1, <2>2, <2>3, <2>4, RowsStep DEF AfterSave, AfterPdf
<1>6. CASE Deploying \/ Read \/ GiveUp
  BY <1>6 DEF Deploying, Read, GiveUp, Reads
<1>7. ASSUME NEW s \in DeployerSteps, Deployed(s)
      PROVE  DeliveryInv'
  BY <1>7 DEF Deployed, Report, DeployerSteps
<1>8. CASE Proceed
  <2>1. PICK s \in Steps : <<pc, s>> \in Edges /\ Await(s)
    BY <1>8 DEF Proceed
  <2>2. pc' = s /\ task' # "done" /\ vulns' = vulns /\ pdf' = pdf
    BY <1>8, <2>1 DEF Proceed, Await
  <2>3. s = "save" \/ findings' = findings
    BY <1>8, <2>2 DEF Proceed, IngestFindings
  <2>. QED
    BY <1>8, <2>1, <2>2, <2>3, EdgeFacts DEF Proceed, AfterSave, AfterPdf
<1>9. CASE Finish \/ RaiseBetween \/ ActivityFails \/ HandleFailure
  BY <1>9 DEF Finish, RaiseBetween, ActivityFails, HandleFailure, Await, AfterSave, AfterPdf
<1>10. CASE UNCHANGED vars
  BY <1>10 DEF vars
<1>. QED
  BY <1>1, <1>2, <1>3, <1>4, <1>5, <1>6, <1>7, <1>8, <1>9, <1>10 DEF Next

LEMMA SandboxStep ==
  TypeOK /\ TaskInv /\ GaveUpInv /\ SandboxInv /\ [Next]_vars => SandboxInv'
<1>. SUFFICES ASSUME TypeOK, TaskInv, GaveUpInv, SandboxInv, [Next]_vars
              PROVE  SandboxInv'
  OBVIOUS
<1>. USE DEF SandboxInv, rpcVars, flowVars
<1>1. CASE InsertScan \/ MarkFailed
  BY <1>1 DEF InsertScan, MarkFailed
<1>2. CASE Launch \/ LaunchRaises
  BY <1>2, Disjoint DEF Launch, LaunchRaises, Begins, TaskInv, FailurePath, AfterSave
<1>3. ASSUME NEW p \in Pods, Pick(p) \/ Succeed(p) \/ Raise(p) \/ Crash(p)
      PROVE  SandboxInv'
  <2>1. /\ UNCHANGED <<pc, deployer, sandbox, gaveUp>>
        /\ (task' = task) \/ (pc \in Writes)
    BY <1>3 DEF Pick, Succeed, Raise, Crash, Report, TypeOK
  <2>. QED
    BY <2>1, Disjoint DEF DeployerSteps
<1>4. CASE Deploying
  BY <1>4 DEF Deploying, DeployerSteps, FailurePath
<1>5. CASE Read
  BY <1>5, Disjoint DEF Read, DeployerSteps
<1>6. CASE GiveUp
  BY <1>6 DEF GiveUp
<1>7. ASSUME NEW s \in DeployerSteps, Deployed(s)
      PROVE  SandboxInv'
  <2>1. /\ UNCHANGED <<pc, gaveUp>>
        /\ deployer' = deployer \ {s}
        /\ (task' = task) \/ (s = pc)
        /\ s \in deployer
    BY <1>7 DEF Deployed, Report
  <2>2. (sandbox' => sandbox) \/ (s = "create")
    BY <1>7 DEF Deployed
  <2>3. task' = "done" /\ task # "done" => (s = pc) /\ (s # "create" => ~sandbox')
    BY <1>7 DEF Deployed, Report
  <2>. QED
    BY <2>1, <2>2, <2>3 DEF DeployerSteps, FailurePath
<1>8. CASE Proceed
  <2>1. PICK s \in Steps : <<pc, s>> \in Edges /\ Await(s)
    BY <1>8 DEF Proceed
  <2>2. /\ s \notin FailurePath \cup {"succeeded"}
        /\ pc \notin FailurePath
        /\ s = "COMPLETED" => pc = "cleanup"
    BY <2>1, EdgeFacts, Disjoint DEF Ended
  <2>3. /\ pc' = s
        /\ task = "done" /\ task' = "scheduled"
        /\ UNCHANGED <<deployer, sandbox, gaveUp>>
    BY <1>8, <2>1 DEF Proceed, Await
  <2>. QED
    BY <2>2, <2>3 DEF FailurePath
<1>9. CASE Finish
  BY <1>9 DEF Finish, Await, FailurePath
<1>10. CASE RaiseBetween
  BY <1>10 DEF RaiseBetween, Await, FailurePath, Steps, DeployerSteps, Validated, Raising
<1>11. CASE ActivityFails
  BY <1>11 DEF ActivityFails, Await, FailurePath, GaveUpInv, TaskInv, Ended, Tolerated,
               Steps, DeployerSteps, Writes
<1>12. CASE HandleFailure
  BY <1>12 DEF HandleFailure, Await, FailurePath, GaveUpInv
<1>13. CASE UNCHANGED vars
  BY <1>13 DEF vars
<1>. QED
  BY <1>1, <1>2, <1>3, <1>4, <1>5, <1>6, <1>7, <1>8, <1>9, <1>10, <1>11, <1>12, <1>13
     DEF Next

(* A pod writes no status but the one whose attempt it executes.           *)
LEMMA StatusStep ==
  ASSUME NEW p \in Pods, Succeed(p) \/ Raise(p) \/ Crash(p)
  PROVE  status' \in {status, pod[p]}
BY DEF Succeed, Raise, Crash, Commit, SetStatus, dbVars

LEMMA CompletedStep ==
  IInv /\ [Next]_vars => CompletedInv'
<1>. SUFFICES ASSUME IInv, [Next]_vars
              PROVE  CompletedInv'
  OBVIOUS
<1>. USE DEF IInv, CompletedInv, Completing, rpcVars, flowVars, dbVars
<1>1. CASE InsertScan \/ MarkFailed
  BY <1>1 DEF InsertScan, MarkFailed
<1>2. CASE Launch \/ LaunchRaises
  BY <1>2, Disjoint DEF Launch, LaunchRaises, Begins, TaskInv, FailurePath, AfterSave
<1>3. ASSUME NEW p \in Pods, Pick(p)
      PROVE  CompletedInv'
  BY <1>3 DEF Pick, TypeOK
<1>4. ASSUME NEW p \in Pods, Succeed(p) \/ Raise(p) \/ Crash(p)
      PROVE  CompletedInv'
  <2>1. status' = "COMPLETED" => status = "COMPLETED" \/ pod[p] = "COMPLETED"
    BY <1>4, StatusStep
  <2>2. \A q \in Pods : pod'[q] = "COMPLETED" => pod[q] = "COMPLETED"
    BY <1>4 DEF Succeed, Raise, Crash, TypeOK
  <2>3. Completing' => Completing
    BY <1>4, <2>1, <2>2, RowsStep DEF Completing
  <2>4. \A f \in findings : vulns[f] > 0 => vulns'[f] > 0
    BY <1>4, RowsStep DEF TypeOK
  <2>. QED
    BY <1>4, <2>3, <2>4, RowsStep
<1>5. CASE Deploying \/ Read \/ GiveUp
  BY <1>5 DEF Deploying, Read, GiveUp, FailurePath
<1>6. ASSUME NEW s \in DeployerSteps, Deployed(s)
      PROVE  CompletedInv'
  <2>1. Completing' = Completing /\ "create" \notin deployer => "create" \notin deployer'
    BY <1>6 DEF Deployed
  <2>2. s # "create" => (sandbox' => sandbox)
    BY <1>6 DEF Deployed
  <2>. QED
    BY <1>6, <2>1, <2>2 DEF Deployed
<1>7. CASE Proceed
  <2>1. PICK s \in Steps : <<pc, s>> \in Edges /\ Await(s)
    BY <1>7 DEF Proceed
  <2>2. /\ s # "succeeded"
        /\ pc \notin FailurePath \cup {"COMPLETED", "succeeded"}
        /\ s = "COMPLETED" => pc = "cleanup"
    BY <2>1, EdgeFacts, Disjoint DEF Ended
  <2>3. /\ pc' = s
        /\ task = "done"
        /\ UNCHANGED <<pod, deployer, status, vulns, pdf, sandbox>>
        /\ s = "COMPLETED" => findings' = findings
    BY <1>7, <2>1 DEF Proceed, IngestFindings, Await
  <2>4. CASE s = "COMPLETED"
    BY <2>2, <2>3, <2>4 DEF DeliveryInv, SandboxInv, AfterSave, AfterPdf, FailurePath
  <2>5. CASE s # "COMPLETED"
    BY <2>2, <2>3, <2>5
  <2>. QED
    BY <2>4, <2>5
<1>8. CASE Finish
  BY <1>8 DEF Finish, Await
<1>9. CASE RaiseBetween \/ ActivityFails \/ HandleFailure
  BY <1>9 DEF RaiseBetween, ActivityFails, HandleFailure, Await, FailurePath, Tolerated,
              Validated, Raising
<1>10. CASE UNCHANGED vars
  BY <1>10 DEF vars
<1>. QED
  BY <1>1, <1>2, <1>3, <1>4, <1>5, <1>6, <1>7, <1>8, <1>9, <1>10 DEF Next

LEMMA VisibleStep ==
  IInv /\ [Next]_vars => VisibleInv'
<1>. SUFFICES ASSUME IInv, [Next]_vars
              PROVE  VisibleInv'
  OBVIOUS
<1>. USE DEF IInv, VisibleInv, rpcVars, flowVars, dbVars
<1>1. CASE InsertScan
  BY <1>1 DEF InsertScan, TaskInv
<1>2. CASE Launch \/ LaunchRaises
  BY <1>2, Disjoint DEF Launch, LaunchRaises, Begins, TaskInv, Ended
<1>3. CASE MarkFailed
  BY <1>3 DEF MarkFailed
<1>4. ASSUME NEW p \in Pods, Pick(p)
      PROVE  VisibleInv'
  BY <1>4 DEF Pick, TaskInv, Ended
<1>5. ASSUME NEW p \in Pods, Succeed(p)
      PROVE  VisibleInv'
  <2>1. pod[p] # "idle" /\ pc' = pc /\ pc # "succeeded"
    BY <1>5, Disjoint DEF Succeed, AttemptInv, FailurePath, TypeOK, Ended
  <2>2. CASE pc = "COMPLETED"
    <3>1. pod[p] = "COMPLETED"
      BY <2>1, <2>2 DEF AttemptInv, FailurePath
    <3>2. status' = "COMPLETED" /\ completedAt'
      BY <1>5, <3>1 DEF Succeed, Commit, SetStatus, Phases, TERMINAL_SCAN_STATUSES
    <3>. QED
      BY <3>2
  <2>. QED
    BY <2>1, <2>2
<1>6. ASSUME NEW p \in Pods, Raise(p) \/ Crash(p)
      PROVE  VisibleInv'
  <2>1. CASE pc = "succeeded" \/ (pc = "COMPLETED" /\ task = "done")
    <3>1. pod[p] = "idle"
      BY <2>1 DEF AttemptInv, FailurePath, TaskInv, Ended, TypeOK, Writes, Phases
    <3>2. UNCHANGED dbVars /\ (rpc = "aborted" => rpc' = "aborted")
      BY <1>6, <3>1 DEF Raise, Crash
    <3>. QED
      BY <1>6, <2>1, <3>2
  <2>2. CASE ~(pc = "succeeded" \/ (pc = "COMPLETED" /\ task = "done"))
    BY <1>6, <2>2 DEF Raise, Crash, Report
  <2>. QED
    BY <2>1, <2>2
<1>7. CASE Deploying \/ Read \/ GiveUp \/ \E s \in DeployerSteps : Deployed(s)
  BY <1>7 DEF Deploying, Read, GiveUp, Deployed, Report, DeployerSteps, Reads, TaskInv, Ended
<1>8. CASE Proceed
  BY <1>8, EdgeFacts, Disjoint DEF Proceed, Await, Ended
<1>9. CASE Finish
  BY <1>9 DEF Finish, Await
<1>10. CASE RaiseBetween \/ ActivityFails \/ HandleFailure
  BY <1>10 DEF RaiseBetween, ActivityFails, HandleFailure, Await
<1>11. CASE UNCHANGED vars
  BY <1>11 DEF vars
<1>. QED
  BY <1>1, <1>2, <1>3, <1>4, <1>5, <1>6, <1>7, <1>8, <1>9, <1>10, <1>11 DEF Next

LEMMA OnceStep ==
  IInv /\ [Next]_vars => OnceInv'
<1>. SUFFICES ASSUME IInv, [Next]_vars
              PROVE  OnceInv'
  OBVIOUS
<1>. USE DEF IInv, OnceInv, rpcVars, flowVars, dbVars
<1>1. CASE InsertScan \/ MarkFailed
  BY <1>1 DEF InsertScan, MarkFailed
<1>2. CASE Launch \/ LaunchRaises
  BY <1>2, Disjoint
     DEF Launch, LaunchRaises, Begins, TaskInv, AfterSave, FailurePath, TypeOK
<1>3. ASSUME NEW p \in Pods, Pick(p)
      PROVE  OnceInv'
  <2>1. pc = "save" => \A f \in Findings : vulns[f] <= resaved[f]
    BY <1>3 DEF Pick, TypeOK, AfterSave, FailurePath
  <2>. QED
    BY <1>3, <2>1 DEF Pick, TypeOK
<1>4. ASSUME NEW p \in Pods, Succeed(p) \/ Crash(p)
      PROVE  OnceInv'
  <2>1. /\ pc' = pc
        /\ task' = task \/ (task = "started" /\ task' = "done")
        /\ \A q \in Pods : pod'[q] # "idle" => q # p /\ pod'[q] = pod[q]
    BY <1>4 DEF Succeed, Crash, Report, TypeOK
  <2>2. CASE pod[p] = "save"
    <3>1. \A f \in Findings : vulns'[f] <= 1 + resaved'[f]
      BY <1>4, <2>2 DEF Succeed, Crash, Commit, SaveVulnerabilities, TypeOK
    <3>2. \A q \in Pods : pod'[q] # "save"
      BY <2>1, <2>2 DEF AttemptInv
    <3>3. pc \in FailurePath \/ (pc = "save" /\ task \in {"started", "failed"})
      BY <2>2 DEF AttemptInv
    <3>. QED
      BY <2>1, <3>1, <3>2, <3>3
  <2>3. CASE pod[p] # "save"
    <3>1. \A f \in Findings : vulns'[f] = vulns[f] /\ resaved'[f] = resaved[f]
      BY <1>4, <2>3 DEF Succeed, Crash, Commit, SaveVulnerabilities, TypeOK
    <3>. QED
      BY <2>1, <3>1
  <2>. QED
    BY <2>2, <2>3
<1>5. ASSUME NEW p \in Pods, Raise(p)
      PROVE  OnceInv'
  <2>1. /\ pc' = pc
        /\ task' = task \/ (pc # "save" /\ task' = "scheduled")
           \/ (pc = "save" /\ pod[p] = "save" /\ task' = "scheduled")
           \/ (pc = "save" /\ pod[p] # "save" /\ task' = task)
        /\ \A q \in Pods : pod'[q] # "idle" => q # p /\ pod'[q] = pod[q]
    BY <1>5 DEF Raise, Report, TypeOK
  <2>2. \A f \in Findings :
          \/ vulns'[f] = vulns[f] /\ resaved'[f] = resaved[f]
          \/ vulns'[f] = vulns[f] + 1 /\ resaved'[f] = resaved[f] + 1
    BY <1>5 DEF Raise, Commit, SaveVulnerabilities, Resave, TypeOK
  <2>3. \A f \in Findings : vulns[f] \in Nat /\ resaved[f] \in Nat
    BY DEF TypeOK
  <2>. QED
    BY <2>1, <2>2, <2>3
<1>6. CASE Deploying \/ Read \/ GiveUp
  BY <1>6 DEF Deploying, Read, GiveUp
<1>7. ASSUME NEW s \in DeployerSteps, Deployed(s)
      PROVE  OnceInv'
  BY <1>7 DEF Deployed, Report, DeployerSteps
<1>8. CASE Proceed
  <2>1. PICK s \in Steps : <<pc, s>> \in Edges /\ Await(s)
    BY <1>8 DEF Proceed
  <2>2. /\ pc \notin FailurePath
        /\ pc \in AfterSave \cup {"save"} => s \in AfterSave
        /\ s = "save" => pc = "ANALYZING"
    BY <2>1, EdgeFacts DEF Edges, Deploy, Deliver, ProvisionGraph, ProvisionImage,
       AttackGraph, AttackImage, AfterSave
  <2>3. pc' = s /\ UNCHANGED <<pod, vulns, resaved>>
    BY <1>8, <2>1 DEF Proceed, Await
  <2>. QED
    BY <2>2, <2>3 DEF AfterSave
<1>9. CASE Finish
  BY <1>9 DEF Finish, Await, AfterSave
<1>10. CASE RaiseBetween \/ HandleFailure
  BY <1>10 DEF RaiseBetween, HandleFailure, Await, FailurePath
<1>11. CASE ActivityFails
  <2>1. pc \in Tolerated => pc \notin AfterSave \cup FailurePath \cup {"save"}
    BY DEF Tolerated, AfterSave, FailurePath
  <2>. QED
    BY <1>11, <2>1 DEF ActivityFails, Await, FailurePath
<1>12. CASE UNCHANGED vars
  BY <1>12 DEF vars
<1>. QED
  BY <1>1, <1>2, <1>3, <1>4, <1>5, <1>6, <1>7, <1>8, <1>9, <1>10, <1>11, <1>12 DEF Next

-----------------------------------------------------------------------------
(* The theorems.                                                           *)

LEMMA InvInit == Init => IInv
<1>. SUFFICES ASSUME Init
              PROVE  IInv
  OBVIOUS
<1>1. TypeOK /\ TaskInv
  BY TypeInit
<1>2. AttemptInv
  BY DEF Init, AttemptInv
<1>3. GaveUpInv /\ DeliveryInv /\ SandboxInv
  BY DEF Init, GaveUpInv, DeliveryInv, SandboxInv, AfterSave, AfterPdf, FailurePath
<1>4. CompletedInv /\ VisibleInv
  BY DEF Init, CompletedInv, Completing, VisibleInv
<1>5. OnceInv
  BY DEF Init, OnceInv
<1>. QED
  BY <1>1, <1>2, <1>3, <1>4, <1>5 DEF IInv

LEMMA InvStep == IInv /\ [Next]_vars => IInv'
<1>. SUFFICES ASSUME IInv, [Next]_vars
              PROVE  IInv'
  OBVIOUS
<1>1. TypeOK' /\ TaskInv'
  BY TypeStep, TaskStep DEF IInv
<1>2. AttemptInv' /\ GaveUpInv' /\ DeliveryInv' /\ SandboxInv'
  BY AttemptStep, GaveUpStep, DeliveryStep, SandboxStep DEF IInv
<1>3. CompletedInv' /\ VisibleInv' /\ OnceInv'
  BY CompletedStep, VisibleStep, OnceStep
<1>. QED
  BY <1>1, <1>2, <1>3 DEF IInv

THEOREM Invariance == Spec => []IInv
BY InvInit, InvStep, PTL DEF Spec

(* Whoever reads COMPLETED finds the findings stored, the report on        *)
(* exactly those findings and no sandbox, however attempts fail, are       *)
(* retried, outlive their deadline or lose their pod.                      *)
THEOREM CompletedCorrect == Spec => []CompletedIsDelivered
<1>1. IInv => CompletedIsDelivered
  BY DEF IInv, CompletedInv, Completing, CompletedIsDelivered
<1>. QED
  BY <1>1, Invariance, PTL

(* A workflow that succeeded left COMPLETED and completed_at, unless       *)
(* StartScan's own error path overwrote the status.                        *)
THEOREM SuccessCorrect == Spec => []SuccessIsVisible
<1>1. IInv => SuccessIsVisible
  BY DEF IInv, VisibleInv, SuccessIsVisible
<1>. QED
  BY <1>1, Invariance, PTL

(* A sandbox outlives its workflow only when the teardown in               *)
(* _handle_workflow_failure failed or CreateSandbox outlived its deadline. *)
THEOREM LeakCorrect == Spec => []LeakNeedsGiveUp
<1>1. IInv => LeakNeedsGiveUp
  BY DEF IInv, SandboxInv, LeakNeedsGiveUp, Ended, FailurePath
<1>. QED
  BY <1>1, Invariance, PTL

(* A workflow succeeds only if no activity but the crew's failed.          *)
THEOREM ToleranceCorrect == Spec => []SuccessGaveUpOnlyCrew
<1>1. IInv => SuccessGaveUpOnlyCrew
  BY DEF IInv, GaveUpInv, TaskInv, SuccessGaveUpOnlyCrew, Tolerated, FailurePath, Ended
<1>. QED
  BY <1>1, Invariance, PTL

(* save_vulnerabilities inserts a finding again only in attempts that      *)
(* raise after their commit, once in each, whatever pods die and whatever  *)
(* deadlines pass.                                                         *)
THEOREM OnceCorrect == Spec => []StoredOnceUnlessRaised
<1>1. IInv => StoredOnceUnlessRaised
  BY DEF IInv, OnceInv, StoredOnceUnlessRaised
<1>. QED
  BY <1>1, Invariance, PTL

-----------------------------------------------------------------------------
(* The client's view.                                                      *)

Stored == {f \in Findings : vulns[f] > 0}

(* The phase that is announced before activity s is awaited.               *)
Announced(s) ==
  CASE s \in {"targets", "PROVISIONING"} -> "PENDING"
    [] s = "download" -> IF pipeline = "graph" THEN "PENDING" ELSE "PROVISIONING"
    [] s \in {"topology", "create", "bundle", "RECONNAISSANCE"} -> "PROVISIONING"
    [] s = "SEEDING" -> "RECONNAISSANCE"
    [] s \in {"seed", "seedBundle", "ATTACKING"} -> "SEEDING"
    [] s \in {"pentest", "pollers", "crew", "crewReport", "ANALYZING"} -> "ATTACKING"
    [] s \in {"save", "GENERATING_REPORT"} -> "ANALYZING"
    [] s \in {"pdf", "CLEANING_UP"} -> "GENERATING_REPORT"
    [] s \in {"cleanup", "COMPLETED"} -> "CLEANING_UP"
    [] OTHER -> "COMPLETED"

(* The rows while s is awaited or, on the failure path, while an attempt   *)
(* of s is still running.                                                  *)
RowsAt(s) ==
  /\ status = Announced(s) \/ (s \in Phases /\ status = s)
  /\ s \notin AfterSave => Stored = {} \/ (s = "save" /\ Stored = findings)
  /\ s \in AfterSave => Stored = findings
  /\ s \notin AfterPdf => pdf = {} \/ (s = "pdf" /\ pdf = {findings})
  /\ s \in AfterPdf => pdf = {findings}

(* The rows while the workflow is on its way to success, whatever it gave  *)
(* up on, until StartScan's error path overwrites the status.              *)
FlowInv ==
  rpc # "aborted" =>
    /\ rpc = "idle" => status = "none"
    /\ rpc = "inserted" => status = "PENDING"
    /\ rpc = "failing" \/ pc # "unstarted" => status # "none"
    /\ pc = "unstarted" => Stored = {} /\ pdf = {}
    /\ pc \notin FailurePath \cup {"unstarted"} =>
         RowsAt(pc) /\ (task = "done" /\ pc \in Phases => status = pc)

(* Every attempt that is running may still take its turn.                  *)
TurnInv == \A p \in Pods : pod[p] \notin {"idle", "FAILED"} => RowsAt(pod[p])

(* As long as the workflow gave up on no database activity, a pod executes *)
(* nothing but the activity it awaits.  Once COMPLETED is or may be        *)
(* written, no attempt is left that would write findings, a report or an   *)
(* earlier phase.                                                          *)
LateInv ==
  /\ gaveUp \cap Writes = {} =>
       \A p \in Pods : pod[p] = "idle" \/ (pod[p] = pc /\ task = "started")
  /\ Completing => \A p \in Pods : pod[p] \in {"idle", "COMPLETED", "FAILED"}

(* The tables of Announced and of the control flow agree.                  *)
LEMMA AnnouncedEdge ==
  ASSUME NEW a, NEW b, <<a, b>> \in Edges
  PROVE  /\ Announced(b) = IF a \in Phases THEN a ELSE Announced(a)
         /\ a \in AfterSave \cup {"save"} => b \in AfterSave
         /\ a \in AfterPdf \cup {"pdf"} => b \in AfterPdf
         /\ b # "succeeded"
<1>1. CASE <<a, b>> \in Deploy
  BY <1>1 DEF Deploy, Announced, Phases, AfterSave, AfterPdf
<1>2. CASE <<a, b>> \in Deliver
  BY <1>2 DEF Deliver, Announced, Phases, AfterSave, AfterPdf
<1>3. CASE pipeline = "graph" /\ <<a, b>> \in ProvisionGraph \cup AttackGraph
  BY <1>3 DEF ProvisionGraph, AttackGraph, Announced, Phases, AfterSave, AfterPdf
<1>4. CASE pipeline # "graph" /\ <<a, b>> \in ProvisionImage \cup AttackImage
  BY <1>4 DEF ProvisionImage, AttackImage, Announced, Phases, AfterSave, AfterPdf
<1>. QED
  BY <1>1, <1>2, <1>3, <1>4 DEF Edges

(* The committed effect of an attempt is a step of the contract; repeated  *)
(* or late, it is none.                                                    *)
LEMMA CommitRows ==
  ASSUME TypeOK, NEW s \in Writes \ {"FAILED"}, RowsAt(s), Commit(s),
         UNCHANGED <<findings, pipeline>>
  PROVE  /\ RowsAt(s)'
         /\ s \in Phases => status' = s
         /\ [Lifecycle!Next]_(Lifecycle!vars)
<1>1. Stored' = IF s = "save" THEN Stored \cup findings ELSE Stored
  BY DEF Commit, SaveVulnerabilities, Stored, TypeOK
<1>2. pdf' = IF s = "pdf" THEN {findings} ELSE pdf
  BY DEF Commit, StoreReport
<1>3. status' = IF s \in Phases THEN s ELSE status
  BY DEF Commit, SetStatus
<1>4. RowsAt(s)'
  BY <1>1, <1>2, <1>3 DEF RowsAt, Announced, AfterSave, AfterPdf
<1>. SUFFICES [Lifecycle!Next]_(Lifecycle!vars)
  BY <1>3, <1>4
<1>5. CASE s \in Phases
  <2>1. Stored' = Stored /\ pdf' = pdf
    BY <1>1, <1>2, <1>5 DEF Phases
  <2>2. CASE status = s
    BY <1>3, <1>5, <2>1, <2>2 DEF Lifecycle!vars, Stored
  <2>3. CASE status = Announced(s)
    <3>1. <<status, status'>> \in Lifecycle!Order
      BY <1>3, <1>5, <2>3 DEF Lifecycle!Order, Announced, Phases
    <3>2. s = "COMPLETED" => pdf = {Stored}
      BY DEF RowsAt, AfterSave, AfterPdf
    <3>3. Lifecycle!Advance
      BY <1>3, <1>5, <2>1, <3>1, <3>2 DEF Lifecycle!Advance, Stored
    <3>. QED
      BY <3>3 DEF Lifecycle!Next
  <2>. QED
    BY <2>2, <2>3 DEF RowsAt
<1>6. CASE s = "save"
  <2>1. status = "ANALYZING" /\ status' = status /\ pdf' = pdf
    BY <1>2, <1>3, <1>6 DEF RowsAt, Announced, Phases
  <2>2. CASE Stored = {}
    <3>1. Stored' \in SUBSET Findings
      BY DEF Stored
    <3>2. Lifecycle!Store
      BY <2>1, <2>2, <3>1 DEF Lifecycle!Store, Stored
    <3>. QED
      BY <3>2 DEF Lifecycle!Next
  <2>3. CASE Stored = findings
    <3>1. Stored' = Stored
      BY <1>1, <2>3
    <3>. QED
      BY <2>1, <3>1 DEF Lifecycle!vars, Stored
  <2>. QED
    BY <1>6, <2>2, <2>3 DEF RowsAt, AfterSave
<1>7. CASE s = "pdf"
  <2>1. /\ status = "GENERATING_REPORT" /\ status' = status /\ Stored' = Stored
        /\ Stored = findings
    BY <1>1, <1>3, <1>7 DEF RowsAt, Announced, Phases, AfterSave
  <2>2. CASE pdf = {}
    <3>1. Lifecycle!Publish
      BY <1>2, <1>7, <2>1, <2>2 DEF Lifecycle!Publish, Stored
    <3>. QED
      BY <3>1 DEF Lifecycle!Next
  <2>3. CASE pdf = {findings}
    BY <1>2, <1>7, <2>1, <2>3 DEF Lifecycle!vars, Stored
  <2>. QED
    BY <1>7, <2>2, <2>3 DEF RowsAt, AfterPdf
<1>8. CASE s \notin Phases \cup {"save", "pdf"}
  BY <1>1, <1>2, <1>3, <1>8 DEF Lifecycle!vars, Stored
<1>. QED
  BY <1>5, <1>6, <1>7, <1>8

(* Steps that leave the rows and the findings alone.                       *)
LEMMA SameRows ==
  ASSUME UNCHANGED <<status, vulns, pdf, findings, pipeline>>
  PROVE  /\ \A s : RowsAt(s)' <=> RowsAt(s)
         /\ UNCHANGED Stored /\ UNCHANGED Lifecycle!vars
BY DEF RowsAt, Announced, Stored, Lifecycle!vars

(* The rows at the workflow's first activity.                              *)
LEMMA FirstRows ==
  ASSUME IInv, FlowInv, rpc = "inserted", Begins,
         UNCHANGED <<status, vulns, pdf, pipeline>>
  PROVE  RowsAt(pc)' /\ task' = "scheduled" /\ status = "PENDING"
<1>1. /\ pc = "unstarted" /\ status = "PENDING" /\ Stored = {} /\ pdf = {}
      /\ pc' \in First /\ task' = "scheduled" /\ findings' = findings
  BY DEF IInv, TaskInv, FlowInv, Begins
<1>2. Announced(pc)' = "PENDING" /\ pc' \notin AfterSave \cup AfterPdf
  <2>1. pc' \in {"download", "targets", "PROVISIONING"} /\ (pc' = "download" => pipeline = "graph")
    BY <1>1 DEF First
  <2>. QED
    BY <2>1 DEF Announced, AfterSave, AfterPdf
<1>. QED
  BY <1>1, <1>2 DEF RowsAt, Stored

(* The workflow goes on to the next activity: its rows are as announced.   *)
LEMMA ProceedRows ==
  ASSUME IInv, RowsAt(pc), pc \in Phases => status = pc, Proceed
  PROVE  RowsAt(pc)' /\ task' = "scheduled"
<1>1. PICK s \in Steps : <<pc, s>> \in Edges /\ Await(s)
  BY DEF Proceed
<1>2. /\ UNCHANGED <<status, vulns, pdf, pipeline>> /\ pc' = s
      /\ task = "done" /\ task' = "scheduled"
      /\ s # "save" => findings' = findings
  BY <1>1 DEF Proceed, IngestFindings, Await, rpcVars, dbVars
<1>3. /\ s \in AfterSave => pc \in AfterSave \cup {"save"}
      /\ s \in AfterPdf => pc \in AfterPdf \cup {"pdf"}
  BY <1>1, EdgeFacts
<1>4. /\ Announced(s) = IF pc \in Phases THEN pc ELSE Announced(pc)
      /\ pc \in AfterSave \cup {"save"} => s \in AfterSave
      /\ pc \in AfterPdf \cup {"pdf"} => s \in AfterPdf
  BY <1>1, AnnouncedEdge
<1>5. status = Announced(s) /\ UNCHANGED Stored
  BY <1>2, <1>4 DEF RowsAt, Stored
<1>6. s \notin AfterSave => Stored = {}
  BY <1>4 DEF RowsAt
<1>7. s \in AfterSave => Stored = findings /\ s # "save"
  <2>1. pc = "save" => findings \subseteq Stored
    BY <1>2 DEF IInv, DeliveryInv, Stored, TypeOK
  <2>. QED
    BY <1>3, <2>1 DEF RowsAt, AfterSave
<1>8. s \notin AfterPdf => pdf = {}
  BY <1>4 DEF RowsAt
<1>9. s \in AfterPdf => pdf = {findings} /\ s # "save"
  BY <1>2, <1>3 DEF IInv, DeliveryInv, AfterPdf
<1>. QED
  BY <1>2, <1>5, <1>6, <1>7, <1>8, <1>9 DEF RowsAt, Announced

(* A scan keeps its workflow.                                              *)
LEMMA SamePipeline == [Next]_vars => UNCHANGED pipeline
<1>. SUFFICES ASSUME [Next]_vars
              PROVE  UNCHANGED pipeline
  OBVIOUS
<1>. USE DEF rpcVars
<1>1. CASE InsertScan \/ Launch \/ LaunchRaises \/ MarkFailed
  BY <1>1 DEF InsertScan, Launch, LaunchRaises, MarkFailed
<1>2. CASE \E p \in Pods : Pick(p) \/ Succeed(p) \/ Raise(p) \/ Crash(p)
  BY <1>2 DEF Pick, Succeed, Raise, Crash
<1>3. CASE Deploying \/ Read \/ GiveUp \/ \E s \in DeployerSteps : Deployed(s)
  BY <1>3 DEF Deploying, Read, GiveUp, Deployed
<1>4. CASE Proceed \/ Finish \/ RaiseBetween \/ ActivityFails \/ HandleFailure
  BY <1>4 DEF Proceed, Finish, RaiseBetween, ActivityFails, HandleFailure
<1>5. CASE UNCHANGED vars
  BY <1>5 DEF vars
<1>. QED
  BY <1>1, <1>2, <1>3, <1>4, <1>5 DEF Next

LEMMA FlowStep == IInv /\ FlowInv /\ [Next]_vars => FlowInv'
<1>. SUFFICES ASSUME IInv, FlowInv, [Next]_vars, rpc' # "aborted"
              PROVE  FlowInv'
  BY DEF FlowInv
<1>. USE DEF rpcVars, flowVars, dbVars
<1>1. TypeOK /\ TaskInv /\ AttemptInv /\ UNCHANGED pipeline
  BY SamePipeline DEF IInv
<1>2. CASE InsertScan
  <2>1. /\ pc = "unstarted" /\ status = "none"
        /\ UNCHANGED <<pc, vulns, pdf>>
        /\ \/ rpc' = "inserted" /\ status' = "PENDING"
           \/ rpc' = "dead"
    BY <1>1, <1>2 DEF InsertScan, TaskInv, FlowInv
  <2>2. Stored = {} /\ pdf = {} /\ UNCHANGED Stored
    BY <1>2, <2>1 DEF FlowInv, Stored, InsertScan
  <2>. QED
    BY <2>1, <2>2 DEF FlowInv
<1>3. CASE Launch \/ (LaunchRaises /\ Begins)
  <2>1. /\ UNCHANGED <<status, vulns, pdf>> /\ Begins
        /\ rpc = "inserted" /\ rpc' \in {"replied", "failing"}
    BY <1>3 DEF Launch, LaunchRaises
  <2>2. RowsAt(pc)' /\ task' = "scheduled" /\ status = "PENDING"
    BY <1>1, <2>1, FirstRows
  <2>3. pc' # "unstarted"
    BY <2>1, Disjoint DEF Begins
  <2>. QED
    BY <2>1, <2>2, <2>3 DEF FlowInv
<1>4. CASE LaunchRaises /\ UNCHANGED flowVars
  <2>1. /\ UNCHANGED <<status, vulns, pdf, pc>> /\ pc = "unstarted"
        /\ rpc = "inserted" /\ rpc' = "failing"
    BY <1>1, <1>4 DEF LaunchRaises, TaskInv
  <2>2. UNCHANGED Stored
    BY <2>1 DEF Stored
  <2>. QED
    BY <2>1, <2>2 DEF FlowInv
<1>5. CASE MarkFailed
  BY <1>5 DEF MarkFailed
<1>6. ASSUME NEW p \in Pods, Succeed(p) \/ Raise(p) \/ Crash(p)
      PROVE  FlowInv'
  <2>1. /\ UNCHANGED <<pc, findings>> /\ rpc' \in {rpc, "dead"} /\ rpc # "aborted"
        /\ UNCHANGED dbVars \/ (pod[p] # "idle" /\ Commit(pod[p]))
    BY <1>6 DEF Succeed, Raise, Crash
  <2>2. CASE pod[p] # "idle" /\ pc \notin FailurePath
    <3>1. pod[p] = pc /\ pc \in Writes \ {"FAILED"} /\ pc # "unstarted"
      BY <1>1, <2>2, Disjoint DEF AttemptInv, TypeOK, FailurePath
    <3>2. RowsAt(pc) /\ status # "none" /\ rpc \notin {"idle", "inserted"}
      BY <1>1, <2>1, <2>2, <3>1 DEF FlowInv, TaskInv
    <3>3. RowsAt(pc)'
      <4>1. CASE UNCHANGED dbVars
        BY <1>1, <2>1, <3>2, <4>1, SameRows DEF RowsAt, Announced, Stored
      <4>2. CASE Commit(pc)
        BY <1>1, <2>1, <3>1, <3>2, <4>2, CommitRows
      <4>. QED
        BY <2>1, <3>1, <4>1, <4>2
    <3>4. task' = "done" /\ pc \in Phases => status' = pc
      <4>1. CASE task = "done"
        BY <1>1, <2>2, <4>1 DEF AttemptInv
      <4>2. CASE task # "done" /\ task' = "done"
        BY <1>6, <2>1, <3>1, <4>2 DEF Succeed, Raise, Crash, Report, Commit, SetStatus
      <4>. QED
        BY <4>1, <4>2
    <3>5. status' # "none"
      BY <1>6, <3>1, <3>2, StatusStep, Disjoint DEF Writes, Phases
    <3>. QED
      BY <2>1, <2>2, <3>1, <3>2, <3>3, <3>4, <3>5 DEF FlowInv
  <2>3. CASE pod[p] # "idle" /\ pc \in FailurePath
    <3>1. rpc \notin {"idle", "inserted"} /\ pc # "unstarted" /\ status # "none"
      BY <1>1, <2>1, <2>3 DEF TaskInv, FailurePath, FlowInv
    <3>2. status' # "none"
      BY <1>1, <1>6, <2>3, <3>1, StatusStep DEF TypeOK, Writes, Phases
    <3>. QED
      BY <2>1, <2>3, <3>1, <3>2 DEF FlowInv
  <2>4. CASE pod[p] = "idle"
    <3>1. UNCHANGED <<status, vulns, pdf, findings, task>>
      <4>1. pc # "idle"
        BY <1>1, Disjoint DEF TypeOK, Ended
      <4>. QED
        BY <1>6, <2>1, <2>4, <4>1 DEF Succeed, Raise, Crash, Report
    <3>2. (RowsAt(pc)' <=> RowsAt(pc)) /\ UNCHANGED Stored
      BY <1>1, <2>1, <3>1 DEF RowsAt, Announced, Stored
    <3>. QED
      BY <2>1, <3>1, <3>2 DEF FlowInv
  <2>. QED
    BY <2>2, <2>3, <2>4
<1>7. CASE \/ \E p \in Pods : Pick(p)
           \/ Deploying \/ Read \/ GiveUp
           \/ \E s \in DeployerSteps : Deployed(s)
  <2>1. /\ UNCHANGED <<rpc, status, vulns, pdf, findings, pc>>
        /\ task' = "done" => task = "done" \/ pc \in Reads \cup DeployerSteps
    BY <1>7 DEF Pick, Deploying, Read, GiveUp, Deployed, Report
  <2>2. pc \in Reads \cup DeployerSteps => pc \notin Phases
    BY Disjoint DEF Writes
  <2>3. (RowsAt(pc)' <=> RowsAt(pc)) /\ UNCHANGED Stored
    BY <1>1, <2>1 DEF RowsAt, Announced, Stored
  <2>. QED
    BY <2>1, <2>2, <2>3 DEF FlowInv
<1>8. CASE Proceed
  <2>1. pc \notin FailurePath \cup {"unstarted"} /\ task = "done"
    <3>1. PICK s \in Steps : <<pc, s>> \in Edges
      BY <1>8 DEF Proceed
    <3>. QED
      BY <1>8, <3>1, EdgeFacts, Disjoint DEF Proceed
  <2>2. UNCHANGED <<rpc, status>> /\ status # "none" /\ rpc \notin {"idle", "inserted"}
    BY <1>1, <1>8, <2>1 DEF Proceed, FlowInv, TaskInv
  <2>3. RowsAt(pc)' /\ task' = "scheduled"
    BY <1>8, <2>1, <2>2, ProceedRows DEF FlowInv
  <2>4. pc' # "unstarted"
    BY <1>8, Disjoint DEF Proceed, Await
  <2>. QED
    BY <2>2, <2>3, <2>4 DEF FlowInv
<1>9. CASE Finish
  <2>1. /\ UNCHANGED <<rpc, status, vulns, pdf, findings>>
        /\ pc = "COMPLETED" /\ task = "done" /\ pc' = "succeeded" /\ task' = "none"
    BY <1>9 DEF Finish, Await, Steps, Writes, Phases, DeployerSteps, Reads
  <2>2. RowsAt(pc) /\ status = "COMPLETED" /\ rpc \notin {"idle", "inserted"}
    BY <1>1, <2>1 DEF FlowInv, FailurePath, Phases, TaskInv
  <2>3. RowsAt("succeeded")
    BY <2>1, <2>2 DEF RowsAt, Announced, AfterSave, AfterPdf
  <2>4. RowsAt(pc)'
    BY <1>1, <2>1, <2>3 DEF RowsAt, Announced, Stored
  <2>. QED
    BY <2>1, <2>2, <2>4 DEF FlowInv
<1>10. CASE RaiseBetween \/ ActivityFails \/ HandleFailure
  <2>1. /\ UNCHANGED <<rpc, status, vulns, pdf, findings>>
        /\ pc # "unstarted" /\ pc' # "unstarted"
        /\ \/ pc' \in FailurePath
           \/ pc \in Tolerated /\ pc' = "crewReport" /\ task' = "scheduled"
    BY <1>1, <1>10 DEF RaiseBetween, ActivityFails, HandleFailure, Await, FailurePath,
                       TaskInv, Steps, Writes
  <2>2. rpc \notin {"idle", "inserted"} /\ status # "none"
    BY <1>1, <2>1 DEF TaskInv, FlowInv
  <2>3. CASE pc' \in FailurePath
    BY <2>1, <2>2, <2>3 DEF FlowInv
  <2>4. CASE pc \in Tolerated /\ pc' = "crewReport" /\ task' = "scheduled"
    <3>1. RowsAt(pc)
      BY <2>1, <2>4 DEF FlowInv, Tolerated, FailurePath
    <3>2. RowsAt("crewReport")
      BY <2>4, <3>1 DEF RowsAt, Announced, Tolerated, AfterSave, AfterPdf, Phases
    <3>3. RowsAt(pc)'
      BY <1>1, <2>1, <2>4, <3>2 DEF RowsAt, Announced, Stored
    <3>. QED
      BY <2>1, <2>2, <2>4, <3>3 DEF FlowInv
  <2>. QED
    BY <2>1, <2>3, <2>4
<1>11. CASE UNCHANGED vars
  BY <1>1, <1>11 DEF vars, FlowInv, RowsAt, Announced, Stored
<1>. QED
  BY <1>2, <1>3, <1>4, <1>5, <1>6, <1>7, <1>8, <1>9, <1>10, <1>11 DEF Next, LaunchRaises

LEMMA LateStep == IInv /\ LateInv /\ [Next]_vars => LateInv'
<1>. SUFFICES ASSUME IInv, LateInv, [Next]_vars
              PROVE  LateInv'
  OBVIOUS
<1>. USE DEF LateInv, rpcVars, flowVars, dbVars
<1>1. TypeOK /\ TaskInv /\ AttemptInv /\ GaveUpInv /\ CompletedInv
  BY DEF IInv
<1>2. CASE InsertScan \/ Launch \/ LaunchRaises \/ MarkFailed
  <2>1. pc = "unstarted" => \A p \in Pods : pod[p] = "idle"
    BY <1>1 DEF AttemptInv, TaskInv, FailurePath
  <2>2. /\ UNCHANGED <<pod, gaveUp>>
        /\ pc = "unstarted" \/ UNCHANGED <<pc, task>>
        /\ pc = "unstarted" \/ (Completing' => Completing)
    BY <1>1, <1>2 DEF InsertScan, Launch, LaunchRaises, MarkFailed, Begins, TaskInv, Completing
  <2>. QED
    BY <2>1, <2>2
<1>3. ASSUME NEW p \in Pods, Pick(p)
      PROVE  LateInv'
  <2>1. /\ pod' = [pod EXCEPT ![p] = pc] /\ pod[p] = "idle" /\ pc \in Writes
        /\ UNCHANGED <<pc, status, gaveUp>> /\ task = "scheduled" /\ task' = "started"
    BY <1>3 DEF Pick
  <2>2. \A q \in Pods : pod'[q] = (IF q = p THEN pc ELSE pod[q])
    BY <1>1, <2>1 DEF TypeOK
  <2>3. Completing' => Completing
    BY <2>1, <2>2 DEF Completing
  <2>4. Completing => pc \in {"COMPLETED", "FAILED"}
    BY <1>1, <2>1, Disjoint DEF CompletedInv, FailurePath, Ended, DeployerSteps
  <2>. QED
    BY <2>1, <2>2, <2>3, <2>4
<1>4. ASSUME NEW p \in Pods, Succeed(p) \/ Raise(p) \/ Crash(p)
      PROVE  LateInv'
  <2>1. /\ pod' = [pod EXCEPT ![p] = "idle"] /\ UNCHANGED <<pc, gaveUp>>
        /\ task' = task \/ (pod[p] = pc /\ task = "started")
    BY <1>4 DEF Succeed, Raise, Crash, Report
  <2>2. \A q \in Pods : pod'[q] = (IF q = p THEN "idle" ELSE pod[q])
    BY <1>1, <2>1 DEF TypeOK
  <2>3. Completing' => Completing
    BY <1>4, <2>1, <2>2, StatusStep DEF Completing
  <2>4. \A q \in Pods : pod'[q] # "idle" /\ pod[p] = pc => pod[q] # pc
    BY <1>1, <2>2 DEF AttemptInv
  <2>. QED
    BY <2>1, <2>2, <2>3, <2>4
<1>5. CASE Deploying \/ Read \/ \E s \in DeployerSteps : Deployed(s)
  <2>1. UNCHANGED <<pod, pc, gaveUp, status>> /\ (task' = task \/ pc \notin Writes)
    <3>1. pc \in DeployerSteps \cup Reads => pc \notin Writes
      BY Disjoint
    <3>. QED
      BY <1>5, <3>1 DEF Deploying, Read, Deployed, Report
  <2>2. pc \notin Writes => \A p \in Pods : pod[p] # pc \/ pod[p] = "idle"
    BY <1>1 DEF TypeOK
  <2>. QED
    BY <2>1, <2>2 DEF Completing
<1>6. CASE GiveUp
  <2>1. UNCHANGED <<pod, pc, status>> /\ gaveUp' = gaveUp \cup {pc}
    BY <1>6 DEF GiveUp
  <2>2. pc \notin Writes => \A p \in Pods : pod[p] # pc \/ pod[p] = "idle"
    BY <1>1 DEF TypeOK
  <2>. QED
    BY <2>1, <2>2 DEF Completing
<1>7. CASE Resume
  <2>1. UNCHANGED <<pod, gaveUp, status>> /\ task \in {"done", "failed"}
    BY <1>7 DEF Resume, Proceed, Finish, RaiseBetween, ActivityFails, HandleFailure
  <2>2. gaveUp \cap Writes = {} => \A p \in Pods : pod[p] = "idle"
    BY <1>1, <2>1
  <2>3. pc' \in {"COMPLETED", "succeeded"} => Completing \/ \A p \in Pods : pod[p] = "idle"
    <3>1. ActivityFails \/ RaiseBetween \/ HandleFailure => pc' \notin {"COMPLETED", "succeeded"}
      BY DEF ActivityFails, RaiseBetween, HandleFailure, Await
    <3>2. Proceed => pc \notin FailurePath /\ task = "done"
      BY EdgeFacts DEF Proceed
    <3>3. Finish => pc \notin FailurePath /\ task = "done"
      BY DEF Finish, FailurePath
    <3>. QED
      BY <1>1, <1>7, <3>1, <3>2, <3>3 DEF Resume, AttemptInv
  <2>. QED
    BY <2>1, <2>2, <2>3 DEF Completing
<1>8. CASE UNCHANGED vars
  BY <1>8 DEF vars, Completing
<1>. QED
  BY <1>2, <1>3, <1>4, <1>5, <1>6, <1>7, <1>8 DEF Next, Resume

-----------------------------------------------------------------------------
(* The steps of the contract.                                              *)

(* A step of a pod commits nothing, or what an attempt in its turn writes. *)
LEMMA PodContract ==
  ASSUME IInv, NEW p \in Pods, Succeed(p) \/ Raise(p) \/ Crash(p),
         pod[p] \notin {"idle", "FAILED"} => RowsAt(pod[p]),
         pod[p] = "FAILED" => status # "none"
  PROVE  [Lifecycle!Next]_(Lifecycle!vars)
<1>1. UNCHANGED dbVars \/ (pod[p] # "idle" /\ Commit(pod[p]))
  BY DEF Succeed, Raise, Crash
<1>2. UNCHANGED <<findings, pipeline>> /\ TypeOK
  BY DEF Succeed, Raise, Crash, rpcVars, flowVars, IInv
<1>3. CASE UNCHANGED dbVars
  BY <1>2, <1>3, SameRows DEF dbVars
<1>4. CASE pod[p] \notin {"idle", "FAILED"} /\ Commit(pod[p])
  <2>1. pod[p] \in Writes \ {"FAILED"}
    BY <1>2, <1>4 DEF TypeOK
  <2>. QED
    BY <1>2, <1>4, <2>1, CommitRows
<1>5. CASE pod[p] = "FAILED" /\ Commit("FAILED")
  <2>1. status' = "FAILED" /\ pdf' = pdf /\ Stored' = Stored
    BY <1>2, <1>5 DEF Commit, SetStatus, SaveVulnerabilities, StoreReport, Phases, Stored, TypeOK
  <2>2. CASE status = "FAILED"
    BY <2>1, <2>2 DEF Lifecycle!vars, Stored
  <2>3. CASE status # "FAILED"
    <3>1. Lifecycle!Fail
      BY <1>5, <2>1, <2>3 DEF Lifecycle!Fail, Stored
    <3>. QED
      BY <3>1 DEF Lifecycle!Next
  <2>. QED
    BY <2>2, <2>3
<1>. QED
  BY <1>1, <1>3, <1>4, <1>5

(* StartScan's error path writes FAILED over a scan that exists.           *)
LEMMA MarkContract ==
  ASSUME MarkFailed, status # "none"
  PROVE  [Lifecycle!Next]_(Lifecycle!vars)
<1>1. UNCHANGED Stored /\ UNCHANGED pdf /\ status' \in {status, "FAILED"}
  BY DEF MarkFailed, Stored
<1>2. CASE status' = status
  BY <1>1, <1>2 DEF Lifecycle!vars, Stored
<1>3. CASE status' # status
  <2>1. Lifecycle!Fail
    BY <1>1, <1>3 DEF Lifecycle!Fail, Stored
  <2>. QED
    BY <2>1 DEF Lifecycle!Next
<1>. QED
  BY <1>2, <1>3

(* Every step is one of the contract as long as every running attempt may  *)
(* still take its turn.                                                    *)
LEMMA TurnContract ==
  ASSUME IInv, FlowInv, TurnInv, rpc # "aborted", [Next]_vars
  PROVE  [Lifecycle!Next]_(Lifecycle!vars)
<1>. USE DEF rpcVars, flowVars, dbVars
<1>1. CASE InsertScan
  <2>1. /\ status = "none" /\ status' \in {"none", "PENDING"}
        /\ UNCHANGED <<vulns, pdf>> /\ Stored = {} /\ pdf = {} /\ UNCHANGED Stored
    BY <1>1 DEF InsertScan, FlowInv, IInv, TaskInv, Stored
  <2>2. CASE status' = "PENDING"
    <3>1. Lifecycle!Submit
      BY <2>1, <2>2 DEF Lifecycle!Submit, Stored
    <3>. QED
      BY <3>1 DEF Lifecycle!Next
  <2>. QED
    BY <2>1, <2>2 DEF Lifecycle!vars, Stored
<1>2. CASE MarkFailed
  <2>1. status # "none"
    BY <1>2 DEF MarkFailed, FlowInv
  <2>. QED
    BY <1>2, <2>1, MarkContract
<1>3. ASSUME NEW p \in Pods, Succeed(p) \/ Raise(p) \/ Crash(p)
      PROVE  [Lifecycle!Next]_(Lifecycle!vars)
  <2>1. pod[p] = "FAILED" => status # "none"
    BY DEF IInv, AttemptInv, FlowInv, FailurePath
  <2>. QED
    BY <1>3, <2>1, PodContract DEF TurnInv
<1>4. CASE UNCHANGED <<status, vulns, pdf>>
  BY <1>4 DEF Lifecycle!vars
<1>5. CASE \/ Launch \/ LaunchRaises
           \/ \E p \in Pods : Pick(p)
           \/ Deploying \/ Read \/ GiveUp
           \/ \E s \in DeployerSteps : Deployed(s)
           \/ Proceed \/ Finish \/ RaiseBetween \/ ActivityFails \/ HandleFailure
           \/ UNCHANGED vars
  BY <1>4, <1>5 DEF Launch, LaunchRaises, Pick, Deploying, Read, GiveUp, Deployed,
     Proceed, Finish, RaiseBetween, ActivityFails, HandleFailure, vars
<1>. QED
  BY <1>1, <1>2, <1>3, <1>5 DEF Next

(* On course, every running attempt is the one the workflow awaits.        *)
LEMMA CourseTurns == IInv /\ FlowInv /\ LateInv /\ OnCourse => TurnInv
<1>. SUFFICES ASSUME IInv, FlowInv, LateInv, OnCourse,
                     NEW p \in Pods, pod[p] \notin {"idle", "FAILED"}
              PROVE  RowsAt(pod[p])
  BY DEF TurnInv
<1>1. pod[p] = pc /\ pc \in Writes \ {"FAILED"}
  BY DEF LateInv, OnCourse, IInv, TypeOK
<1>2. pc \notin FailurePath \cup {"unstarted"}
  BY <1>1, Disjoint DEF FailurePath, DeployerSteps, Ended
<1>. QED
  BY <1>1, <1>2 DEF FlowInv, OnCourse

(* From COMPLETED on, COMPLETED is repeated or FAILED is written.          *)
LEMMA CompletedContract ==
  ASSUME IInv, LateInv, status = "COMPLETED", [Next]_vars
  PROVE  [Lifecycle!Next]_(Lifecycle!vars)
<1>. USE DEF rpcVars, flowVars, dbVars
<1>1. TypeOK /\ CompletedInv /\ Completing
  BY DEF IInv, Completing
<1>2. CASE InsertScan
  BY <1>1, <1>2 DEF InsertScan, IInv, TaskInv, CompletedInv, FailurePath
<1>3. CASE MarkFailed
  BY <1>3, MarkContract
<1>4. ASSUME NEW p \in Pods, Succeed(p) \/ Raise(p) \/ Crash(p)
      PROVE  [Lifecycle!Next]_(Lifecycle!vars)
  <2>1. pod[p] \in {"idle", "COMPLETED", "FAILED"}
    BY <1>1 DEF LateInv
  <2>2. CASE pod[p] = "COMPLETED"
    <3>1. UNCHANGED dbVars \/ Commit("COMPLETED")
      BY <1>4, <2>2 DEF Succeed, Raise, Crash
    <3>2. UNCHANGED <<status, vulns, pdf>>
      BY <1>1, <3>1 DEF Commit, SetStatus, SaveVulnerabilities, StoreReport, Phases, TypeOK
    <3>. QED
      BY <3>2 DEF Lifecycle!vars
  <2>3. CASE pod[p] # "COMPLETED"
    BY <1>4, <2>1, <2>3, PodContract
  <2>. QED
    BY <2>2, <2>3
<1>5. CASE UNCHANGED <<status, vulns, pdf>>
  BY <1>5 DEF Lifecycle!vars
<1>6. CASE \/ Launch \/ LaunchRaises
           \/ \E p \in Pods : Pick(p)
           \/ Deploying \/ Read \/ GiveUp
           \/ \E s \in DeployerSteps : Deployed(s)
           \/ Proceed \/ Finish \/ RaiseBetween \/ ActivityFails \/ HandleFailure
           \/ UNCHANGED vars
  BY <1>5, <1>6 DEF Launch, LaunchRaises, Pick, Deploying, Read, GiveUp, Deployed,
     Proceed, Finish, RaiseBetween, ActivityFails, HandleFailure, vars
<1>. QED
  BY <1>2, <1>3, <1>4, <1>6 DEF Next

LEMMA FlowInit == Init => FlowInv /\ LateInv /\ TurnInv
BY DEF Init, FlowInv, LateInv, TurnInv, Completing, Stored

(* With any number of pods a client sees nothing but steps of the contract *)
(* until the workflow gives up on a database activity or StartScan's error *)
(* path ran, and again once it sees COMPLETED.                             *)
THEOREM ContractCorrect == Spec => ContractHolds
<1>1. Init => IInv /\ FlowInv /\ LateInv
  BY InvInit, FlowInit
<1>2. IInv /\ FlowInv /\ LateInv /\ [Next]_vars => IInv' /\ FlowInv' /\ LateInv'
  BY InvStep, FlowStep, LateStep
<1>3. IInv /\ FlowInv /\ LateInv /\ [Next]_vars =>
        [OnCourse \/ status = "COMPLETED" => [Lifecycle!Next]_(Lifecycle!vars)]_vars
  BY CourseTurns, TurnContract, CompletedContract DEF OnCourse
<1>. QED
  BY <1>1, <1>2, <1>3, PTL DEF Spec, ContractHolds

-----------------------------------------------------------------------------
(* The whole contract, when one pod serves the task queue and StartScan    *)
(* does not fail over a workflow that was accepted.                        *)

OneBrain == (\A p, q \in Pods : p = q) /\ "launch" \notin Faults

Launched == rpc \notin {"failing", "aborted"}

(* A single pod picks the next activity when it is done with the last one: *)
(* a late attempt still takes its turn.                                    *)
LEMMA TurnStep ==
  ASSUME OneBrain
  PROVE  IInv /\ FlowInv /\ TurnInv /\ Launched /\ [Next]_vars => TurnInv' /\ Launched'
<1>. SUFFICES ASSUME IInv, FlowInv, TurnInv, Launched, [Next]_vars
              PROVE  TurnInv' /\ Launched'
  OBVIOUS
<1>. USE DEF rpcVars, flowVars, dbVars
<1>1. TypeOK /\ TaskInv /\ AttemptInv /\ UNCHANGED pipeline
  BY SamePipeline DEF IInv
<1>2. CASE InsertScan \/ Launch
  <2>1. \A p \in Pods : pod[p] = "idle"
    BY <1>1, <1>2 DEF InsertScan, Launch, AttemptInv, TaskInv, FailurePath
  <2>. QED
    BY <1>2, <2>1 DEF InsertScan, Launch, TurnInv, Launched
<1>3. CASE LaunchRaises \/ MarkFailed
  BY <1>3 DEF LaunchRaises, MarkFailed, OneBrain, Launched
<1>4. ASSUME NEW p \in Pods, Pick(p)
      PROVE  TurnInv' /\ Launched'
  <2>1. /\ UNCHANGED <<rpc, status, vulns, pdf, findings, pc>> /\ pc \in Writes
        /\ \A q \in Pods : pod'[q] = pc
    BY <1>1, <1>4 DEF Pick, OneBrain, TypeOK
  <2>2. pc # "FAILED" => pc \notin FailurePath \cup {"unstarted"}
    BY <2>1 DEF FailurePath, Writes, Phases
  <2>3. pc # "FAILED" => RowsAt(pc)
    BY <2>2 DEF FlowInv, Launched
  <2>4. pc # "FAILED" => RowsAt(pc)'
    BY <1>1, <2>1, <2>3 DEF RowsAt, Announced, Stored
  <2>. QED
    BY <2>1, <2>4 DEF TurnInv, Launched
<1>5. ASSUME NEW p \in Pods, Succeed(p) \/ Raise(p) \/ Crash(p)
      PROVE  TurnInv' /\ Launched'
  <2>1. (\A q \in Pods : pod'[q] = "idle") /\ rpc' \in {rpc, "dead"}
    BY <1>1, <1>5 DEF Succeed, Raise, Crash, TypeOK, OneBrain
  <2>. QED
    BY <2>1 DEF TurnInv, Launched
<1>6. CASE Proceed
  <2>1. \A p \in Pods : pod[p] = "idle"
    <3>1. task = "done" /\ pc \notin FailurePath
      BY <1>6, EdgeFacts DEF Proceed
    <3>. QED
      BY <1>1, <3>1 DEF AttemptInv
  <2>. QED
    BY <1>6, <2>1 DEF Proceed, TurnInv, Launched
<1>7. CASE UNCHANGED <<rpc, status, vulns, pdf, findings, pod>>
  BY <1>1, <1>7, SameRows DEF TurnInv, Launched
<1>8. CASE \/ Deploying \/ Read \/ GiveUp
           \/ \E s \in DeployerSteps : Deployed(s)
           \/ Finish \/ RaiseBetween \/ ActivityFails \/ HandleFailure
           \/ UNCHANGED vars
  BY <1>7, <1>8 DEF Deploying, Read, GiveUp, Deployed, Finish, RaiseBetween,
     ActivityFails, HandleFailure, vars
<1>. QED
  BY <1>2, <1>3, <1>4, <1>5, <1>6, <1>8 DEF Next

(* What a client sees of a scan is what ScanLifecycle promises, when one   *)
(* pod serves the task queue and start_workflow never raises: phases in    *)
(* order, findings before the report and the report on them, and nothing   *)
(* after FAILED, whatever is retried, late or lost.                        *)
THEOREM LifecycleRefinement ==
  ASSUME OneBrain PROVE Spec => Implements
<1>1. Init => IInv /\ FlowInv /\ TurnInv /\ Launched /\ Lifecycle!Init
  BY InvInit, FlowInit DEF Init, Launched, Lifecycle!Init
<1>2. IInv /\ FlowInv /\ TurnInv /\ Launched /\ [Next]_vars
        => /\ IInv' /\ FlowInv' /\ TurnInv' /\ Launched'
           /\ [Lifecycle!Next]_(Lifecycle!vars)
  BY InvStep, FlowStep, TurnStep, TurnContract DEF Launched
<1>. QED
  BY <1>1, <1>2, PTL DEF Spec, Implements, Lifecycle!Spec
=============================================================================
