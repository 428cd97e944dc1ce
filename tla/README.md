# Formal models of Aegis-AI-Brain

TLA+ models of the Brain, the orchestrator of the Aegis platform: TLC checks
them on small instances, TLAPS proves every safety property of the passing runs
for every value of the constants. Paths are relative to the repository; `wf` stands for
`src/workflows/graph_pentest_workflow.py`, `image wf` for
`src/workflows/pentest_workflow.py`, `db` for `src/activities/db_activities.py`,
`paths` for `src/services/neo4j_attack_targets.py` and `topology` for
`src/services/neo4j_sandbox_topology.py`.

To repeat the checks: `tlc -config ScanSafety.cfg MCScanWorkflow` for a run
(the table below gives module and configuration), `tlapm ScanWorkflowProofs.tla`
for the proofs.

## 1. Inventory

A Brain pod is one Python process (`src/main.py`) with one asyncio event loop
that serves the gRPC API, polls Temporal's `BRAIN_TASK_QUEUE` and follows the
Redis expiry events of the agents. Several pods may run. State lives in
PostgreSQL, in Temporal, in Redis and, for live event streams, in the process.

| Component | State | Operations | Hard behaviour | What makes it correct |
|---|---|---|---|---|
| Scan RPCs `grpc_services/scans.py` | row of `scans` | StartScan, GetScanStatus, ListScans, GetScanReport, WatchScanStatus | `start_workflow` raises although Temporal accepted; death between insert and start | FAILED is written over a running scan only by StartScan's own error path |
| Scan workflows `wf`, `image wf` | Temporal history: awaited activity, findings | `run()`, failure handler | retries, deadlines with an attempt still running, lost attempts, partial failure of the handler | COMPLETED means stored, reported, torn down; every failure but the crew's fails the scan; it settles |
| Database activities `db` | `scans`, `vulnerabilities` | update_scan_status, save_vulnerabilities, generate_and_store_pdf_report, bundle and crew report | commit whose answer is lost, broadcast after commit in the same `try`, late attempts | only an attempt that raised after its commit stores a finding again; the report counts what was accepted |
| Billing `grpc_services/billing.py` | `companies.token_balance`, `token_ledger` | AdjustTokens, PreFlightCheck, GetBalance, GetLedger, GetUsageStats | concurrent read-check-write, connection pool, second read after commit | balance = ledger, never overdrawn, true answers, atomic |
| Accounts `grpc_services/auth.py` | `users`, `refresh_tokens`, `onboarding_invitations` | Login, SetupPassword, Refresh, Logout, UpdatePassword, profile, email, avatar | check-then-act without locks around bcrypt; token rotation | a set-up is one transaction; sessions follow it; no call undoes another's |
| Companies `grpc_services/company.py` | `companies`, `users`, audit log | onboarding, users, roles, activation, agent token rotation and revocation, WatchCompanyUpdates | interleaving with the account operations; mail that fails after the commit | changes of role and activation survive concurrent account operations |
| Agents `grpc_services/agent.py`, `internal_auth.py`, `services/agent_watcher.py` | `agents`, Redis heartbeat and upload keys | RegisterAgent, UpdateAgentStatus, GetUploadLink, VerifyAgentSecret, expiry watcher | look-then-insert registration, expiry event against new heartbeat, lost events, upload answered but not ingested | one agent per name; what is ingested was uploaded; a live agent is not OFFLINE for ever |
| Broadcaster `grpc_services/broadcaster.py` | queues of the live streams | register, unregister, broadcast | worker threads iterate while the loop changes the set; race of check and register | a stream sees the updates committed after it registered, scans in order; a broadcast does not cost the call that makes it its mail (it may: a finding) |
| Proof contract `services/proof_contract.py` | none | validate, ingest, deduplicate | numeric edges, key collisions | accepted findings satisfy the contract; deduplication computes its reference and is idempotent |
| Attack targets and topology `paths`, `topology`, `wf` | none; the graph is ingested by others | identify targets, list containers, routes and schemas, choose the endpoint | a graph that changes between queries, names in several spellings, limits, fallbacks, replay | what is attacked and cloned was selected; the sandbox is entered through a workload it has |
| MinIO, artifact validation | none | one download, one check | errors only | outcomes are part of ScanWorkflow |
| PDF engine, email templates, identity, vulnerability queries | none | layout, templates, one decision, reads | none | not modelled |

How they interact: StartScan inserts the row and starts the workflow; the
workflow calls database activities (executed by any pod), the Deployer
(CreateSandbox, DestroySandbox, seeding), and the two pentest workers; database
activities broadcast to the streams of their own process after the commit.
Company and account operations share the rows of `users`; agents share the
company's agent token with rotation and revocation. The token balance is
checked by PreFlightCheck and changed by AdjustTokens; StartScan itself does
not touch it.

Every hazard that is hard to test is listed with its line under "hazards" in
`PROJECT.json`.

## 2. Plan

Ordered by importance. Finished parts are marked.

1. **ScanLifecycle, ScanWorkflow** (done): one scan from the RPC to the end of
   its workflow, with pods, Temporal and the Deployer. Abstract contract:
   ScanLifecycle. **ScanWorkflowProofs** (done): type correctness, all safety
   invariants.
2. **TokenAccount, Billing, BillingProofs** (done): atomicity of AdjustTokens,
   proved.
3. **ProofContract, ProofContractProofs** (done): validation and
   deduplication of findings, compared with a reference definition; levels and
   the second pass proved.
4. **Accounts, AccountsProofs** (done): account and company operations as read
   and commit steps. Its invariants and its action property are proved.
5. **Agents, AgentsProofs** (done): registration with the company's deployment
   token, status reports, uploads and ingests, the Redis keys and the watchers
   of several pods. Safety proved, convergence checked.
6. **Streams, StreamsProofs** (done): the set of queues, worker threads,
   WatchScanStatus and WatchCompanyUpdates. Safety proved.
7. **Targets, TargetsProofs** (done): from the graph to what a scan attacks,
   clones and enters. Proved.
8. Proofs (done): ScanWorkflow keeps the contract ScanLifecycle with any number
   of pods while it is on course, and implements it when one pod runs; Accounts
   implements UserDirectory; the loop of dedupe_findings computes the reference;
   the connection pools and the row lock of Billing never block each other.
9. Open: an abstract registry for Agents, under the conditions its history
   variables name; in Accounts, email changes and CreateCompany against the unique index
   on emails, and the audit log's rows; the composition of Agents with
   Accounts, so that the deployment token that set-up writes is the one that
   agents present.

## 3. Modules

| Module | What it is |
|---|---|
| `ScanLifecycle` | abstract: what a client may see of a scan; phases in order, findings before report |
| `ScanWorkflow` | detailed: handler, workflow, activities, pods, Temporal, Deployer |
| `MCScanWorkflow` | instances for TLC |
| `ScanWorkflowProofs` | inductive invariants, theorems, the contract and the refinement |
| `TokenAccount` | abstract: one atomic account |
| `Billing` | detailed: AdjustTokens with sessions, row lock, pool, replicas |
| `MCBilling` | instances for TLC |
| `BillingProofs` | inductive invariant, theorems, refinement, absence of deadlock |
| `ProofContract` | the findings of a scan from the producers to the stored list |
| `MCProofContract` | instances for TLC |
| `ProofContractProofs` | inductive invariants and theorems |
| `UserDirectory` | abstract: every call on an account takes effect in one step |
| `Accounts` | detailed: a company's users, invitations, sessions and agent token |
| `MCAccounts` | instances for TLC |
| `AccountsProofs` | inductive invariants, theorems, action property, refinement |
| `Agents` | agents, tokens, uploads, Redis keys and watchers |
| `MCAgents` | instances for TLC |
| `AgentsProofs` | inductive invariant and theorems |
| `Streams` | commits, broadcasts, queues and streams of one pod |
| `MCStreams` | instance for TLC |
| `StreamsProofs` | inductive invariant, theorems, an action property |
| `Targets` | what a scan attacks, clones and enters |
| `MCTargets` | instance for TLC |
| `TargetsProofs` | inductive invariant and theorems |

### ScanWorkflow and the code

*State.* `status`, `completedAt`, `pdf` are columns of `scans`; `vulns[f]`
counts the rows of `vulnerabilities` for finding `f`. `pc` is the activity
`run()` awaits, or how it ended; a status update is named by the status it
writes. `task` is that activity as Temporal sees it. `pod[p]` is the database
attempt pod `p` is blocked in; `deployer` are the attempts the Deployer is
executing. `sandbox` says that the namespace exists. `rpc` and `host` are the
StartScan call, its pod and the workflow it launches: `pipeline` is "graph" or
"image", whichever of the two `run()` methods. `gaveUp` and `resaved` are history
variables: the activities that failed for good, and for each finding the number of
its rows from saves that raised after their commit.

*The workflow.* `Edges` is the control flow of `run()`: a pair for each
activity that may be awaited after another, with the optional ones (artifact
download, topology, debug bundles, crew) on their own paths. `Proceed` follows
an edge; `RaiseBetween` is code between two awaits that raises (validation: an
ApplicationError; missing workload or endpoint, or a TypeError of the
ingestion of findings: a plain exception);
`ActivityFails` and `HandleFailure` are the `except` clauses and
`_handle_workflow_failure`. A plain exception that leaves `run()` fails the
workflow *task*, which Temporal retries for ever: `pc = "wedged"`.

*Attempts.* Calls set `schedule_to_close_timeout` and nothing else, so an
attempt that raises is retried without a limit (`Raise`), an attempt whose pod
dies is never retried (`Crash`, `Lost`), and a deadline lets the workflow go on
while the attempt is still running (`GiveUp`). `Commit` is the committed effect
of an attempt; `Raise` and `Crash` happen before or after it. The activities are
`async def` functions around blocking calls, so a pod that executes one runs no
workflow code: `Activated`.

*Left out.* Contents of findings, of the report and of the requests; the debug
bundle and crew report columns (no code reads them back to decide anything);
deadline lengths: `GiveUp` may happen at any time when "deadline" is a fault.
A retried attempt that the deadline has cancelled, one that Temporal has
accepted but not delivered, and cancellation by an operator are not modelled.

### Billing and the code

A call goes `queued` (waits for a connection of its process's pool),
`waiting` (for the row lock), `locked`, `committed` (waits for a connection
again, because the commit gave the first one back and expired the object whose
balance the answer reads), and ends with an answer. `conns` and `lock` are the
connections and the row lock; `balance`, `booked`, `granted`, `spent` are the
column and the ledger. Faults: a statement raises (a commit maybe after it took
effect), the wait for a connection times out, a replica dies. AdjustTokens runs
in worker threads, so calls of one replica interleave too. The sums in Python
do not overflow; the INTEGER column does: `Overflow`.

### ProofContract and the code

`phase` is the source whose findings `ingest_findings` validates
("worker-pentest", then "agent-crew"), then where `dedupe_findings` runs (the
workflow, then the database activities). `Validate` is one reported finding:
accepted with the proof level that `validate_finding` computes or downgrades,
or a TypeError that leaves the ingestion ("raised"); a rejected finding is
logged and changes nothing. `Dedupe` is one round of the loop, with `kept` as
its ordered dictionary; `HandOver` passes the list to the activities. An
evidence is what the contract looks at (payload, success, excerpt, flag); a
list of evidences is the function that counts them, so the order of evidences
inside a finding, like all texts, is left out.

### Accounts and the code

`row[u]` holds the columns of a user that operations share, and whether the
invitation is used. A call is a thread: `Begin` takes the snapshot that the
handler reads (`seen`) and what it is going to assign (`writes`); the password
hashing lies between; `Commit` stores what the ORM flushes: the assigned columns that
differ from the snapshot, and every new hash (`Flushed`, `Stored`). PostgreSQL
runs READ COMMITTED and rows are locked only from the flush to the commit, so
commits of several calls follow one another in any order. `CommitInvite` is an
insert, which the unique index on emails refuses if the user exists; the mail
is a step of its own (`SendMail`). `Abandon` is an exception, a broadcast that
raises after the commit, or the death of the process. `session` holds the
refresh tokens that may still be used, `access` the users of unexpired access tokens:
UpdatePassword needs one. Callers present tokens that exist and passwords they
know; a placeholder password is known to nobody.

`TakesEffectAtOnce` compares this with `UserDirectory`, in which a call is one
step on the columns it is about, as they are at that moment. Its state is the
columns of `row`, the agent token and the users for whom some token is usable; a
commit is the abstract step of its operation, and everything else is a stutter or
a user leaving. So no commit writes a column its operation is not about, none
writes half of what it is about, and none acts on a user who does not exist. The
directory asks no more of a call than the code can keep: a set-up may be repeated (the
finding of accounts_one_time), and a login or a new password may come after the
deactivation that its read did not see. An owner must exist before others are
invited, and before the agent token changes.

### Agents and the code

`deployment` is the company's `deployment_token` (by number, in the order of
their generation), `row` the table `agents`, with `recent` for a `last_seen`
inside `AGENT_ACTIVE_WINDOW`. A call occupies a thread: RegisterAgent goes
`enrol` (the token was found), then `insert` or `save` depending on whether the
name was found; UpdateAgentStatus goes `status`, then `ingest` after an
UPLOAD_COMPLETE; GetUploadLink is `link`. `latest[a]` and `key[a]` are the two
Redis keys of an agent, `open` the ids of the ingest workflows that run, which
contain the second, so that Temporal refuses a second one (`SkipIngest`:
the call still answers success). As in Accounts, the ORM writes the columns
that differ from what was loaded (`Flushed`): a report of the status a call has
read does not undo an OFFLINE written meanwhile.

`watcher[p]` is the AgentWatcher of a pod with its backlog of expiry events.
`MarkOffline` writes OFFLINE whatever happened since the event was read, as the
code does not look at the key again; `ListenFails` and `Wake` are the reconnect
after five seconds by recursion, whose depth the interpreter bounds: at the limit
the error leaves `main()` and the process is started again. Events of a watcher that
is not subscribed are lost.

External are the agent (`ReportUpload`, `PutObject`, `GiveUp`: it stops waiting for
a call that goes on), the Gateway, which refreshes the key (`RefreshKey`), Redis' expiry,
and the ingest workflow (`IngestEnds`). `told`, `overlapped` and `disturbed` are
history variables that say when the properties do not apply.

### Streams and the code

`stored[r]` counts the committed changes of a row (a scan, a company or a user).
A call of the company service runs in a worker thread: `writing`, `committed`,
`ready`, `telling` (with the queues not visited yet), `mail`. The broadcaster
iterates over the live set: if the loop adds or removes a queue meanwhile the
next step raises (`TellRaises`), or, when the size is the old one again, goes on
with the rest, may visit a new element and may skip some (`Shaken`: what is left is
any subset of the old rest and the new queue). An empty set is not iterated over at
all (`AllTold`).

A handler awaits its worker thread, and grpc.aio cancels it when the client hangs
up or its deadline passes (`Cancel`): a thread that has not started never will, one
that runs goes on to commit and to broadcast, `alone`, and nobody takes what it
returns, so that no mail follows. `DatabaseFails` is an error before the commit,
after it, or after the broadcast, when create-user reads the company's name
again; `PodDies` ends every call and every stream at any moment. `mishaps` are the
invited rows to which one of these events happened before the mail.

A put is a callback scheduled on the loop: `callbacks[s]`, in order, then `queue[s]`,
then the stream takes it (`Take`: `shown[s]`). The status activities commit and broadcast on the loop itself, in one step
(`UpdateStatus`); other pods, or an error between commit and broadcast, change a
row without telling this pod (`UpdateElsewhere`).

`WatchScan` checks the ownership and only later registers (`Register`); `Watch`
is the company stream, which checks nothing that is stored. `since[s]` is what was stored
when `s` registered: what changed before that is never delivered, and the
properties say so. `unsaid` are the rows whose latest version not everybody was told.
`InvitationsAreMailed` does not promise that an invitation is mailed. It says which
events, happening to that very call after its commit, can keep it from being mailed:
an error of the database or the mail service, a cancelled handler, a dead pod, a
stream opened or closed under its broadcast. `InvitationsAreSent` promises it where
no fault occurs, and is refuted (streams_mail).

### Targets and the code

`graph` is the part of Neo4j that the scan's company owns; `Ingest` changes it
between any two queries, `changes` bounds how often. `QueryPaths` and `QueryDirect` (the
fallback when no path was found) answer at most `Limit` rows, `Answers` being
the freedom the ORDER BY leaves. `RankTargets` removes duplicates twice, as the
service and the workflow do, by different keys; it applies the filter, or takes
it back if nothing is left, and falls back to the two default targets.
`CloneContainers`, `LoadRoutes` and `LoadSchemas` build the topology from three
more queries of a later activity (`QueryFails` restarts them from the first), each
with its limit; the attack queries take the routes of the scan's `agent`, the
topology's take those of every agent. Then the workflow chooses its endpoint (`Endpoint`), deploys, and `RunCrew`
tells the crew. `Replay` is another worker that runs the workflow code again: a
Python set of strings is iterated in another order in every process, and the
endpoint that the history does not hold may become another.

Names, identifiers and labels are words of a small set `Words`, "" for an absent one. The
conversions the properties depend on are functions on it: `Normalized` (lower case,
other characters to dashes), `Cut` (the length limit, which may end a name behind a
dash) and `Lower` (the filter of targets). The choice of the endpoint compares names
in one spelling, the filter of routes in another: a workload that was cut behind a
dash keeps the dash in the topology and is named without it as the endpoint, and
EndpointIsWorkload compares normalised names for that reason. A direct row takes a
missing name from the other end of its route (`Name`, `EntryName`); `Label` is
_build_target_label, and the default targets have their labels, which are candidates
for the endpoint like any other.

Left out: wording as an order. Where ORDER BY ends in names, a LIMIT may keep any of
the ties, and `_best_endpoint_workload` takes any of the workloads of the highest score.
`Hops`, the length of the shortest path between two routes, is a constant and not
computed from the present graph. Every container node has a name and an image.

## 4. Runs

| Run | Module, configuration | States | What it shows |
|---|---|---|---|
| scan_safety | MCScanWorkflow, `ScanSafety.cfg` | 260,543 | all safety invariants of both pipelines with every fault; which saves store a finding again; with two pods every step a client sees is one of ScanLifecycle while the scan is on course, and again from COMPLETED on |
| scan_lifecycle | MCScanWorkflow, `ScanLifecycle.cfg` | 27,704 | with one pod ScanWorkflow, in both pipelines, implements ScanLifecycle; a launched workflow settles |
| scan_restarts | MCScanWorkflow, `ScanRestarts.cfg` | violation | a restart alone fails a scan |
| billing | MCBilling, `Billing.cfg` | 263,406 | balance = ledger, never overdrawn, true answers; AdjustTokens is atomic; no call waits for ever |
| proof_contract | MCProofContract, `ProofContract.cfg` | 215,071 | collapsing twice gives the reference's result with justified levels |
| accounts | MCAccounts, `Accounts.cfg` | 317,672 | set-up is atomic, sessions follow it, concurrent changes survive; Accounts implements UserDirectory |
| accounts_one_time | MCAccounts, `AccountsOneTime.cfg` | violation | one invitation sets two passwords |
| agents_safety | MCAgents, `AgentsSafety.cfg` | 1,812,094 | when a name has two agents; which object is ingested, and whether it was answered |
| agents_live | MCAgents, `AgentsLive.cfg` | 95,580 | the dashboard converges to whether an agent lives |
| streams | MCStreams, `Streams.cfg` | 232,483 | what reaches a stream and in which order; which events keep an invitation from being mailed |
| streams_mail | MCStreams, `StreamsMail.cfg` | violation | without any fault, a stream that is closed loses an invitation |
| targets | MCTargets, `Targets.cfg` | 1,696,690 | what is attacked, cloned and entered while the graph changes |

*What the properties except.* Some hazards do go wrong in this code, and a property
that excluded them would be false. Where that is so, the property names the events after which
they happen, and what it shows is that nothing else has the same effect; it does not
catch the hazard itself:

* a save whose commit took effect and whose answer is lost stores its findings again
  (StoredOnceUnlessRaised: `resaved`);
* an activated account whose invitation is pending is refused by SetupPassword
  (SessionsFollowSetUp is about its login only);
* overlapping registrations of one name (EnrolmentsHold: `overlapped`), and uploads whose
  link was lost or overwritten by a call the agent gave up on, or whose ingest failed to start
  (IngestsAreStored, AnsweredUploadsAreIngested: `disturbed`);
* a watcher that recurses until its process ends: the model starts it again;
* a broadcast disturbed by a stream, versions read back in another order than they were
  committed, and what was stored before a stream registered (StreamsCatchUp: `unsaid`, `since`);
* an invitation that meets a mishap (InvitationsAreMailed: `mishaps`), of which
  streams_mail shows one that needs no fault;
* a selected target that stands behind another of its path and name which was selected only
  through its container, and targets found only through their container
  (SelectedAreAttacked: `Wanted`);
* a replay that iterates over the selected words in another order (CrewNamesDeployed: `moved`).

*Bounds.* Two pods are enough for a late attempt on one while another serves
the workflow. Each
run has both pipelines. Two findings distinguish "all stored" from "some stored". `MaxRows
= 2` bounds the rows one finding may get from retried saves: it lets a save be
retried after a commit, which is the case the properties are about; it is a
guard of `Pick`, and the theorems hold for every value of it. Symmetry over pods and findings is used
where only invariants are checked. In Billing, three calls give two waiting
behind one that holds the lock; amounts -2, 1 and 3 with a limit of 3 contain a
grant that fits, one that overflows, a consumption that succeeds and one that
is refused; two replicas with pools of two connections fill one pool with two
of the calls, or compete for the row from two pools. In ProofContract, three findings
on two keys give every pattern of collisions up to three of one key, and the
four evidences are the ones the level rules tell apart (a flag only claimed, a
flag in the output, a failed tool that left a flag, a success without
excerpt); a list holds up to two copies, which shows deduplication. In
Accounts two calls at a time give every race of a read and a commit, and the
histories are unbounded because threads and tokens are used again; one user
suffices since calls about different users share nothing but the agent token,
which no property of the run is about.

In Agents, two runs divide the faults. `agents_safety` has two identifiers and one
name, hence both orders of two registrations, and two threads with two seconds
and one file, hence two uploads in the same second and in different ones; no
watcher, which no safety property depends on; symmetry over threads.
`agents_live` has one agent, since agents share nothing a watcher touches, and
two pods that may both be late with an event of a backlog of one. Its watchers
may recurse once. In Streams, two calls and two streams let the set change under an
iteration in every way, including back to its old size. `MaxCommits = 2` gives a
row a version that is overtaken, and `MaxBusy = 3` bounds the calls and streams at a
time; all faults are on. `streams_mail` has one thread, one stream and no fault. In
Targets, `Limit = 3`, `MaxClones = 2`, `MaxLinks = 2` and `MaxSchemas = 1` are smaller
than the four routes, three containers and two schemas, so that every limit cuts; one
route belongs to another agent than the others and the scan is of that agent or of
all; the graph changes twice, between any queries; the five selections are none,
several containers, and routes, names and containers mixed, in other spellings too. The theorems hold for all numbers.

*No deadlock check.* ScanWorkflow, Billing, ProofContract and Targets end: the
scan has ended (or its launch never happened and the row stays PENDING), all calls
are answered, the list is stored. Agents may come to rest when the bounds on secrets,
tokens and the clock are reached. Accounts and Streams never end and are checked.

*Fairness.* `Resume`: Temporal hands each workflow task to a live worker.
`GiveUp`: it fires every schedule_to_close timer. `Attempt(p)`: a blocking
database call returns or raises. Nothing is assumed of the Deployer, of the
StartScan caller or of who picks an attempt, so the runs that check liveness
include the fault "deadline". In Billing `Progress(c)`: threads run, PostgreSQL
grants row locks and the pool serves waiters in turn; nothing is assumed of the
callers. In Agents, threads and watchers make their own steps (weak); an agent
that runs reports again and again (`docs/en/database.md:22`: "last_seen is
updated by status/heartbeat calls"), and not every report of it fails in the
database (strong, since a full set of threads or an error disables the step now
and then); the key and the time window of an agent that stopped run out (weak).
In Streams, the loop runs its callbacks and a stream takes what was put
(weak); nothing is assumed of callers, of other pods or of clients that ask for streams
or end them.

### Findings

* **A restart fails the scan** (scan_restarts). `README.md:19` promises "Durable
  Workflows: ... ensuring scans survive pod restarts". Without a
  start_to_close_timeout or heartbeats Temporal never retries an attempt whose
  pod died; the deadline passes and the scan is marked FAILED.
* **Closing a stream loses an invitation** (streams_mail). `docs/en/workflows.md:28`
  says that the token is "stored with an expiration date, and sent by email". The
  onboarding's worker thread broadcasts after its commit and inside the same `try`
  (`company.py:300`), over a set that the event loop changes meanwhile
  (`broadcaster.py:23`): "Set changed size during iteration" is answered as a
  database error, the mail is skipped, and a second OnboardCompany is refused because
  the company exists. Only the token's hash is stored.
* **An invitation works twice** (accounts_one_time). `docs/en/workflows.md:28`
  calls it "one-time". Two SetupPassword calls that read before either commits
  both succeed: the second replaces password and agent token that the first
  was given, and reactivates a user who was deactivated in between.

Smaller things met while modelling, which no run claims:

* A severity or proof level that is a JSON array or object raises TypeError in
  a set or dictionary lookup (`proof_contract.py:118`), which the ingestion
  does not catch: the model's phase "raised". `wf:512` says such findings are
  "logged and dropped".
* `save_vulnerabilities` (`db:145`) has no key that makes it idempotent. When
  its commit took effect but raised, the retry doubles the rows and the report,
  built from the list, counts fewer. StoredOnceUnlessRaised says that nothing else
  adds a row.
* An onboarding whose handler is cancelled while its thread commits (a client that
  hangs up), or whose pod dies before the mail, is stored and never mailed, as after an
  error of the database or the mail service.
* With a selection of containers and routes mixed, targets found only through their
  container are dropped by the filter (`wf:715`) if one found by its route remains.
* An artifact scan without `target_image` is read as the selection
  `{"minio"}`, the sandbox source. The substring that recognises
  observability tools, "otel", also matches "hotel" (`wf:844`).
* The filter of the topology's routes (`topology:139`) compares sanitized names
  only, and LIMIT counts rows before duplicates are removed.
* Two processes may iterate a set of selected words in different orders
  (`wf:788`): after a replay the crew may be told another endpoint than the one
  deployed. CrewNamesDeployed says exactly when.

## 5. Theorems

All are checked by TLAPS, for every set of pods, findings, calls, agents,
streams, graphs and amounts, under the modules' only assumptions:

* `ScanAssumption`: there is a pod, the pipelines are of the two there are, the
  faults are known, MaxRows is positive;
* `BillingAssumption`: amounts are integers, the limit a natural number, the pool
  not empty;
* `EvidenceAssumption`: the shape of evidences and lists;
* `AccountsAssumption`: there is an owner and an owner role, and no password is
  the placeholder;
* `AgentsAssumption`, `StreamsAssumption`: the bounds are natural numbers, the
  faults are known, and the placeholders (no thread, UPLOAD_COMPLETE among the
  other reports) are not members of the sets;
* `TargetsAssumption`: routes and containers are finitely many, route identifiers are
  unique, a selection is finite and has no empty word, and the conversions map words
  to words. Nothing is assumed of what they map to what.

**ScanWorkflowProofs.** None of the safety invariants is inductive: each
depends on which attempts may still be running. `IInv` adds the missing parts:

* `TaskInv`: task and pc fit together; a cause is known on the failure path only;
* `AttemptInv`: until the workflow fails, a pod executes nothing but the
  awaited activity, and no two pods execute the same one;
* `GaveUpInv`: before the failure path only the crew was given up on;
* `DeliveryInv`, `SandboxInv`: what the phases passed so far left behind
  (findings stored, report written, sandbox gone, Deployer idle);
* `CompletedInv`: the same facts wherever COMPLETED is or may still be written,
  by a late attempt included;
* `VisibleInv`: for the success status;
* `OnceInv`: a save that is running or may still be started has added no row but those
  that `resaved` counts.

Each part is shown inductive by a lemma of its own (one step per action), which
assumes only the parts it needs, and the theorems TypeCorrect,
CompletedCorrect, SuccessCorrect, LeakCorrect, ToleranceCorrect and OnceCorrect
follow. 
The contract with the client, ScanLifecycle, rests on three more invariants.
`FlowInv` says which status, findings and report the row may have wherever the
workflow is on its way to success; `LateInv` says which attempts may still be
running: only the awaited one while no database activity was given up on, and none
that would lead the scan back once COMPLETED is or may be written; `TurnInv` is
what a running attempt finds when its turn comes. ContractCorrect follows, for
any number of pods and every fault: a step that breaks the contract needs a
database activity that was given up on or the error path of StartScan (`OnCourse`
is false), and even then none happens once the scan is COMPLETED. For one pod
and no fault of the launch (`OneBrain`), LifecycleRefinement removes that
condition: an attempt the workflow gave up on commits before its pod can start
the write of FAILED, so each step is a step of ScanLifecycle or a stutter.

**BillingProofs.** `LockInv` (the holder of the row lock sees the committed
balance) is what makes the write of an absolute balance correct; `BookedInv`
says a call is booked only by its own commit. TypeCorrect, LedgerCorrect, SolvencyCorrect
and AnswersCorrect follow, and AccountRefinement shows that every step of
Billing is a step of TokenAccount or leaves its variables unchanged.
`PoolInv` ties connections to stages: a session keeps one only while it waits for
the row or holds it, and no pool lends more than it has (PoolsHold, which needs
the lemmas on cardinalities of the library). From it NoDeadlock: a call that
cannot go on is blocked by a session that can. That it does go on is the
liveness property EveryCallAnswered, which TLC checks. `PoolInv` and `NeverStuck`
are defined beside the proofs and belong to no run.

**ProofContractProofs.** The level of the winner was computed from its own
evidences, and merging adds evidences of another source, judged by other
rules: `Monotone` shows that more evidences never justify less.
SecondPassCorrect rests on `CollapsedInv`: the first pass leaves one finding
per key and each evidence once, so every round of the second pass copies.
ReferenceCorrect rests on `ReferenceInv`: after every round `kept` is the
reference's result for the findings met so far.

**AccountsProofs.** A commit may come long after the read it is based on. The
invariant says which columns each operation is going to write (`CallInv`) and
what stays true of its user until then (`RelyInv`: who has logged in has set
up, and nothing undoes that). `StoredRow` derives what a flush makes of the
row, from which SetUpCorrect, SessionsCorrect and the action property
ColumnsCorrect follow. DirectoryRefinement shows that every step of Accounts is a
step of UserDirectory or a stutter. It needs `PendingInv` (what a call
relies on when it commits: its user, or for an invitation the owner, exists; a
set-up read its user as inactive, so that the flush never drops the activation)
and `CompanyInv` (the owner exists before anybody else, and nobody is active
before the invitation).

**AgentsProofs.** `UInv` follows an upload through three parties: an agent waits
for at most one call, which is its own, and while its uploads are undisturbed
nobody else works for it and the link in Redis is its object. `EInv` relates the
calls that register a name to its rows and to the secret it was told last:
without overlap there is one such call, and it saves the row it found. OnlyStoredIsIngested,
AnsweredIsIngested and EnrolmentsAreKept follow.

**StreamsProofs.** The invariant is about what is on its way to a stream: the
events in its queue and in the loop's callbacks, in the order they will be shown.
`TellInv`: an undisturbed call is the only one about its row, tells the latest
version, and the streams it has visited have it as the last event. `SaidInv`: a
row that everybody was told is the last event, or shown, at every stream that watches
it. StreamsCatchUpAlways follows for a stream with nothing on its way. `InOrder`:
the events of a scan come in the order of its versions, after what is shown, from
which ScansStayInOrder (an action property) follows. `Iterators` ties what a
broadcast has yet to visit to the set. InvitationsGoOut rests on
`MishapInv`: the row of a call that still invites is among `mishaps` if its handler was
cancelled or its iteration is about to raise. So it has an exception for each
path that ends without the mail, errors, cancellation and death of the pod
included; a handler that forgets the mail on any other path, as its mutant does for
calls that raced with another one, breaks it.

**TargetsProofs.** Five parts: `RowsInv` (every row is a route that was
selected, however the graph has changed since), `AttackInv` (what the two rounds
of removing duplicates and the filter keep; `NormalizedKeeps` says it of the
operators), `ClonesInv`, and `EndpointInv` with `StateOK` for the choice of the
endpoint among the candidates. The theorems NothingElse, NothingLost, EntersAWorkload
and CrewIsTold follow. NothingLost has the exception that SelectedAreAttacked has: of
two targets of the same path and name one is kept, and if that one was selected only
through its container the filter drops it (hazard H37 of `PROJECT.json` counts it
among what does happen).

**Model-checked only.** The liveness properties LaunchedSettles,
EveryCallAnswered, StreamsHear, OfflineDoesNotStick and SilentAgentsFade, which are out of the prover's reach. Every other property of the passing runs is the
statement of a theorem.

## 6. Not modelled

Stateless code (identity interceptor, vulnerability queries, PDF layout, mail
templates) enters only by its outcomes. Generated protocol code, start-up and
configuration are not modelled. Of the topology, environment variables, container labels, ports and
images are left out, and what is inside a database schema: they are copied and
decide nothing. Of accounts and companies, names, avatars, email changes,
company data and the audit log are left out; of agents, host metadata.
Permission checks depend on the request alone: a refused request changes nothing
and is not a step.
