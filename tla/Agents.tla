-------------------------------- MODULE Agents --------------------------------
(***************************************************************************)
(* The deployed agents of one company: enrolment with the deployment       *)
(* token, status reports, uploads and the ingest workflow they start       *)
(* (agent.py, internal_auth.py), and the watcher of each pod that marks    *)
(* agents OFFLINE when their Redis key expires (agent_watcher.py).         *)
(*                                                                         *)
(* The agents themselves and the Gateway, which refreshes the key of an    *)
(* agent that sends heartbeats, are external.  Calls that are refused      *)
(* before they change anything (bad token, unknown agent) are not steps.   *)
(***************************************************************************)
EXTENDS Naturals, Sequences, FiniteSets

CONSTANTS
  Agents,      \* the identifiers RegisterAgent may draw
  Names,       \* the names agents register with; "unnamed" stands for none
  Threads,     \* bound on the calls at work at a time
  Pods,        \* the replicas
  Uploaders,   \* the agents that upload files
  Files,       \* the names of the files agents upload
  Reports,     \* what agents report, besides UPLOAD_COMPLETE
  MaxTokens,   \* bound on the deployment tokens that are generated
  MaxSecrets,  \* bound on the registrations
  MaxSecond,   \* bound on the clock, in seconds
  MaxBacklog,  \* bound on the expiry events a watcher has not handled yet
  MaxDepth,    \* how deep AgentWatcher.start() may call itself
  Faults       \* of AllFaults, the faults that occur

AllFaults == {"db", "redis", "temporal", "timeout", "silence", "crash"}

ASSUME AgentsAssumption ==
  /\ MaxTokens \in Nat /\ MaxSecrets \in Nat /\ MaxSecond \in Nat
  /\ MaxBacklog \in Nat /\ MaxDepth \in Nat
  /\ Faults \subseteq AllFaults
  /\ Reports \subseteq STRING \ {"UPLOAD_COMPLETE"}
  /\ "none" \notin Threads

VARIABLES
  deployment,  \* companies.deployment_token: 0 is NULL, else the token's number
  minted,      \* the number of tokens generated so far
  row,         \* the rows of agents, by id
  thread,      \* the calls at work
  now,         \* the second
  latest,      \* Redis agent:latest_upload:<id>
  key,         \* Redis agent:health:<id> exists
  open,        \* the ids of the ingest workflows that run
  watcher,     \* the AgentWatcher of each pod
  alive,       \* the agent's process runs
  upload,      \* what the agent is doing about its upload
  stored,      \* the objects that were put into the bucket
  ingested,    \* history: the objects ingest workflows were started for
  secrets,     \* history: the number of secrets generated so far
  told,        \* history: the last secret a name was answered
  overlapped,  \* history: names with two registrations at a time
  disturbed    \* history: what went wrong with an agent's uploads

company == <<deployment, minted>>
enrolment == <<secrets, told, overlapped>>
uploads == <<latest, open, upload, stored, ingested, disturbed>>
presence == <<key, watcher, alive>>
vars == <<company, row, thread, now, enrolment, uploads, presence>>

-----------------------------------------------------------------------------

NoObject == <<>>
Objects == [second : 0..MaxSecond, file : Files]
Statuses == Reports \cup {"IDLE", "OFFLINE"}
Causes == {"link", "start"}   \* the link in Redis, the start of the workflow

Row == [ name : Names, secret : 1..MaxSecrets, status : Statuses,
         recent : BOOLEAN ]   \* recent: last_seen is within AGENT_ACTIVE_WINDOW

Idle == [op |-> "idle"]

Calls ==
  {Idle}
    \cup [op : {"enrol", "insert"}, name : Names, secret : 1..MaxSecrets]
    \cup [op : {"save"}, name : Names, secret : 1..MaxSecrets, agent : Agents, seen : Statuses]
    \cup [op : {"status"}, agent : Agents, seen : Statuses,
          report : Reports \cup {"UPLOAD_COMPLETE"}, key : Objects \cup {NoObject}]
    \cup [op : {"ingest"}, agent : Agents, key : Objects \cup {NoObject}]
    \cup [op : {"link"}, agent : Agents, object : Objects]

Uploads ==
  [phase : {"none", "asking", "linked", "stored", "completing", "done"},
   object : Objects \cup {NoObject}, call : Threads \cup {"none"}]

NoUpload == [phase |-> "none", object |-> NoObject, call |-> "none"]

Watchers == [ phase : {"down", "listening", "marking", "sleeping"}, depth : 0..MaxDepth,
              backlog : Seq(Agents), seen : Statuses ]

Starting(depth) == [phase |-> "down", depth |-> depth, backlog |-> <<>>, seen |-> "IDLE"]

TypeOK ==
  /\ deployment \in 0..MaxTokens /\ minted \in 0..MaxTokens
  /\ DOMAIN row \subseteq Agents /\ row \in [DOMAIN row -> Row]
  /\ thread \in [Threads -> Calls]
  /\ \A t \in Threads : thread[t].op \in {"save", "status", "ingest", "link"} =>
       thread[t].agent \in DOMAIN row
  /\ now \in 0..MaxSecond
  /\ latest \in [Agents -> Objects \cup {NoObject}]
  /\ key \in [Agents -> BOOLEAN]
  /\ open \subseteq Agents \X (0..MaxSecond)
  /\ watcher \in [Pods -> Watchers]
  /\ alive \in [Agents -> BOOLEAN]
  /\ upload \in [Agents -> Uploads]
  /\ stored \subseteq Agents \X Objects /\ ingested \subseteq Agents \X Objects
  /\ secrets \in 0..MaxSecrets
  /\ told \in [Names -> 0..MaxSecrets]
  /\ overlapped \subseteq Names
  /\ disturbed \in [Agents -> SUBSET Causes]

Init ==
  /\ deployment = 0 /\ minted = 0
  /\ row = [a \in {} |-> Idle]
  /\ thread = [t \in Threads |-> Idle]
  /\ now = 0
  /\ latest = [a \in Agents |-> NoObject]
  /\ key = [a \in Agents |-> FALSE]
  /\ open = {}
  /\ watcher = [p \in Pods |-> Starting(0)]
  /\ alive = [a \in Agents |-> TRUE]
  /\ upload = [a \in Agents |-> NoUpload]
  /\ stored = {} /\ ingested = {}
  /\ secrets = 0
  /\ told = [n \in Names |-> 0]
  /\ overlapped = {}
  /\ disturbed = [a \in Agents |-> {}]

(* The ORM writes a column only where it differs from what was loaded.     *)
Flushed(value, seen, current) == IF value = seen THEN current ELSE value

Start(t, call) == thread[t] = Idle /\ thread' = [thread EXCEPT ![t] = call]
Continue(t, call) == thread' = [thread EXCEPT ![t] = call]
End(t) == thread' = [thread EXCEPT ![t] = Idle]

-----------------------------------------------------------------------------
(* The company's deployment token (company.py, auth.py) and registration.  *)

Mint ==
  /\ minted < MaxTokens
  /\ minted' = minted + 1 /\ deployment' = minted + 1
  /\ UNCHANGED <<row, thread, now, enrolment, uploads, presence>>

Revoke ==
  /\ deployment # 0
  /\ deployment' = 0
  /\ UNCHANGED <<minted, row, thread, now, enrolment, uploads, presence>>

Named(n) == {a \in DOMAIN row : row[a].name = n}

Enrolling(t, n) == thread[t].op \in {"enrol", "insert", "save"} /\ thread[t].name = n

(* RegisterAgent, up to the hash of the new secret: the token is the one   *)
(* in force.  An agent that gives no name is called Agent-<random>.        *)
Verify(t, n) ==
  /\ deployment # 0
  /\ secrets < MaxSecrets
  /\ Start(t, [op |-> "enrol", name |-> n, secret |-> secrets + 1])
  /\ secrets' = secrets + 1
  /\ overlapped' = overlapped \cup
       IF n # "unnamed" /\ \E other \in Threads : Enrolling(other, n) THEN {n} ELSE {}
  /\ UNCHANGED <<company, row, now, told, uploads, presence>>

(* A plausible bug: an agent is inserted without looking for its name.     *)
BrokenFindAgent(t) ==
  /\ thread[t].op = "enrol"
  /\ Continue(t, [thread[t] EXCEPT !.op = "insert"])
  /\ UNCHANGED <<company, row, now, enrolment, uploads, presence>>

(* _save_agent reads the agent of that name, if there is one.              *)
FindAgent(t) ==
  LET call == thread[t] IN
  /\ call.op = "enrol"
  /\ \/ /\ Named(call.name) = {} \/ call.name = "unnamed"
        /\ Continue(t, [call EXCEPT !.op = "insert"])
     \/ /\ call.name # "unnamed"
        /\ \E a \in Named(call.name) :
             Continue(t, [ op |-> "save", name |-> call.name, secret |-> call.secret,
                           agent |-> a, seen |-> row[a].status ])
  /\ UNCHANGED <<company, row, now, enrolment, uploads, presence>>

(* How a commit ends: answered, or committed with the answer lost.         *)
Answers == IF "db" \in Faults THEN BOOLEAN ELSE {TRUE}

Tell(call, answered) ==
  told' = [told EXCEPT ![call.name] = IF answered THEN call.secret ELSE @]

InsertAgent(t) ==
  LET call == thread[t] IN
  /\ call.op = "insert"
  /\ \E a \in Agents \ DOMAIN row :
       row' = [b \in DOMAIN row \cup {a} |->
                 IF b = a THEN [ name |-> call.name, secret |-> call.secret,
                                 status |-> "IDLE", recent |-> TRUE ]
                 ELSE row[b]]
  /\ \E answered \in Answers : Tell(call, answered)
  /\ End(t)
  /\ UNCHANGED <<company, now, secrets, overlapped, uploads, presence>>

SaveAgent(t) ==
  LET call == thread[t] IN
  /\ call.op = "save"
  /\ row' = [row EXCEPT ![call.agent] =
               [ name |-> call.name, secret |-> call.secret,
                 status |-> Flushed("IDLE", call.seen, @.status), recent |-> TRUE ]]
  /\ \E answered \in Answers : Tell(call, answered)
  /\ End(t)
  /\ UNCHANGED <<company, now, secrets, overlapped, uploads, presence>>

(* VerifyAgentSecret compares the hash of the agent's row.                 *)
VerifyAgentSecret(a, secret) == a \in DOMAIN row /\ row[a].secret = secret

-----------------------------------------------------------------------------
(* UpdateAgentStatus.                                                      *)

(* What the agent does while it waits for the answer of call t.            *)
Waits(a, phase, t) ==
  upload' = [upload EXCEPT ![a] = [@ EXCEPT !.phase = phase, !.call = t]]

(* The answer of call t, if the agent still waits for it.                  *)
Answered(a, t, next) ==
  upload' = [upload EXCEPT ![a] = IF @.call = t THEN next ELSE @]

(* What an agent does after an error, or when it does not wait longer: it  *)
(* asks for another link, or reports the upload again.                     *)
GivenUp(a) ==
  IF upload[a].phase = "completing"
    THEN [upload[a] EXCEPT !.phase = "stored", !.call = "none"]
    ELSE NoUpload

Report(t, a, report) ==
  /\ alive[a] /\ a \in DOMAIN row
  /\ Start(t, [ op |-> "status", agent |-> a, seen |-> row[a].status, report |-> report,
                key |-> NoObject ])
  /\ UNCHANGED <<company, row, now, enrolment, uploads, presence>>

(* The agent may repeat the object's name from the link's answer or not.   *)
ReportUpload(t, a, key_) ==
  /\ alive[a] /\ a \in DOMAIN row
  /\ upload[a].phase = "stored"
  /\ key_ \in {NoObject, upload[a].object}
  /\ Start(t, [ op |-> "status", agent |-> a, seen |-> row[a].status,
                report |-> "UPLOAD_COMPLETE", key |-> key_ ])
  /\ Waits(a, "completing", t)
  /\ UNCHANGED <<company, row, now, enrolment, presence, latest, open, stored, ingested, disturbed>>

StatusToSave(report) == IF report = "UPLOAD_COMPLETE" THEN "IDLE" ELSE report

StoreStatus(t) ==
  LET call == thread[t]  a == call.agent IN
  /\ call.op = "status"
  /\ row' = [row EXCEPT ![a].status = Flushed(StatusToSave(call.report), call.seen, @),
                        ![a].recent = TRUE]
  /\ IF call.report = "UPLOAD_COMPLETE"
       THEN Continue(t, [op |-> "ingest", agent |-> a, key |-> call.key])
       ELSE End(t)
  /\ UNCHANGED <<company, now, enrolment, uploads, presence>>

Disturb(a, cause) == disturbed' = [disturbed EXCEPT ![a] = @ \cup {cause}]

(* A plausible bug: the name is built anew from the current time.          *)
BrokenIngestible(call) ==
  IF call.key # NoObject \/ latest[call.agent] = NoObject THEN call.key
  ELSE [latest[call.agent] EXCEPT !.second = now]

(* The object the workflow is started for: the one the agent names, else   *)
(* that of the latest link.                                                *)
Ingestible(call) == IF call.key # NoObject THEN call.key ELSE latest[call.agent]

Completed(a, t) == Answered(a, t, [upload[a] EXCEPT !.phase = "done", !.call = "none"])

StartIngest(t) ==
  LET call == thread[t]  a == call.agent IN
  /\ call.op = "ingest"
  /\ Ingestible(call) # NoObject
  /\ <<a, now>> \notin open
  /\ open' = open \cup {<<a, now>>}
  /\ ingested' = ingested \cup {<<a, Ingestible(call)>>}
  /\ Completed(a, t) /\ End(t)
  /\ UNCHANGED <<company, row, now, enrolment, presence, latest, stored, disturbed>>

(* Success is answered as well when no workflow is started: no object is   *)
(* known, Redis or Temporal does not answer, or a workflow with this id    *)
(* runs already.                                                           *)
SkipIngest(t) ==
  LET call == thread[t]  a == call.agent IN
  /\ call.op = "ingest"
  /\ \/ Ingestible(call) = NoObject /\ UNCHANGED disturbed
     \/ "redis" \in Faults /\ call.key = NoObject /\ Disturb(a, "link")
     \/ "temporal" \in Faults /\ Ingestible(call) # NoObject /\ Disturb(a, "start")
     \/ <<a, now>> \in open /\ Ingestible(call) # NoObject /\ Disturb(a, "start")
  /\ Completed(a, t) /\ End(t)
  /\ UNCHANGED <<company, row, now, enrolment, presence, latest, open, stored, ingested>>

-----------------------------------------------------------------------------
(* GetUploadLink.                                                          *)

GetUploadLink(t, a, file) ==
  /\ alive[a] /\ a \in Uploaders /\ a \in DOMAIN row
  /\ upload[a].phase \in {"none", "done"}
  /\ Start(t, [op |-> "link", agent |-> a, object |-> [second |-> now, file |-> file]])
  /\ Waits(a, "asking", t)
  /\ UNCHANGED <<company, row, now, enrolment, presence, latest, open, stored, ingested, disturbed>>

(* A plausible bug: SET with NX, a key that exists is not overwritten.     *)
BrokenStoreLink(t) ==
  LET call == thread[t]  a == call.agent IN
  /\ call.op = "link"
  /\ latest' = [latest EXCEPT ![a] = IF @ = NoObject THEN call.object ELSE @]
  /\ Answered(a, t, [phase |-> "linked", object |-> call.object, call |-> "none"])
  /\ End(t)
  /\ UNCHANGED <<company, row, now, enrolment, presence, open, stored, ingested, disturbed>>

(* Redis keeps the object for UPLOAD_COMPLETE; a failure is only logged.   *)
StoreLink(t) ==
  LET call == thread[t]  a == call.agent IN
  /\ call.op = "link"
  /\ \/ latest' = [latest EXCEPT ![a] = call.object] /\ UNCHANGED disturbed
     \/ "redis" \in Faults /\ UNCHANGED latest /\ Disturb(a, "link")
  /\ Answered(a, t, [phase |-> "linked", object |-> call.object, call |-> "none"])
  /\ End(t)
  /\ UNCHANGED <<company, row, now, enrolment, presence, open, stored, ingested>>

(* A call raises or its process dies: its caller gets an error.            *)
Fails(t) ==
  /\ "db" \in Faults
  /\ thread[t] # Idle
  /\ End(t)
  /\ upload' = [a \in Agents |-> IF upload[a].call = t THEN GivenUp(a) ELSE upload[a]]
  /\ UNCHANGED <<company, row, now, enrolment, presence, latest, open, stored, ingested, disturbed>>

-----------------------------------------------------------------------------
(* The watcher of a pod (agent_watcher.py).                                *)

Watching(p) == watcher[p].phase \in {"listening", "marking"}

(* Every watcher subscribes to the expiry events of Redis database 0.      *)
Subscribe(p) ==
  /\ watcher[p].phase = "down"
  /\ watcher' = [watcher EXCEPT ![p].phase = "listening"]
  /\ UNCHANGED <<company, row, thread, now, enrolment, uploads, key, alive>>

(* _handle_agent_offline, in the transaction it opens: the row is read ... *)
ReadExpired(p) ==
  /\ watcher[p].phase = "listening" /\ watcher[p].backlog # <<>>
  /\ watcher' = [watcher EXCEPT ![p].phase = "marking",
                                ![p].seen = row[Head(watcher[p].backlog)].status]
  /\ UNCHANGED <<company, row, thread, now, enrolment, uploads, key, alive>>

(* A plausible bug: an event is handled again and again.                   *)
BrokenHandled(p) ==
  watcher' = [watcher EXCEPT ![p].phase = "listening"]

Handled(p) ==
  watcher' = [watcher EXCEPT ![p] =
                [phase |-> "listening", depth |-> @.depth, backlog |-> Tail(@.backlog),
                 seen |-> "IDLE"]]

(* ... and OFFLINE is written, whatever has happened since it expired.     *)
MarkOffline(p) ==
  LET a == Head(watcher[p].backlog) IN
  /\ watcher[p].phase = "marking"
  /\ row' = [row EXCEPT ![a].status = Flushed("OFFLINE", watcher[p].seen, @)]
  /\ Handled(p)
  /\ UNCHANGED <<company, thread, now, enrolment, uploads, key, alive>>

(* An error of the database is logged; the event is not handled again.     *)
MarkFails(p) ==
  /\ "db" \in Faults
  /\ watcher[p].phase = "marking"
  /\ Handled(p)
  /\ UNCHANGED <<company, row, thread, now, enrolment, uploads, key, alive>>

(* An error of Redis: events are not kept for a watcher that is not        *)
(* subscribed.                                                             *)
ListenFails(p) ==
  /\ "redis" \in Faults
  /\ watcher[p].phase \in {"down", "listening"}
  /\ watcher' = [watcher EXCEPT ![p] = [Starting(@.depth) EXCEPT !.phase = "sleeping"]]
  /\ UNCHANGED <<company, row, thread, now, enrolment, uploads, key, alive>>

(* A plausible bug: nothing ends the recursion.                            *)
BrokenWake(p) ==
  /\ watcher[p].phase = "sleeping"
  /\ watcher' = [watcher EXCEPT ![p] = Starting(@.depth + 1)]
  /\ UNCHANGED <<company, row, thread, now, enrolment, uploads, key, alive>>

(* After five seconds start() calls itself once more.  When the            *)
(* interpreter's recursion limit is reached the error leaves main(), the   *)
(* process ends and is started again.                                      *)
Wake(p) ==
  /\ watcher[p].phase = "sleeping"
  /\ watcher' = [watcher EXCEPT ![p] =
                   Starting(IF @.depth < MaxDepth THEN @.depth + 1 ELSE 0)]
  /\ UNCHANGED <<company, row, thread, now, enrolment, uploads, key, alive>>

PodRestarts(p) ==
  /\ "crash" \in Faults
  /\ watcher' = [watcher EXCEPT ![p] = Starting(0)]
  /\ UNCHANGED <<company, row, thread, now, enrolment, uploads, key, alive>>

-----------------------------------------------------------------------------
(* What the dashboard shows (ListAgents, GetAgentStatusSummary).           *)

INACTIVE_AGENT_STATUSES == {"OFFLINE", "ERROR"}

(* A plausible bug: only the status is looked at.                          *)
BrokenIsAgentActive(a) == row[a].status \notin INACTIVE_AGENT_STATUSES

IsAgentActive(a) == row[a].status \notin INACTIVE_AGENT_STATUSES /\ row[a].recent

StatusSummary ==
  LET active == Cardinality({a \in DOMAIN row : IsAgentActive(a)}) IN
  [ total_agents |-> Cardinality(DOMAIN row), active_agents |-> active,
    inactive_agents |-> Cardinality(DOMAIN row) - active ]

-----------------------------------------------------------------------------
(* External: agents, the Gateway, Redis, Temporal's ingest workers, time.  *)

PutObject(a) ==
  /\ upload[a].phase = "linked"
  /\ stored' = stored \cup {<<a, upload[a].object>>}
  /\ upload' = [upload EXCEPT ![a].phase = "stored"]
  /\ UNCHANGED <<company, row, thread, now, enrolment, presence, latest, open, ingested, disturbed>>

(* The agent does not wait for the answer any longer; the call goes on.    *)
GiveUp(a) ==
  /\ "timeout" \in Faults
  /\ upload[a].call # "none"
  /\ upload' = [upload EXCEPT ![a] = GivenUp(a)]
  /\ Disturb(a, "link")
  /\ UNCHANGED <<company, row, thread, now, enrolment, presence, latest, open, stored, ingested>>

LinkExpires(a) ==
  /\ "redis" \in Faults
  /\ latest[a] # NoObject
  /\ latest' = [latest EXCEPT ![a] = NoObject]
  /\ Disturb(a, "link")
  /\ UNCHANGED <<company, row, thread, now, enrolment, presence, open, upload, stored, ingested>>

IngestEnds(a, second) ==
  /\ <<a, second>> \in open
  /\ open' = open \ {<<a, second>>}
  /\ UNCHANGED <<company, row, thread, now, enrolment, presence, latest, upload, stored, ingested, disturbed>>

Tick ==
  /\ now < MaxSecond
  /\ now' = now + 1
  /\ UNCHANGED <<company, row, thread, enrolment, uploads, presence>>

RefreshKey(a) ==
  /\ alive[a] /\ a \in DOMAIN row /\ ~key[a]
  /\ key' = [key EXCEPT ![a] = TRUE]
  /\ UNCHANGED <<company, row, thread, now, enrolment, uploads, watcher, alive>>

KeyExpires(a) ==
  /\ key[a]
  /\ \A p \in Pods : Watching(p) => Len(watcher[p].backlog) < MaxBacklog
  /\ key' = [key EXCEPT ![a] = FALSE]
  /\ watcher' = [p \in Pods |->
                   IF Watching(p) THEN [watcher[p] EXCEPT !.backlog = Append(@, a)]
                   ELSE watcher[p]]
  /\ UNCHANGED <<company, row, thread, now, enrolment, uploads, alive>>

(* Five minutes without a call.                                            *)
AgesOut(a) ==
  /\ "silence" \in Faults
  /\ a \in DOMAIN row /\ row[a].recent
  /\ row' = [row EXCEPT ![a].recent = FALSE]
  /\ UNCHANGED <<company, thread, now, enrolment, uploads, presence>>

(* The agent stops, and is started again.                                  *)
Switches(a) ==
  /\ "silence" \in Faults
  /\ a \in DOMAIN row
  /\ alive' = [alive EXCEPT ![a] = ~@]
  /\ UNCHANGED <<company, row, thread, now, enrolment, uploads, key, watcher>>

-----------------------------------------------------------------------------

Call(t) ==
  \/ \E n \in Names : Verify(t, n)
  \/ FindAgent(t) \/ InsertAgent(t) \/ SaveAgent(t)
  \/ \E a \in Agents :
       \/ \E report \in Reports : Report(t, a, report)
       \/ \E key_ \in Objects \cup {NoObject} : ReportUpload(t, a, key_)
       \/ \E file \in Files : GetUploadLink(t, a, file)
  \/ StoreStatus(t) \/ StartIngest(t) \/ SkipIngest(t) \/ StoreLink(t) \/ Fails(t)

Watch(p) ==
  \/ Subscribe(p) \/ ReadExpired(p) \/ MarkOffline(p) \/ MarkFails(p)
  \/ ListenFails(p) \/ Wake(p) \/ PodRestarts(p)

Surroundings(a) ==
  \/ PutObject(a) \/ GiveUp(a) \/ LinkExpires(a) \/ \E second \in 0..MaxSecond : IngestEnds(a, second)
  \/ RefreshKey(a) \/ KeyExpires(a) \/ AgesOut(a) \/ Switches(a)

Next ==
  \/ Mint \/ Revoke \/ Tick
  \/ \E t \in Threads : Call(t)
  \/ \E p \in Pods : Watch(p)
  \/ \E a \in Agents : Surroundings(a)

Spec == Init /\ [][Next]_vars

ReportsAgain(a) == \E t \in Threads, report \in Reports : Report(t, a, report)

StoresStatusOf(a) == \E t \in Threads : thread[t].op = "status" /\ thread[t].agent = a /\ StoreStatus(t)

(* An agent that runs reports again and again ("last_seen is updated by    *)
(* status/heartbeat calls", docs/en/database.md:22), and not every report  *)
(* of it meets an error of the database; the bound on Threads does not     *)
(* keep it away for ever.  Its own calls and the watchers' steps are never *)
(* starved by the scheduler.  The key and the time window of an agent that *)
(* stopped run out.                                                        *)
Fairness ==
  /\ \A t \in Threads : WF_vars(FindAgent(t) \/ InsertAgent(t) \/ SaveAgent(t) \/ StoreStatus(t))
  /\ \A p \in Pods : WF_vars(Subscribe(p) \/ ReadExpired(p) \/ MarkOffline(p) \/ Wake(p))
  /\ \A a \in Agents :
       /\ SF_vars(ReportsAgain(a)) /\ SF_vars(StoresStatusOf(a))
       /\ WF_vars(~alive[a] /\ KeyExpires(a))
       /\ WF_vars(~alive[a] /\ AgesOut(a))

FairSpec == Spec /\ Fairness

-----------------------------------------------------------------------------

(* RegisterAgent looks for the name before it inserts and no constraint    *)
(* keeps a second row away: as long as two registrations of a name do not  *)
(* overlap there is one agent of that name, and the secret the caller was  *)
(* answered last is not replaced by an older one.                          *)
EnrolmentsHold ==
  \A n \in Names \ (overlapped \cup {"unnamed"}) :
    \A a, b \in Named(n) : a = b /\ told[n] <= row[a].secret

(* An ingest workflow reads an object the agent has put, unless the agent  *)
(* gave up waiting for a call that went on, or Redis lost a link: the key  *)
(* in Redis then is not the object the agent put last.                     *)
IngestsAreStored ==
  \A i \in ingested : i \in stored \/ "link" \in disturbed[i[1]]

(* UpdateAgentStatus answers success for an upload only if it is ingested, *)
(* or Redis or Temporal failed, or another upload ended in this second.    *)
AnsweredUploadsAreIngested ==
  \A a \in Agents :
    upload[a].phase = "done" => <<a, upload[a].object>> \in ingested \/ disturbed[a] # {}

(* However late a watcher of any pod handles an old expiry event: an agent *)
(* that keeps reporting is not shown OFFLINE for ever.                     *)
OfflineDoesNotStick ==
  \A a \in Agents :
    <>[](alive[a] /\ key[a]) => <>[](a \in DOMAIN row => row[a].status # "OFFLINE")

(* An agent that stopped is not counted as active for ever, although the   *)
(* expiry events of its key may all be lost.                               *)
SilentAgentsFade ==
  <>[](\A a \in DOMAIN row : ~alive[a]) => <>[](StatusSummary.active_agents = 0)
=============================================================================
