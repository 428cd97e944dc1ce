---------------------------- MODULE AgentsProofs ----------------------------
(***************************************************************************)
(* Proofs about Agents: type correctness, what enrolment promises, and     *)
(* what an upload that is answered promises, for any number of agents,     *)
(* calls and pods.                                                         *)
(***************************************************************************)
EXTENDS Agents, TLAPS

-----------------------------------------------------------------------------
(* Type correctness.  The parts follow the tuples of variables.            *)

CompanyOK ==
  /\ deployment \in 0..MaxTokens /\ minted \in 0..MaxTokens
  /\ now \in 0..MaxSecond
  /\ secrets \in 0..MaxSecrets
  /\ told \in [Names -> 0..MaxSecrets]
  /\ overlapped \subseteq Names

AgentCalls == {"save", "status", "ingest", "link"}

CallsOK ==
  /\ DOMAIN row \subseteq Agents /\ row \in [DOMAIN row -> Row]
  /\ thread \in [Threads -> Calls]
  /\ \A t \in Threads : thread[t].op \in AgentCalls => thread[t].agent \in DOMAIN row

UploadsOK ==
  /\ latest \in [Agents -> Objects \cup {NoObject}]
  /\ open \subseteq Agents \X (0..MaxSecond)
  /\ upload \in [Agents -> Uploads]
  /\ stored \subseteq Agents \X Objects /\ ingested \subseteq Agents \X Objects
  /\ disturbed \in [Agents -> SUBSET Causes]

(* Keys, and the events of their expiry, are those of agents in the table. *)
PresenceOK ==
  /\ key \in [Agents -> BOOLEAN]
  /\ watcher \in [Pods -> Watchers]
  /\ alive \in [Agents -> BOOLEAN]
  /\ \A a \in Agents : key[a] => a \in DOMAIN row
  /\ \A p \in Pods : \A i \in 1 .. Len(watcher[p].backlog) : watcher[p].backlog[i] \in DOMAIN row
  /\ \A p \in Pods : watcher[p].phase = "marking" => watcher[p].backlog # <<>>

LEMMA TypeFromParts == CompanyOK /\ CallsOK /\ UploadsOK /\ PresenceOK => TypeOK
BY DEF TypeOK, CompanyOK, CallsOK, UploadsOK, PresenceOK, AgentCalls

Enrolments == [op : {"enrol", "insert"}, name : Names, secret : 1..MaxSecrets]
Saves == [op : {"save"}, name : Names, secret : 1..MaxSecrets, agent : Agents, seen : Statuses]
StatusCalls == [op : {"status"}, agent : Agents, seen : Statuses,
                report : Reports \cup {"UPLOAD_COMPLETE"}, key : Objects \cup {NoObject}]
IngestCalls == [op : {"ingest"}, agent : Agents, key : Objects \cup {NoObject}]
LinkCalls == [op : {"link"}, agent : Agents, object : Objects]

LEMMA CallKinds ==
  /\ Calls = {Idle} \cup Enrolments \cup Saves \cup StatusCalls \cup IngestCalls \cup LinkCalls
  /\ Idle.op = "idle"
BY DEF Calls, Idle, Enrolments, Saves, StatusCalls, IngestCalls, LinkCalls

(* What a call is tells which fields it has.                               *)
LEMMA CallFields ==
  ASSUME CallsOK, NEW t \in Threads
  PROVE  /\ thread[t].op \in {"enrol", "insert"} => thread[t] \in Enrolments
         /\ thread[t].op = "save" => thread[t] \in Saves
         /\ thread[t].op = "status" => thread[t] \in StatusCalls
         /\ thread[t].op = "ingest" => thread[t] \in IngestCalls
         /\ thread[t].op = "link" => thread[t] \in LinkCalls
BY CallKinds DEF CallsOK, Enrolments, Saves, StatusCalls, IngestCalls, LinkCalls

LEMMA CompanyKept ==
  ASSUME CompanyOK, UNCHANGED <<company, now, enrolment>> PROVE CompanyOK'
BY DEF CompanyOK, company, enrolment

LEMMA UploadsKept == ASSUME UploadsOK, UNCHANGED uploads PROVE UploadsOK'
BY DEF UploadsOK, uploads

LEMMA PresenceKept ==
  ASSUME PresenceOK, UNCHANGED presence, DOMAIN row \subseteq DOMAIN row' PROVE PresenceOK'
BY DEF PresenceOK, presence

LEMMA CallsKept == ASSUME CallsOK, UNCHANGED <<row, thread>> PROVE CallsOK'
BY DEF CallsOK

(* A call that begins, continues or ends.                                  *)
LEMMA CallMoves ==
  ASSUME CallsOK, NEW t \in Threads, NEW call \in Calls, thread' = [thread EXCEPT ![t] = call],
         call.op \in AgentCalls => call.agent \in DOMAIN row',
         DOMAIN row' \subseteq Agents, row' \in [DOMAIN row' -> Row],
         DOMAIN row \subseteq DOMAIN row'
  PROVE  /\ CallsOK'
         /\ thread'[t] = call /\ \A u \in Threads : u # t => thread'[u] = thread[u]
BY DEF CallsOK

LEMMA ObjectsTyped ==
  /\ CompanyOK => \A f \in Files : [second |-> now, file |-> f] \in Objects
  /\ NoUpload \in Uploads
  /\ CompanyOK /\ UploadsOK =>
       \A a \in Agents : /\ upload[a] \in Uploads /\ GivenUp(a) \in Uploads
                          /\ upload[a].object \in Objects \cup {NoObject}
                          /\ latest[a] \in Objects \cup {NoObject}
<1>1. CompanyOK => \A f \in Files : [second |-> now, file |-> f] \in Objects
  BY DEF CompanyOK, Objects
<1>2. NoUpload \in Uploads
  BY DEF NoUpload, Uploads
<1>3. ASSUME UploadsOK, NEW a \in Agents
      PROVE  /\ upload[a] \in Uploads /\ GivenUp(a) \in Uploads
             /\ upload[a].object \in Objects \cup {NoObject}
             /\ latest[a] \in Objects \cup {NoObject}
  <2>1. upload[a] \in Uploads /\ latest[a] \in Objects \cup {NoObject}
    BY <1>3 DEF UploadsOK
  <2>2. [upload[a] EXCEPT !.phase = "stored", !.call = "none"] \in Uploads
    BY <2>1 DEF Uploads
  <2> QED BY <1>2, <2>1, <2>2 DEF Uploads, GivenUp
<1> QED BY <1>1, <1>2, <1>3

LEMMA RowTyped ==
  ASSUME CallsOK, NEW a \in DOMAIN row
  PROVE  row[a] \in Row /\ row[a].status \in Statuses /\ a \in Agents
BY DEF CallsOK, Row

Typed == CompanyOK /\ CallsOK /\ UploadsOK /\ PresenceOK

(* Registrations and reports.                                              *)
LEMMA EnrolTyped ==
  ASSUME Typed, NEW t \in Threads,
         (\E n \in Names : Verify(t, n)) \/ FindAgent(t) \/ InsertAgent(t) \/ SaveAgent(t)
  PROVE  Typed'
<1> USE AgentsAssumption
<1>0. CompanyOK /\ CallsOK /\ UploadsOK /\ PresenceOK
  BY DEF Typed
<1>1. ASSUME NEW n \in Names, Verify(t, n) PROVE Typed'
  <2> DEFINE call == [op |-> "enrol", name |-> n, secret |-> secrets + 1]
  <2>1. call \in Enrolments /\ call.op \notin AgentCalls
    BY <1>0, <1>1 DEF Verify, Enrolments, AgentCalls, CompanyOK
  <2>2. CompanyOK'
    BY <1>0, <1>1 DEF Verify, CompanyOK, company
  <2>3. CallsOK'
    BY <1>0, <1>1, <2>1, CallMoves, CallKinds DEF Verify, Start, CallsOK
  <2> QED BY <1>0, <1>1, <2>2, <2>3, UploadsKept, PresenceKept DEF Verify, Typed
<1>2. CASE FindAgent(t)
  <2>1. thread[t] \in Enrolments
    BY <1>0, <1>2, CallFields DEF FindAgent
  <2>2. PICK call \in Calls : /\ thread' = [thread EXCEPT ![t] = call]
                              /\ call.op \in AgentCalls => call.agent \in DOMAIN row
    <3>1. CASE Continue(t, [thread[t] EXCEPT !.op = "insert"])
      <4>1. [thread[t] EXCEPT !.op = "insert"] \in Enrolments
        BY <2>1 DEF Enrolments
      <4> QED BY <3>1, <4>1, CallKinds DEF Continue, Enrolments, AgentCalls
    <3>2. CASE \E a \in Named(thread[t].name) :
               Continue(t, [op |-> "save", name |-> thread[t].name, secret |-> thread[t].secret,
                            agent |-> a, seen |-> row[a].status ])
      <4>0. PICK a \in Named(thread[t].name) :
               Continue(t, [op |-> "save", name |-> thread[t].name, secret |-> thread[t].secret,
                            agent |-> a, seen |-> row[a].status ])
        BY <3>2
      <4> DEFINE call == [op |-> "save", name |-> thread[t].name, secret |-> thread[t].secret,
                          agent |-> a, seen |-> row[a].status ]
      <4>1. call \in Saves /\ call.agent \in DOMAIN row
        BY <1>0, <2>1, RowTyped DEF Saves, Enrolments, Named
      <4> QED BY <4>0, <4>1, CallKinds DEF Continue
    <3>3. \/ Continue(t, [thread[t] EXCEPT !.op = "insert"])
          \/ \E a \in Named(thread[t].name) :
               Continue(t, [op |-> "save", name |-> thread[t].name, secret |-> thread[t].secret,
                            agent |-> a, seen |-> row[a].status ])
      BY <1>2 DEF FindAgent
    <3> QED BY <3>1, <3>2, <3>3
  <2>3. CallsOK'
    BY <1>0, <1>2, <2>2, CallMoves DEF FindAgent, CallsOK
  <2> QED BY <1>0, <1>2, <2>3, CompanyKept, UploadsKept, PresenceKept DEF FindAgent, Typed
<1>3. CASE InsertAgent(t)
  <2>1. thread[t] \in Enrolments
    BY <1>0, <1>3, CallFields DEF InsertAgent
  <2>2. /\ DOMAIN row' \subseteq Agents /\ row' \in [DOMAIN row' -> Row]
        /\ DOMAIN row \subseteq DOMAIN row'
    <3>1. PICK a \in Agents \ DOMAIN row :
            row' = [b \in DOMAIN row \cup {a} |->
                     IF b = a THEN [ name |-> thread[t].name, secret |-> thread[t].secret,
                                     status |-> "IDLE", recent |-> TRUE ]
                     ELSE row[b]]
      BY <1>3 DEF InsertAgent
    <3>2. [ name |-> thread[t].name, secret |-> thread[t].secret,
            status |-> "IDLE", recent |-> TRUE ] \in Row
      BY <2>1 DEF Enrolments, Row, Statuses
    <3> QED BY <1>0, <3>1, <3>2 DEF CallsOK
  <2>3. CallsOK'
    BY <1>0, <1>3, <2>2, CallMoves, CallKinds DEF InsertAgent, End, AgentCalls
  <2>4. CompanyOK'
    BY <1>0, <1>3, <2>1 DEF InsertAgent, Tell, CompanyOK, company, Enrolments
  <2> QED BY <1>0, <1>3, <2>2, <2>3, <2>4, UploadsKept, PresenceKept DEF InsertAgent, Typed
<1>4. CASE SaveAgent(t)
  <2>1. thread[t] \in Saves /\ thread[t].agent \in DOMAIN row
    BY <1>0, <1>4, CallFields DEF SaveAgent, CallsOK, AgentCalls
  <2>2. /\ DOMAIN row' \subseteq Agents /\ row' \in [DOMAIN row' -> Row]
        /\ DOMAIN row \subseteq DOMAIN row'
    <3>1. Flushed("IDLE", thread[t].seen, row[thread[t].agent].status) \in Statuses
      BY <1>0, <2>1, RowTyped DEF Flushed, Statuses
    <3>2. [ name |-> thread[t].name, secret |-> thread[t].secret,
            status |-> Flushed("IDLE", thread[t].seen, row[thread[t].agent].status),
            recent |-> TRUE ] \in Row
      BY <2>1, <3>1 DEF Saves, Row
    <3> QED BY <1>0, <1>4, <2>1, <3>2 DEF SaveAgent, CallsOK
  <2>3. CallsOK'
    BY <1>0, <1>4, <2>2, CallMoves, CallKinds DEF SaveAgent, End, AgentCalls
  <2>4. CompanyOK'
    BY <1>0, <1>4, <2>1 DEF SaveAgent, Tell, CompanyOK, company, Saves
  <2> QED BY <1>0, <1>4, <2>2, <2>3, <2>4, UploadsKept, PresenceKept DEF SaveAgent, Typed
<1> QED BY <1>1, <1>2, <1>3, <1>4

LEMMA StatusTyped ==
  ASSUME Typed, NEW t \in Threads,
         \/ \E a \in Agents, report \in Reports : Report(t, a, report)
         \/ \E a \in Agents, key_ \in Objects \cup {NoObject} : ReportUpload(t, a, key_)
         \/ StoreStatus(t)
  PROVE  Typed'
<1>0. CompanyOK /\ CallsOK /\ UploadsOK /\ PresenceOK
  BY DEF Typed
<1>1. ASSUME NEW a \in Agents, NEW report \in Reports, Report(t, a, report) PROVE Typed'
  <2> DEFINE call == [ op |-> "status", agent |-> a, seen |-> row[a].status,
                       report |-> report, key |-> NoObject ]
  <2>1. call \in StatusCalls /\ call.agent \in DOMAIN row
    BY <1>0, <1>1, RowTyped DEF Report, StatusCalls
  <2>2. CallsOK'
    BY <1>0, <1>1, <2>1, CallMoves, CallKinds DEF Report, Start, CallsOK
  <2> QED BY <1>0, <1>1, <2>2, CompanyKept, UploadsKept, PresenceKept DEF Report, Typed
<1>2. ASSUME NEW a \in Agents, NEW key_ \in Objects \cup {NoObject}, ReportUpload(t, a, key_)
      PROVE  Typed'
  <2> DEFINE call == [ op |-> "status", agent |-> a, seen |-> row[a].status,
                       report |-> "UPLOAD_COMPLETE", key |-> key_ ]
  <2>1. call \in StatusCalls /\ call.agent \in DOMAIN row
    BY <1>0, <1>2, RowTyped DEF ReportUpload, StatusCalls
  <2>2. CallsOK'
    BY <1>0, <1>2, <2>1, CallMoves, CallKinds DEF ReportUpload, Start, CallsOK
  <2>3. [upload[a] EXCEPT !.phase = "completing", !.call = t] \in Uploads
    BY <1>0, ObjectsTyped DEF Uploads
  <2>4. UploadsOK'
    BY <1>0, <1>2, <2>3 DEF ReportUpload, Waits, UploadsOK
  <2> QED BY <1>0, <1>2, <2>2, <2>4, CompanyKept, PresenceKept DEF ReportUpload, Typed
<1>3. CASE StoreStatus(t)
  <2>1. thread[t] \in StatusCalls /\ thread[t].agent \in DOMAIN row
    BY <1>0, <1>3, CallFields DEF StoreStatus, CallsOK, AgentCalls
  <2>2. /\ DOMAIN row' \subseteq Agents /\ row' \in [DOMAIN row' -> Row]
        /\ DOMAIN row \subseteq DOMAIN row'
    <3> DEFINE a == thread[t].agent
               s == Flushed(StatusToSave(thread[t].report), thread[t].seen, row[a].status)
    <3>1. s \in Statuses
      BY <1>0, <2>1, RowTyped DEF Flushed, StatusToSave, Statuses, StatusCalls
    <3>2. row' = [row EXCEPT ![a] = [row[a] EXCEPT !.status = s, !.recent = TRUE]]
      BY <1>3 DEF StoreStatus
    <3> HIDE DEF s
    <3>3. [row[a] EXCEPT !.status = s, !.recent = TRUE] \in Row
      BY <1>0, <2>1, <3>1, RowTyped DEF Row
    <3> QED BY <1>0, <2>1, <3>2, <3>3 DEF CallsOK
  <2>3. PICK call \in Calls : /\ thread' = [thread EXCEPT ![t] = call]
                              /\ call.op \in AgentCalls => call.agent \in DOMAIN row
    <3>1. [op |-> "ingest", agent |-> thread[t].agent, key |-> thread[t].key] \in IngestCalls
      BY <2>1 DEF StatusCalls, IngestCalls
    <3> QED BY <1>3, <2>1, <3>1, CallKinds DEF StoreStatus, Continue, End, AgentCalls
  <2>4. CallsOK'
    BY <1>0, <2>2, <2>3, CallMoves
  <2> QED BY <1>0, <1>3, <2>2, <2>4, CompanyKept, UploadsKept, PresenceKept DEF StoreStatus, Typed
<1> QED BY <1>1, <1>2, <1>3

LEMMA IngestTyped ==
  ASSUME Typed, NEW t \in Threads, StartIngest(t) \/ SkipIngest(t)
  PROVE  Typed'
<1>0. CompanyOK /\ CallsOK /\ UploadsOK /\ PresenceOK
  BY DEF Typed
<1> DEFINE a == thread[t].agent
<1>1. thread[t] \in IngestCalls /\ a \in Agents
  BY <1>0, CallFields DEF StartIngest, SkipIngest, CallsOK, AgentCalls, IngestCalls
<1>2. CallsOK'
  BY <1>0, CallMoves, CallKinds DEF StartIngest, SkipIngest, End, AgentCalls, CallsOK
<1>3. upload' \in [Agents -> Uploads]
  <2>1. [upload[a] EXCEPT !.phase = "done", !.call = "none"] \in Uploads
    BY <1>0, <1>1, ObjectsTyped DEF Uploads
  <2> QED BY <1>0, <2>1 DEF StartIngest, SkipIngest, Completed, Answered, UploadsOK
<1>4. UploadsOK'
  <2>1. CASE StartIngest(t)
    <3>1. Ingestible(thread[t]) \in Objects
      BY <1>0, <1>1, <2>1, ObjectsTyped DEF StartIngest, Ingestible, IngestCalls
    <3> QED BY <1>0, <1>1, <1>3, <2>1, <3>1 DEF StartIngest, UploadsOK, CompanyOK
  <2>2. CASE SkipIngest(t)
    <3>1. disturbed' \in [Agents -> SUBSET Causes]
      BY <1>0, <2>2 DEF SkipIngest, Disturb, UploadsOK, Causes
    <3> QED BY <1>0, <1>3, <2>2, <3>1 DEF SkipIngest, UploadsOK
  <2> QED BY <2>1, <2>2
<1> QED BY <1>0, <1>2, <1>4, CompanyKept, PresenceKept DEF StartIngest, SkipIngest, Typed

LEMMA LinkTyped ==
  ASSUME Typed, NEW t \in Threads,
         (\E a \in Agents, file \in Files : GetUploadLink(t, a, file)) \/ StoreLink(t) \/ Fails(t)
  PROVE  Typed'
<1>0. CompanyOK /\ CallsOK /\ UploadsOK /\ PresenceOK
  BY DEF Typed
<1>1. ASSUME NEW a \in Agents, NEW file \in Files, GetUploadLink(t, a, file) PROVE Typed'
  <2> DEFINE call == [op |-> "link", agent |-> a, object |-> [second |-> now, file |-> file]]
  <2>1. call \in LinkCalls /\ call.agent \in DOMAIN row
    BY <1>0, <1>1, ObjectsTyped DEF GetUploadLink, LinkCalls
  <2>2. CallsOK'
    BY <1>0, <1>1, <2>1, CallMoves, CallKinds DEF GetUploadLink, Start, CallsOK
  <2>3. [upload[a] EXCEPT !.phase = "asking", !.call = t] \in Uploads
    BY <1>0, ObjectsTyped DEF Uploads
  <2>4. UploadsOK'
    BY <1>0, <1>1, <2>3 DEF GetUploadLink, Waits, UploadsOK
  <2> QED BY <1>0, <1>1, <2>2, <2>4, CompanyKept, PresenceKept DEF GetUploadLink, Typed
<1>2. CASE StoreLink(t)
  <2> DEFINE a == thread[t].agent
  <2>1. thread[t] \in LinkCalls /\ a \in Agents
    BY <1>0, <1>2, CallFields DEF StoreLink, CallsOK, AgentCalls, LinkCalls
  <2>2. CallsOK'
    BY <1>0, <1>2, CallMoves, CallKinds DEF StoreLink, End, AgentCalls, CallsOK
  <2>3. upload' \in [Agents -> Uploads]
    <3>1. [phase |-> "linked", object |-> thread[t].object, call |-> "none"] \in Uploads
      BY <2>1 DEF LinkCalls, Uploads
    <3> QED BY <1>0, <1>2, <3>1 DEF StoreLink, Answered, UploadsOK
  <2>4. latest' \in [Agents -> Objects \cup {NoObject}] /\ disturbed' \in [Agents -> SUBSET Causes]
    BY <1>0, <1>2, <2>1 DEF StoreLink, Disturb, UploadsOK, LinkCalls, Causes
  <2> QED BY <1>0, <1>2, <2>2, <2>3, <2>4, CompanyKept, PresenceKept DEF StoreLink, Typed, UploadsOK
<1>3. CASE Fails(t)
  <2>1. CallsOK'
    BY <1>0, <1>3, CallMoves, CallKinds DEF Fails, End, AgentCalls, CallsOK
  <2>2. UploadsOK'
    BY <1>0, <1>3, ObjectsTyped DEF Fails, UploadsOK
  <2> QED BY <1>0, <1>3, <2>1, <2>2, CompanyKept, PresenceKept DEF Fails, Typed
<1> QED BY <1>1, <1>2, <1>3

LEMMA WatchTyped ==
  ASSUME Typed, NEW p \in Pods, Watch(p)
  PROVE  Typed'
<1> USE AgentsAssumption
<1>0. CompanyOK /\ CallsOK /\ UploadsOK /\ PresenceOK
  BY DEF Typed
<1> DEFINE w == watcher[p]
<1>w. /\ w \in Watchers /\ w.depth \in 0..MaxDepth /\ w.backlog \in Seq(Agents)
      /\ \A i \in 1 .. Len(w.backlog) : w.backlog[i] \in DOMAIN row
  BY <1>0 DEF PresenceOK, Watchers
<1>1. ASSUME NEW new \in Watchers, watcher' = [watcher EXCEPT ![p] = new],
             \A i \in 1 .. Len(new.backlog) : new.backlog[i] \in DOMAIN row,
             new.phase = "marking" => new.backlog # <<>>,
             DOMAIN row' = DOMAIN row, UNCHANGED <<key, alive>>
      PROVE  PresenceOK'
  BY <1>0, <1>1 DEF PresenceOK
<1>2. ASSUME NEW depth \in 0..MaxDepth
      PROVE  /\ Starting(depth) \in Watchers
             /\ [Starting(depth) EXCEPT !.phase = "sleeping"] \in Watchers
             /\ Starting(depth).backlog = <<>> /\ Starting(depth).phase # "marking"
             /\ [Starting(depth) EXCEPT !.phase = "sleeping"].backlog = <<>>
             /\ [Starting(depth) EXCEPT !.phase = "sleeping"].phase # "marking"
  <2>1. /\ Starting(depth) \in Watchers /\ Starting(depth).backlog = <<>>
        /\ Starting(depth).phase = "down"
    <3>1. <<>> \in Seq(Agents)
      OBVIOUS
    <3> QED BY <3>1 DEF Starting, Watchers, Statuses
  <2> QED BY <2>1 DEF Watchers
<1>3. \A i \in 1 .. Len(<<>>) : <<>>[i] \in DOMAIN row
  OBVIOUS
<1>4. ASSUME w.phase = "marking"
      PROVE  /\ Head(w.backlog) \in DOMAIN row
             /\ [phase |-> "listening", depth |-> w.depth, backlog |-> Tail(w.backlog),
                 seen |-> "IDLE"] \in Watchers
             /\ \A i \in 1 .. Len(Tail(w.backlog)) : Tail(w.backlog)[i] \in DOMAIN row
  <2>1. w.backlog # <<>>
    BY <1>0, <1>4 DEF PresenceOK
  <2>2. Tail(w.backlog) \in Seq(Agents)
    BY <1>w, <2>1
  <2>3. /\ Len(w.backlog) \in Nat \ {0} /\ Len(Tail(w.backlog)) = Len(w.backlog) - 1
        /\ Head(w.backlog) = w.backlog[1]
        /\ \A i \in 1 .. Len(w.backlog) - 1 : Tail(w.backlog)[i] = w.backlog[i + 1]
    BY <1>w, <2>1
  <2> QED BY <1>w, <2>2, <2>3 DEF Watchers, Statuses
<1>5. ASSUME Handled(p), w.phase = "marking", DOMAIN row' = DOMAIN row, UNCHANGED <<key, alive>>
      PROVE  PresenceOK'
  BY <1>1, <1>4, <1>5 DEF Handled
<1>6. CASE Subscribe(p)
  <2>1. [w EXCEPT !.phase = "listening"] \in Watchers
    BY <1>w DEF Watchers
  <2>2. /\ [w EXCEPT !.phase = "listening"].backlog = w.backlog
        /\ [w EXCEPT !.phase = "listening"].phase # "marking"
    BY <1>w DEF Watchers
  <2>3. PresenceOK'
    BY <1>1, <1>6, <1>w, <2>1, <2>2 DEF Subscribe
  <2> QED BY <1>0, <1>6, <2>3, CompanyKept, CallsKept, UploadsKept DEF Subscribe, Typed
<1>7. CASE ReadExpired(p)
  <2> DEFINE new == [w EXCEPT !.phase = "marking", !.seen = row[Head(w.backlog)].status]
  <2>1. Head(w.backlog) \in DOMAIN row
    <3>1. Head(w.backlog) = w.backlog[1] /\ 1 \in 1 .. Len(w.backlog)
      BY <1>w, <1>7 DEF ReadExpired
    <3> QED BY <1>w, <3>1
  <2>2. new \in Watchers /\ new.backlog = w.backlog
    BY <1>0, <1>w, <2>1, RowTyped DEF Watchers
  <2>3. PresenceOK'
    <3> HIDE DEF new
    <3>1. watcher' = [watcher EXCEPT ![p] = new]
      BY <1>7 DEF ReadExpired, new
    <3> QED BY <1>1, <1>7, <1>w, <2>2, <3>1 DEF ReadExpired
  <2> QED BY <1>0, <1>7, <2>3, CompanyKept, CallsKept, UploadsKept DEF ReadExpired, Typed
<1>8. CASE MarkOffline(p)
  <2> DEFINE a == Head(w.backlog)
             s == Flushed("OFFLINE", w.seen, row[a].status)
  <2>1. a \in DOMAIN row
    BY <1>4, <1>8 DEF MarkOffline
  <2>2. s \in Statuses
    BY <1>0, <1>w, <2>1, RowTyped DEF Flushed, Statuses
  <2>3. row' = [row EXCEPT ![a] = [row[a] EXCEPT !.status = s]]
    BY <1>8 DEF MarkOffline
  <2> HIDE DEF s
  <2>4. [row[a] EXCEPT !.status = s] \in Row
    BY <1>0, <2>1, <2>2, RowTyped DEF Row
  <2>5. CallsOK' /\ DOMAIN row' = DOMAIN row
    BY <1>0, <1>8, <2>1, <2>3, <2>4 DEF MarkOffline, CallsOK
  <2>6. PresenceOK'
    BY <1>5, <1>8, <2>5 DEF MarkOffline
  <2> QED BY <1>0, <1>8, <2>5, <2>6, CompanyKept, UploadsKept DEF MarkOffline, Typed
<1>9. CASE MarkFails(p)
  BY <1>0, <1>5, <1>9, CompanyKept, CallsKept, UploadsKept DEF MarkFails, Typed
<1>10. CASE ListenFails(p) \/ Wake(p) \/ PodRestarts(p)
  <2>1. PICK depth \in 0..MaxDepth :
          \/ watcher' = [watcher EXCEPT ![p] = Starting(depth)]
          \/ watcher' = [watcher EXCEPT ![p] = [Starting(depth) EXCEPT !.phase = "sleeping"]]
    BY <1>w, <1>10 DEF ListenFails, Wake, PodRestarts
  <2>2. PresenceOK'
    BY <1>1, <1>2, <1>3, <1>10, <2>1 DEF ListenFails, Wake, PodRestarts
  <2> QED BY <1>0, <1>10, <2>2, CompanyKept, CallsKept, UploadsKept
        DEF ListenFails, Wake, PodRestarts, Typed
<1> QED BY <1>6, <1>7, <1>8, <1>9, <1>10 DEF Watch

(* An upload for which a link was answered has an object.                  *)
HasObjects ==
  \A a \in Agents : upload[a].phase \notin {"none", "asking"} => upload[a].object \in Objects

LEMMA SurroundingsTyped ==
  ASSUME Typed, HasObjects, NEW a \in Agents, Surroundings(a)
  PROVE  Typed'
<1>0. CompanyOK /\ CallsOK /\ UploadsOK /\ PresenceOK
  BY DEF Typed
<1>1. CASE PutObject(a)
  <2>1. upload[a].object \in Objects /\ [upload[a] EXCEPT !.phase = "stored"] \in Uploads
    BY <1>0, <1>1, ObjectsTyped DEF PutObject, HasObjects, Uploads
  <2>2. UploadsOK'
    BY <1>0, <1>1, <2>1 DEF PutObject, UploadsOK
  <2> QED BY <1>0, <1>1, <2>2, CompanyKept, CallsKept, PresenceKept DEF PutObject, Typed
<1>2. CASE GiveUp(a)
  <2>1. UploadsOK'
    BY <1>0, <1>2, ObjectsTyped DEF GiveUp, Disturb, UploadsOK, Causes
  <2> QED BY <1>0, <1>2, <2>1, CompanyKept, CallsKept, PresenceKept DEF GiveUp, Typed
<1>3. CASE LinkExpires(a)
  <2>1. UploadsOK'
    BY <1>0, <1>3 DEF LinkExpires, Disturb, UploadsOK, Causes
  <2> QED BY <1>0, <1>3, <2>1, CompanyKept, CallsKept, PresenceKept DEF LinkExpires, Typed
<1>4. ASSUME NEW second \in 0..MaxSecond, IngestEnds(a, second) PROVE Typed'
  <2>1. UploadsOK'
    BY <1>0, <1>4 DEF IngestEnds, UploadsOK
  <2> QED BY <1>0, <1>4, <2>1, CompanyKept, CallsKept, PresenceKept DEF IngestEnds, Typed
<1>5. CASE RefreshKey(a)
  <2>1. PresenceOK'
    BY <1>0, <1>5 DEF RefreshKey, PresenceOK
  <2> QED BY <1>0, <1>5, <2>1, CompanyKept, CallsKept, UploadsKept DEF RefreshKey, Typed
<1>6. CASE KeyExpires(a)
  <2>1. ASSUME NEW p \in Pods
        PROVE  /\ watcher'[p] \in Watchers
               /\ \A i \in 1 .. Len(watcher'[p].backlog) : watcher'[p].backlog[i] \in DOMAIN row
               /\ watcher'[p].phase = "marking" => watcher'[p].backlog # <<>>
    <3>1. /\ watcher[p] \in Watchers /\ watcher[p].backlog \in Seq(Agents) /\ a \in DOMAIN row
          /\ \A i \in 1 .. Len(watcher[p].backlog) : watcher[p].backlog[i] \in DOMAIN row
          /\ watcher[p].phase = "marking" => watcher[p].backlog # <<>>
      BY <1>0, <1>6 DEF KeyExpires, PresenceOK, Watchers
    <3>2. CASE Watching(p)
      <4> DEFINE b == watcher[p].backlog
      <4>1. watcher'[p] = [watcher[p] EXCEPT !.backlog = Append(b, a)]
        BY <1>6, <3>2 DEF KeyExpires
      <4>2. /\ Append(b, a) \in Seq(Agents) /\ Append(b, a) # <<>>
            /\ Len(Append(b, a)) = Len(b) + 1 /\ Len(b) \in Nat
            /\ \A i \in 1 .. Len(b) : Append(b, a)[i] = b[i]
            /\ Append(b, a)[Len(b) + 1] = a
        BY <3>1
      <4>3. watcher'[p] \in Watchers /\ watcher'[p].backlog = Append(b, a)
        BY <3>1, <4>1, <4>2 DEF Watchers
      <4> HIDE DEF b
      <4>4. \A i \in 1 .. Len(b) + 1 : Append(b, a)[i] \in DOMAIN row
        BY <3>1, <4>2 DEF b
      <4> QED BY <4>2, <4>3, <4>4
    <3>3. CASE ~Watching(p)
      BY <1>6, <3>1, <3>3 DEF KeyExpires
    <3> QED BY <3>2, <3>3
  <2>2. PresenceOK'
    BY <1>0, <1>6, <2>1 DEF KeyExpires, PresenceOK
  <2> QED BY <1>0, <1>6, <2>2, CompanyKept, CallsKept, UploadsKept DEF KeyExpires, Typed
<1>7. CASE AgesOut(a)
  <2>1. [row[a] EXCEPT !.recent = FALSE] \in Row
    BY <1>0, <1>7, RowTyped DEF AgesOut, Row
  <2>2. row' = [row EXCEPT ![a] = [row[a] EXCEPT !.recent = FALSE]]
    BY <1>7 DEF AgesOut
  <2>3. CallsOK' /\ DOMAIN row' = DOMAIN row
    BY <1>0, <1>7, <2>1, <2>2 DEF AgesOut, CallsOK
  <2> QED BY <1>0, <1>7, <2>3, CompanyKept, UploadsKept, PresenceKept DEF AgesOut, Typed
<1>8. CASE Switches(a)
  <2>1. PresenceOK'
    BY <1>0, <1>8 DEF Switches, PresenceOK
  <2> QED BY <1>0, <1>8, <2>1, CompanyKept, CallsKept, UploadsKept DEF Switches, Typed
<1> QED BY <1>1, <1>2, <1>3, <1>4, <1>5, <1>6, <1>7, <1>8 DEF Surroundings

-----------------------------------------------------------------------------
(* Uploads.  An agent waits for one call of its own; as long as it has not *)
(* given up waiting and Redis has not lost a link, nobody else works for   *)
(* it, and the link in Redis is that of the object it uploads.             *)

LinkCall(t, a) == thread[t].op = "link" /\ thread[t].agent = a
UploadCall(t, a) ==
  /\ thread[t].op = "ingest" \/ (thread[t].op = "status" /\ thread[t].report = "UPLOAD_COMPLETE")
  /\ thread[t].agent = a

Waiting(a) ==
  LET u == upload[a] IN
  \/ u.call = "none" /\ u.phase \notin {"asking", "completing"}
  \/ u.call \in Threads /\ u.phase = "asking" /\ LinkCall(u.call, a)
  \/ /\ u.call \in Threads /\ u.phase = "completing" /\ UploadCall(u.call, a)
     /\ thread[u.call].key \in {NoObject, u.object}

Undisturbed(a) ==
  "link" \notin disturbed[a] =>
    /\ \A t \in Threads : LinkCall(t, a) \/ UploadCall(t, a) => upload[a].call = t
    /\ upload[a].phase \in {"linked", "stored", "completing"} => latest[a] = upload[a].object

UploadInv(a) ==
  /\ Waiting(a) /\ Undisturbed(a)
  /\ upload[a].phase \notin {"none", "asking"} => upload[a].object \in Objects
  /\ upload[a].phase \in {"stored", "completing", "done"} => <<a, upload[a].object>> \in stored
  /\ upload[a].phase = "done" => <<a, upload[a].object>> \in ingested \/ disturbed[a] # {}

KeyInv(t) ==
  thread[t].op \in {"status", "ingest"} /\ thread[t].key # NoObject =>
    <<thread[t].agent, thread[t].key>> \in stored

UInv ==
  /\ \A a \in Agents : UploadInv(a)
  /\ \A t \in Threads : KeyInv(t)
  /\ IngestsAreStored

LEMMA UploadFields ==
  ASSUME Typed, NEW a \in Agents
  PROVE  /\ upload[a] \in Uploads
         /\ \A phase, call : /\ [upload[a] EXCEPT !.phase = phase, !.call = call].phase = phase
                             /\ [upload[a] EXCEPT !.phase = phase, !.call = call].call = call
                             /\ [upload[a] EXCEPT !.phase = phase, !.call = call].object = upload[a].object
BY ObjectsTyped DEF Typed, Uploads

LEMMA NoObjectIsNone == NoObject \notin Objects
BY DEF NoObject, Objects

(* The call t moves, and stays what it was for the agents.                 *)
LEMMA ThreadFrame ==
  ASSUME UInv, NEW t \in Threads, UNCHANGED <<latest, upload, stored, ingested, disturbed>>,
         \A u \in Threads : u # t => thread'[u] = thread[u],
         \A a \in Agents : /\ LinkCall(t, a)' <=> LinkCall(t, a)
                           /\ UploadCall(t, a)' <=> UploadCall(t, a)
                           /\ UploadCall(t, a) => thread'[t].key = thread[t].key,
         KeyInv(t)'
  PROVE  UInv'
<1>1. ASSUME NEW a \in Agents, NEW u \in Threads
      PROVE  /\ LinkCall(u, a)' <=> LinkCall(u, a)
             /\ UploadCall(u, a)' <=> UploadCall(u, a)
             /\ UploadCall(u, a) => thread'[u].key = thread[u].key
  <2>1. CASE u = t
    BY <2>1
  <2>2. CASE u # t
    BY <2>2 DEF LinkCall, UploadCall
  <2> QED BY <2>1, <2>2
<1>2. ASSUME NEW a \in Agents PROVE UploadInv(a)'
  <2>1. UploadInv(a)
    BY DEF UInv
  <2>2. PICK u : u = upload[a]
    OBVIOUS
  <2>3. Waiting(a)'
    BY <1>1, <2>1, <2>2 DEF UploadInv, Waiting
  <2>4. Undisturbed(a)'
    BY <1>1, <2>1 DEF UploadInv, Undisturbed
  <2> QED BY <2>1, <2>3, <2>4 DEF UploadInv
<1>3. ASSUME NEW u \in Threads PROVE KeyInv(u)'
  <2>1. CASE u = t
    BY <2>1
  <2>2. CASE u # t
    BY <2>2 DEF UInv, KeyInv
  <2> QED BY <2>1, <2>2
<1>4. IngestsAreStored'
  BY DEF UInv, IngestsAreStored
<1> QED BY <1>2, <1>3, <1>4 DEF UInv

LEMMA NoCalls ==
  ASSUME NEW t \in Threads, thread[t].op \notin {"link", "ingest", "status"}
  PROVE  \A a : ~LinkCall(t, a) /\ ~UploadCall(t, a)
BY DEF LinkCall, UploadCall

LEMMA EnrolUploads ==
  ASSUME Typed, UInv, NEW t \in Threads,
         \/ (\E n \in Names : Verify(t, n)) \/ FindAgent(t) \/ InsertAgent(t) \/ SaveAgent(t)
         \/ \E a \in Agents, report \in Reports : Report(t, a, report)
         \/ StoreStatus(t)
  PROVE  UInv'
<1> USE AgentsAssumption
<1>0. DOMAIN thread = Threads /\ CallsOK
  BY DEF Typed, CallsOK
<1>1. ASSUME NEW call, thread' = [thread EXCEPT ![t] = call], call.op \notin {"link", "ingest", "status"},
             thread[t].op \notin {"link", "ingest", "status"}, UNCHANGED uploads
      PROVE  UInv'
  <2>1. thread'[t] = call /\ \A u \in Threads : u # t => thread'[u] = thread[u]
    BY <1>0, <1>1
  <2>2. \A a : ~LinkCall(t, a)' /\ ~UploadCall(t, a)'
    BY <1>1, <2>1 DEF LinkCall, UploadCall
  <2>3. KeyInv(t)'
    BY <1>1, <2>1 DEF KeyInv
  <2> QED BY <1>1, <2>1, <2>2, <2>3, NoCalls, ThreadFrame DEF uploads
<1>2. ASSUME NEW n \in Names, Verify(t, n) PROVE UInv'
  BY <1>1, <1>2, CallKinds DEF Verify, Start
<1>3. CASE FindAgent(t)
  <2>1. thread[t] \in Enrolments
    BY <1>0, <1>3, CallFields DEF FindAgent
  <2>2. [thread[t] EXCEPT !.op = "insert"].op = "insert"
    BY <2>1 DEF Enrolments
  <2> QED BY <1>1, <1>3, <2>1, <2>2 DEF FindAgent, Continue, Enrolments
<1>4. CASE InsertAgent(t)
  BY <1>1, <1>4, CallKinds DEF InsertAgent, End
<1>5. CASE SaveAgent(t)
  BY <1>1, <1>5, CallKinds DEF SaveAgent, End
<1>6. ASSUME NEW a \in Agents, NEW report \in Reports, Report(t, a, report) PROVE UInv'
  <2>1. /\ thread'[t] = [ op |-> "status", agent |-> a, seen |-> row[a].status,
                          report |-> report, key |-> NoObject ]
        /\ \A u \in Threads : u # t => thread'[u] = thread[u]
        /\ thread[t] = Idle
    BY <1>0, <1>6 DEF Report, Start
  <2>2. report # "UPLOAD_COMPLETE"
    OBVIOUS
  <2>3. \A b : ~LinkCall(t, b)' /\ ~UploadCall(t, b)'
    BY <2>1, <2>2 DEF LinkCall, UploadCall
  <2>4. \A b : ~LinkCall(t, b) /\ ~UploadCall(t, b)
    BY <2>1, CallKinds, NoCalls
  <2>5. KeyInv(t)'
    BY <2>1 DEF KeyInv
  <2> QED BY <1>6, <2>1, <2>3, <2>4, <2>5, ThreadFrame DEF Report, uploads
<1>7. CASE StoreStatus(t)
  <2>1. thread[t] \in StatusCalls /\ \A u \in Threads : u # t => thread'[u] = thread[u]
    BY <1>0, <1>7, CallFields DEF StoreStatus, Continue, End
  <2>2. CASE thread[t].report = "UPLOAD_COMPLETE"
    <3>1. thread'[t] = [op |-> "ingest", agent |-> thread[t].agent, key |-> thread[t].key]
      BY <1>0, <1>7, <2>2 DEF StoreStatus, Continue
    <3>2. \A b : /\ ~LinkCall(t, b)' /\ ~LinkCall(t, b)
                 /\ UploadCall(t, b)' <=> UploadCall(t, b)
      BY <2>1, <2>2, <3>1 DEF LinkCall, UploadCall, StatusCalls
    <3>3. KeyInv(t)'
      BY <1>7, <2>1, <3>1 DEF KeyInv, UInv, StatusCalls, StoreStatus, uploads
    <3> QED BY <1>7, <2>1, <3>1, <3>2, <3>3, ThreadFrame DEF StoreStatus, uploads
  <2>3. CASE thread[t].report # "UPLOAD_COMPLETE"
    <3>1. thread'[t] = Idle
      BY <1>0, <1>7, <2>3 DEF StoreStatus, End
    <3>2. \A b : ~LinkCall(t, b)' /\ ~LinkCall(t, b) /\ ~UploadCall(t, b)' /\ ~UploadCall(t, b)
      BY <2>1, <2>3, <3>1, CallKinds DEF LinkCall, UploadCall, StatusCalls
    <3>3. KeyInv(t)'
      BY <3>1, CallKinds DEF KeyInv
    <3> QED BY <1>7, <2>1, <3>1, <3>2, <3>3, ThreadFrame DEF StoreStatus, uploads
  <2> QED BY <2>2, <2>3
<1> QED BY <1>2, <1>3, <1>4, <1>5, <1>6, <1>7

(* What call u is for agent b does not change.                             *)
Same(u, b) ==
  /\ LinkCall(u, b)' <=> LinkCall(u, b)
  /\ UploadCall(u, b)' <=> UploadCall(u, b)
  /\ UploadCall(u, b) => thread'[u].key = thread[u].key

LEMMA Unmoved ==
  ASSUME NEW u, thread'[u] = thread[u] PROVE \A b : Same(u, b)
BY DEF Same, LinkCall, UploadCall

LEMMA SameButOne ==
  ASSUME NEW t \in Threads, NEW b, \A u \in Threads : u # t => thread'[u] = thread[u],
         ~LinkCall(t, b), ~UploadCall(t, b), ~LinkCall(t, b)', ~UploadCall(t, b)'
  PROVE  \A u \in Threads : Same(u, b)
<1>1. ASSUME NEW u \in Threads PROVE Same(u, b)
  <2>1. CASE u = t
    BY <2>1 DEF Same
  <2>2. CASE u # t
    BY <2>2, Unmoved
  <2> QED BY <2>1, <2>2
<1> QED BY <1>1

(* What an agent b that is not concerned keeps.                            *)
LEMMA OtherAgents ==
  ASSUME UInv, NEW b \in Agents,
         upload'[b] = upload[b], latest'[b] = latest[b], disturbed'[b] = disturbed[b],
         stored \subseteq stored', ingested \subseteq ingested',
         \A u \in Threads : Same(u, b)
  PROVE  UploadInv(b)'
<1>1. UploadInv(b)
  BY DEF UInv
<1>2. PICK u : u = upload[b]
  OBVIOUS
<1>3. Waiting(b)'
  BY <1>1, <1>2 DEF UploadInv, Waiting, Same
<1>4. Undisturbed(b)'
  BY <1>1 DEF UploadInv, Undisturbed, Same
<1> QED BY <1>1, <1>3, <1>4 DEF UploadInv

LEMMA AskUploads ==
  ASSUME Typed, UInv, NEW t \in Threads, NEW a \in Agents,
         \/ \E key_ \in Objects \cup {NoObject} : ReportUpload(t, a, key_)
         \/ \E file \in Files : GetUploadLink(t, a, file)
  PROVE  UInv'
<1> USE AgentsAssumption
<1>0. /\ DOMAIN thread = Threads /\ CallsOK /\ upload \in [Agents -> Uploads]
      /\ upload[a] \in Uploads /\ UploadInv(a)
  BY DEF Typed, CallsOK, UploadsOK, UInv
<1>1. /\ upload[a].phase \in {"stored", "none", "done"} /\ thread[t] = Idle
      /\ \A u \in Threads : u # t => thread'[u] = thread[u]
      /\ UNCHANGED <<latest, stored, ingested, disturbed>>
      /\ \A b \in Agents : b # a => upload'[b] = upload[b]
  BY <1>0 DEF ReportUpload, GetUploadLink, Start, Waits
<1>2. upload[a].call = "none"
  BY <1>0, <1>1 DEF UploadInv, Waiting
<1>3. \A b : ~LinkCall(t, b) /\ ~UploadCall(t, b)
  BY <1>1, CallKinds, NoCalls
<1>4. \A u \in Threads : "link" \notin disturbed[a] => ~LinkCall(u, a) /\ ~UploadCall(u, a)
  BY <1>0, <1>2 DEF UploadInv, Undisturbed
<1>5. \A u \in Threads : u # t => Same(u, a)
  BY <1>1, Unmoved
<1>b. ASSUME NEW b \in Agents, b # a, ~LinkCall(t, b)', ~UploadCall(t, b)'
      PROVE  UploadInv(b)'
  <2>1. \A u \in Threads : Same(u, b)
    BY <1>1, <1>3, <1>b, SameButOne
  <2> QED BY <1>1, <1>b, <2>1, OtherAgents
<1>6. ASSUME NEW key_ \in Objects \cup {NoObject}, ReportUpload(t, a, key_) PROVE UInv'
  <2>1. /\ thread'[t] = [ op |-> "status", agent |-> a, seen |-> row[a].status,
                          report |-> "UPLOAD_COMPLETE", key |-> key_ ]
        /\ upload'[a] = [upload[a] EXCEPT !.phase = "completing", !.call = t]
        /\ upload[a].phase = "stored" /\ key_ \in {NoObject, upload[a].object}
    BY <1>0, <1>6 DEF ReportUpload, Start, Waits
  <2>2. /\ upload'[a].phase = "completing" /\ upload'[a].call = t
        /\ upload'[a].object = upload[a].object
    BY <2>1, UploadFields
  <2>3. UploadCall(t, a)' /\ ~LinkCall(t, a)' /\ thread'[t].key = key_
        /\ \A b : b # a => ~LinkCall(t, b)' /\ ~UploadCall(t, b)'
    BY <2>1 DEF UploadCall, LinkCall
  <2>4. Waiting(a)'
    BY <2>1, <2>2, <2>3 DEF Waiting
  <2>5. Undisturbed(a)'
    <3>1. latest'[a] = latest[a] /\ disturbed'[a] = disturbed[a]
      BY <1>1
    <3>2. ASSUME "link" \notin disturbed[a], NEW u \in Threads, LinkCall(u, a)' \/ UploadCall(u, a)'
          PROVE  u = t
      BY <1>4, <1>5, <3>2 DEF Same
    <3> QED BY <1>0, <2>1, <2>2, <3>1, <3>2 DEF Undisturbed, UploadInv
  <2>6. UploadInv(a)'
    BY <1>0, <1>1, <2>1, <2>2, <2>4, <2>5 DEF UploadInv
  <2>7. ASSUME NEW b \in Agents, b # a PROVE UploadInv(b)'
    BY <1>b, <2>3, <2>7
  <2>8. ASSUME NEW u \in Threads PROVE KeyInv(u)'
    <3>1. CASE u = t
      BY <1>0, <1>1, <2>1, <3>1 DEF KeyInv, UploadInv
    <3>2. CASE u # t
      BY <1>1, <3>2 DEF UInv, KeyInv
    <3> QED BY <3>1, <3>2
  <2>9. IngestsAreStored'
    BY <1>1 DEF UInv, IngestsAreStored
  <2> QED BY <2>6, <2>7, <2>8, <2>9 DEF UInv
<1>7. ASSUME NEW file \in Files, GetUploadLink(t, a, file) PROVE UInv'
  <2>1. /\ thread'[t] = [op |-> "link", agent |-> a, object |-> [second |-> now, file |-> file]]
        /\ upload'[a] = [upload[a] EXCEPT !.phase = "asking", !.call = t]
    BY <1>0, <1>7 DEF GetUploadLink, Start, Waits
  <2>2. upload'[a].phase = "asking" /\ upload'[a].call = t
    BY <2>1, UploadFields
  <2>3. LinkCall(t, a)' /\ ~UploadCall(t, a)'
        /\ \A b : b # a => ~LinkCall(t, b)' /\ ~UploadCall(t, b)'
    BY <2>1 DEF UploadCall, LinkCall
  <2>4. Waiting(a)'
    BY <2>2, <2>3 DEF Waiting
  <2>5. Undisturbed(a)'
    <3>1. disturbed'[a] = disturbed[a]
      BY <1>1
    <3>2. ASSUME "link" \notin disturbed[a], NEW u \in Threads, LinkCall(u, a)' \/ UploadCall(u, a)'
          PROVE  u = t
      BY <1>4, <1>5, <3>2 DEF Same
    <3> QED BY <2>2, <3>1, <3>2 DEF Undisturbed
  <2>6. UploadInv(a)'
    BY <2>2, <2>4, <2>5 DEF UploadInv
  <2>7. ASSUME NEW b \in Agents, b # a PROVE UploadInv(b)'
    BY <1>b, <2>3, <2>7
  <2>8. ASSUME NEW u \in Threads PROVE KeyInv(u)'
    <3>1. CASE u = t
      BY <2>1, <3>1 DEF KeyInv
    <3>2. CASE u # t
      BY <1>1, <3>2 DEF UInv, KeyInv
    <3> QED BY <3>1, <3>2
  <2>9. IngestsAreStored'
    BY <1>1 DEF UInv, IngestsAreStored
  <2> QED BY <2>6, <2>7, <2>8, <2>9 DEF UInv
<1> QED BY <1>6, <1>7

(* The end of call t, which worked for a: nobody else waited for it.       *)
LEMMA EndsAlone ==
  ASSUME Typed, UInv, NEW t \in Threads, NEW a \in Agents, LinkCall(t, a) \/ UploadCall(t, a),
         thread' = [thread EXCEPT ![t] = Idle]
  PROVE  /\ \A b : ~LinkCall(t, b)' /\ ~UploadCall(t, b)'
         /\ \A b : b # a => ~LinkCall(t, b) /\ ~UploadCall(t, b)
         /\ \A u \in Threads : u # t => thread'[u] = thread[u]
         /\ \A b \in Agents : b # a => upload[b].call # t
<1>1. thread'[t] = Idle /\ \A u \in Threads : u # t => thread'[u] = thread[u]
  BY DEF Typed, CallsOK
<1>2. \A b : ~LinkCall(t, b)' /\ ~UploadCall(t, b)'
  BY <1>1, CallKinds DEF LinkCall, UploadCall
<1>3. \A b : b # a => ~LinkCall(t, b) /\ ~UploadCall(t, b)
  BY DEF LinkCall, UploadCall
<1>4. ASSUME NEW b \in Agents, b # a PROVE upload[b].call # t
  BY <1>3, <1>4, AgentsAssumption DEF UInv, UploadInv, Waiting
<1> QED BY <1>1, <1>2, <1>3, <1>4

(* The end of call t for agent b: what is left to show is about b.         *)
LEMMA EndFrame ==
  ASSUME Typed, UInv, NEW t \in Threads, NEW a \in Agents, LinkCall(t, a) \/ UploadCall(t, a),
         thread' = [thread EXCEPT ![t] = Idle],
         stored' = stored, ingested \subseteq ingested',
         \A c \in Agents : c # a => /\ upload'[c] = upload[c] /\ latest'[c] = latest[c]
                                    /\ disturbed'[c] = disturbed[c],
         disturbed[a] \subseteq disturbed'[a],
         UploadInv(a)',
         \A i \in ingested' : i \in ingested \/ i \in stored \/ (i[1] = a /\ "link" \in disturbed'[a])
  PROVE  UInv'
<1>1. /\ \A b : ~LinkCall(t, b)' /\ ~UploadCall(t, b)'
      /\ \A b : b # a => ~LinkCall(t, b) /\ ~UploadCall(t, b)
      /\ \A u \in Threads : u # t => thread'[u] = thread[u]
  BY EndsAlone
<1>2. ASSUME NEW b \in Agents, b # a PROVE UploadInv(b)'
  <2>1. \A u \in Threads : Same(u, b)
    BY <1>1, <1>2, SameButOne
  <2> QED BY <1>2, <2>1, OtherAgents
<1>3. ASSUME NEW u \in Threads PROVE KeyInv(u)'
  <2>1. CASE u = t
    BY <2>1, CallKinds DEF KeyInv, Typed, CallsOK
  <2>2. CASE u # t
    BY <1>1, <2>2 DEF UInv, KeyInv
  <2> QED BY <2>1, <2>2
<1>4. IngestsAreStored'
  <2>1. \A i \in ingested : i[1] \in Agents
    BY DEF Typed, UploadsOK
  <2>2. \A c \in Agents : disturbed[c] \subseteq disturbed'[c]
    OBVIOUS
  <2> QED BY <2>1, <2>2 DEF UInv, IngestsAreStored
<1> QED BY <1>2, <1>3, <1>4 DEF UInv

LEMMA StoreLinkUploads ==
  ASSUME Typed, UInv, NEW t \in Threads, StoreLink(t)
  PROVE  UInv'
<1>1. PICK a \in Agents : a = thread[t].agent /\ LinkCall(t, a) /\ thread[t].object \in Objects
  BY CallFields DEF StoreLink, Typed, LinkCalls, LinkCall
<1>2. thread' = [thread EXCEPT ![t] = Idle] /\ UNCHANGED <<stored, ingested>>
  BY DEF StoreLink, End
<1>3. /\ latest'[a] = thread[t].object \/ "link" \in disturbed'[a]
      /\ disturbed[a] \subseteq disturbed'[a]
      /\ \A c \in Agents : c # a =>
           upload'[c] = upload[c] /\ latest'[c] = latest[c] /\ disturbed'[c] = disturbed[c]
      /\ upload'[a] = IF upload[a].call = t
                      THEN [phase |-> "linked", object |-> thread[t].object, call |-> "none"]
                      ELSE upload[a]
  BY <1>1 DEF StoreLink, Disturb, Answered, Typed, UploadsOK
<1>4. UploadInv(a)
  BY DEF UInv
<1>5. /\ ~LinkCall(t, a)' /\ ~UploadCall(t, a)'
      /\ \A u \in Threads : u # t => thread'[u] = thread[u]
  BY <1>1, <1>2, EndsAlone
<1>6. \A u \in Threads : u # t => Same(u, a)
  BY <1>5, Unmoved
<1>7. UploadInv(a)'
  <2>1. CASE upload[a].call = t
    <3>1. upload'[a] = [phase |-> "linked", object |-> thread[t].object, call |-> "none"]
      BY <1>3, <2>1
    <3>2. ASSUME "link" \notin disturbed'[a], NEW u \in Threads
          PROVE  ~LinkCall(u, a)' /\ ~UploadCall(u, a)'
      BY <1>3, <1>4, <1>5, <1>6, <2>1, <3>2 DEF UploadInv, Undisturbed, Same
    <3>3. Undisturbed(a)'
      BY <1>3, <3>1, <3>2 DEF Undisturbed
    <3> QED BY <1>1, <3>1, <3>3 DEF UploadInv, Waiting
  <2>2. CASE upload[a].call # t
    <3>1. "link" \in disturbed'[a] /\ upload'[a] = upload[a]
      BY <1>1, <1>3, <1>4, <2>2 DEF UploadInv, Undisturbed
    <3>2. PICK u : u = upload[a]
      OBVIOUS
    <3>3. Waiting(a)'
      BY <1>4, <1>6, <2>2, <3>1, <3>2 DEF UploadInv, Waiting, Same
    <3> QED BY <1>2, <1>4, <3>1, <3>3 DEF UploadInv, Undisturbed
  <2> QED BY <2>1, <2>2
<1> QED BY <1>1, <1>2, <1>3, <1>7, EndFrame

(* The end of an upload's call is the answer the agent waits for, or       *)
(* the agent has given up waiting.                                         *)
LEMMA IngestUploads ==
  ASSUME Typed, UInv, NEW t \in Threads, StartIngest(t) \/ SkipIngest(t)
  PROVE  UInv'
<1>1. PICK a \in Agents : /\ a = thread[t].agent /\ UploadCall(t, a)
                          /\ thread[t].op = "ingest" /\ thread[t].key \in Objects \cup {NoObject}
  BY CallFields DEF StartIngest, SkipIngest, Typed, IngestCalls, UploadCall
<1>2. thread' = [thread EXCEPT ![t] = Idle] /\ UNCHANGED <<latest, stored>>
  BY DEF StartIngest, SkipIngest, End
<1>3. /\ ingested \subseteq ingested' /\ disturbed[a] \subseteq disturbed'[a]
      /\ \A c \in Agents : c # a => upload'[c] = upload[c] /\ disturbed'[c] = disturbed[c]
      /\ upload'[a] = IF upload[a].call = t
                      THEN [upload[a] EXCEPT !.phase = "done", !.call = "none"] ELSE upload[a]
  BY <1>1 DEF StartIngest, SkipIngest, Disturb, Completed, Answered, Typed, UploadsOK
<1>4. UploadInv(a) /\ KeyInv(t) /\ upload[a] \in Uploads
  BY ObjectsTyped DEF UInv, Typed
<1>5. /\ ~LinkCall(t, a)' /\ ~UploadCall(t, a)'
      /\ \A u \in Threads : u # t => thread'[u] = thread[u]
  BY <1>1, <1>2, EndsAlone
<1>6. \A u \in Threads : u # t => Same(u, a)
  BY <1>5, Unmoved
<1>7. ASSUME upload[a].call = t
      PROVE  /\ upload[a].phase = "completing" /\ thread[t].key \in {NoObject, upload[a].object}
             /\ upload[a].object \in Objects /\ <<a, upload[a].object>> \in stored
             /\ "link" \notin disturbed[a] => latest[a] = upload[a].object
  <2>1. upload[a].phase = "completing" /\ thread[t].key \in {NoObject, upload[a].object}
    BY <1>1, <1>4, <1>7, AgentsAssumption DEF UploadInv, Waiting, LinkCall
  <2> QED BY <1>4, <2>1 DEF UploadInv, Undisturbed
<1>8. ASSUME "link" \notin disturbed[a] PROVE upload[a].call = t
  BY <1>1, <1>4, <1>8 DEF UploadInv, Undisturbed
<1>9. ASSUME StartIngest(t)
      PROVE  /\ upload[a].call = t => <<a, upload[a].object>> \in ingested' \/ disturbed'[a] # {}
             /\ \A i \in ingested' : i \in ingested \/ i \in stored \/ (i[1] = a /\ "link" \in disturbed'[a])
  <2>1. ingested' = ingested \cup {<<a, Ingestible(thread[t])>>} /\ disturbed' = disturbed
    BY <1>1, <1>9 DEF StartIngest
  <2>2. <<a, Ingestible(thread[t])>> \in stored \/ "link" \in disturbed[a]
    BY <1>1, <1>4, <1>7, <1>8 DEF Ingestible, KeyInv
  <2>3. ASSUME upload[a].call = t
        PROVE  <<a, upload[a].object>> \in ingested' \/ disturbed'[a] # {}
    BY <1>1, <1>7, <2>1, <2>3, NoObjectIsNone DEF Ingestible
  <2>4. \A i \in ingested' : i \in ingested \/ i \in stored \/ (i[1] = a /\ "link" \in disturbed'[a])
    BY <2>1, <2>2
  <2> QED BY <2>3, <2>4
<1>10. ASSUME SkipIngest(t)
      PROVE  /\ upload[a].call = t => <<a, upload[a].object>> \in ingested' \/ disturbed'[a] # {}
             /\ \A i \in ingested' : i \in ingested \/ i \in stored \/ (i[1] = a /\ "link" \in disturbed'[a])
  <2>1. ingested' = ingested
    BY <1>10 DEF SkipIngest
  <2>2. ASSUME upload[a].call = t PROVE disturbed'[a] # {}
    <3>1. CASE Ingestible(thread[t]) = NoObject /\ UNCHANGED disturbed
      <4>1. latest[a] = NoObject
        BY <1>1, <3>1 DEF Ingestible
      <4> QED BY <1>7, <2>2, <3>1, <4>1, NoObjectIsNone
    <3>2. CASE Disturb(a, "link") \/ Disturb(a, "start")
      BY <3>2 DEF Disturb, Typed, UploadsOK
    <3> QED BY <1>1, <1>10, <3>1, <3>2 DEF SkipIngest
  <2> QED BY <2>1, <2>2
<1>11. UploadInv(a)'
  <2>1. CASE upload[a].call = t
    <3>1. /\ upload'[a].phase = "done" /\ upload'[a].call = "none"
          /\ upload'[a].object = upload[a].object
      BY <1>3, <1>4, <2>1 DEF Uploads
    <3>2. ASSUME "link" \notin disturbed'[a], NEW u \in Threads
          PROVE  ~LinkCall(u, a)' /\ ~UploadCall(u, a)'
      BY <1>3, <1>4, <1>5, <1>6, <2>1, <3>2 DEF UploadInv, Undisturbed, Same
    <3>3. Undisturbed(a)' /\ Waiting(a)'
      BY <3>1, <3>2 DEF Undisturbed, Waiting
    <3>4. <<a, upload[a].object>> \in ingested' \/ disturbed'[a] # {}
      <4>1. CASE StartIngest(t)
        BY <1>9, <2>1, <4>1
      <4>2. CASE SkipIngest(t)
        BY <1>10, <2>1, <4>2
      <4> QED BY <4>1, <4>2
    <3> QED BY <1>2, <1>7, <2>1, <3>1, <3>3, <3>4 DEF UploadInv
  <2>2. CASE upload[a].call # t
    <3>1. "link" \in disturbed'[a] /\ upload'[a] = upload[a]
      BY <1>3, <1>8, <2>2
    <3>2. PICK u : u = upload[a]
      OBVIOUS
    <3>3. Waiting(a)'
      BY <1>4, <1>6, <2>2, <3>1, <3>2 DEF UploadInv, Waiting, Same
    <3> QED BY <1>2, <1>3, <1>4, <3>1, <3>3 DEF UploadInv, Undisturbed
  <2> QED BY <2>1, <2>2
<1>12. \A i \in ingested' : i \in ingested \/ i \in stored \/ (i[1] = a /\ "link" \in disturbed'[a])
  BY <1>9, <1>10
<1> QED BY <1>1, <1>2, <1>3, <1>11, <1>12, EndFrame

LEMMA FailsUploads ==
  ASSUME Typed, UInv, NEW t \in Threads, Fails(t)
  PROVE  UInv'
<1>1. /\ thread' = [thread EXCEPT ![t] = Idle]
      /\ UNCHANGED <<latest, stored, ingested, disturbed>>
      /\ \A c \in Agents : upload'[c] = IF upload[c].call = t THEN GivenUp(c) ELSE upload[c]
  BY DEF Fails, End
<1>2. CASE \E a \in Agents : LinkCall(t, a) \/ UploadCall(t, a)
  <2>1. PICK a \in Agents : LinkCall(t, a) \/ UploadCall(t, a)
    BY <1>2
  <2>2. /\ ~LinkCall(t, a)' /\ ~UploadCall(t, a)'
        /\ \A u \in Threads : u # t => thread'[u] = thread[u]
        /\ \A c \in Agents : c # a => upload[c].call # t
    BY <1>1, <2>1, EndsAlone
  <2>3. \A u \in Threads : u # t => Same(u, a)
    BY <2>2, Unmoved
  <2>4. UploadInv(a) /\ upload[a] \in Uploads
    BY ObjectsTyped DEF UInv, Typed
  <2>5. UploadInv(a)'
    <3>1. CASE upload[a].call = t
      <4>0. upload'[a] = GivenUp(a)
        BY <1>1, <3>1
      <4>1. /\ upload'[a].call = "none"
            /\ \/ upload'[a].phase = "none"
               \/ /\ upload[a].phase = "completing" /\ upload'[a].phase = "stored"
                  /\ upload'[a].object = upload[a].object
        BY <2>4, <4>0 DEF GivenUp, NoUpload, Uploads
      <4>2. ASSUME "link" \notin disturbed'[a], NEW u \in Threads
            PROVE  ~LinkCall(u, a)' /\ ~UploadCall(u, a)'
        BY <1>1, <2>2, <2>3, <2>4, <3>1, <4>2 DEF UploadInv, Undisturbed, Same
      <4>3. Undisturbed(a)'
        BY <1>1, <2>4, <4>1, <4>2 DEF UploadInv, Undisturbed
      <4> QED BY <1>1, <2>4, <4>1, <4>3 DEF UploadInv, Waiting
    <3>2. CASE upload[a].call # t
      <4>1. "link" \in disturbed'[a] /\ upload'[a] = upload[a]
        BY <1>1, <2>1, <2>4, <3>2 DEF UploadInv, Undisturbed
      <4>2. PICK u : u = upload[a]
        OBVIOUS
      <4>3. Waiting(a)'
        BY <2>3, <2>4, <3>2, <4>1, <4>2 DEF UploadInv, Waiting, Same
      <4> QED BY <1>1, <2>4, <4>1, <4>3 DEF UploadInv, Undisturbed
    <3> QED BY <3>1, <3>2
  <2> QED BY <1>1, <2>1, <2>2, <2>5, EndFrame
<1>3. CASE \A a \in Agents : ~LinkCall(t, a) /\ ~UploadCall(t, a)
  <2>1. \A c \in Agents : upload[c].call # t
    BY <1>3, AgentsAssumption DEF UInv, UploadInv, Waiting
  <2>2. upload' = upload
    BY <1>1, <2>1 DEF Fails, Typed, UploadsOK
  <2>3. thread'[t] = Idle /\ \A u \in Threads : u # t => thread'[u] = thread[u]
    BY <1>1 DEF Typed, CallsOK
  <2>4. \A a \in Agents : ~LinkCall(t, a)' /\ ~UploadCall(t, a)'
    BY <2>3, CallKinds DEF LinkCall, UploadCall
  <2>5. KeyInv(t)'
    BY <2>3, CallKinds DEF KeyInv
  <2> QED BY <1>1, <1>3, <2>2, <2>3, <2>4, <2>5, ThreadFrame
<1> QED BY <1>2, <1>3

(* Steps of agent a, Redis or Temporal; no call moves.                     *)
LEMMA AgentFrame ==
  ASSUME Typed, UInv, UNCHANGED <<thread, ingested>>, NEW a \in Agents, stored \subseteq stored',
         \A c \in Agents : c # a => /\ upload'[c] = upload[c] /\ latest'[c] = latest[c]
                                    /\ disturbed'[c] = disturbed[c],
         disturbed[a] \subseteq disturbed'[a],
         UploadInv(a)'
  PROVE  UInv'
<1>1. ASSUME NEW b \in Agents, b # a PROVE UploadInv(b)'
  <2>1. \A u \in Threads : Same(u, b)
    BY Unmoved
  <2> QED BY <1>1, <2>1, OtherAgents
<1>2. ASSUME NEW u \in Threads PROVE KeyInv(u)'
  BY DEF UInv, KeyInv
<1>3. IngestsAreStored'
  <2>1. \A i \in ingested : i[1] \in Agents
    BY DEF Typed, UploadsOK
  <2>2. \A c \in Agents : disturbed[c] \subseteq disturbed'[c]
    OBVIOUS
  <2> QED BY <2>1, <2>2 DEF UInv, IngestsAreStored
<1> QED BY <1>1, <1>2, <1>3 DEF UInv

LEMMA UploadsUnchanged ==
  ASSUME UInv, UNCHANGED <<thread, latest, upload, stored, ingested, disturbed>>
  PROVE  UInv'
BY DEF UInv, UploadInv, Waiting, Undisturbed, LinkCall, UploadCall, KeyInv, IngestsAreStored

LEMMA SurroundingsUploads ==
  ASSUME Typed, UInv, NEW a \in Agents, Surroundings(a)
  PROVE  UInv'
<1>0. /\ UploadInv(a) /\ upload[a] \in Uploads /\ upload \in [Agents -> Uploads]
      /\ latest \in [Agents -> Objects \cup {NoObject}]
      /\ disturbed \in [Agents -> SUBSET Causes]
  BY ObjectsTyped DEF UInv, Typed, UploadsOK
<1>1. ASSUME UNCHANGED thread PROVE \A u \in Threads : Same(u, a)
  BY <1>1, Unmoved
<1>2. CASE PutObject(a)
  <2>1. /\ upload'[a].phase = "stored" /\ upload'[a].call = upload[a].call
        /\ upload'[a].object = upload[a].object
        /\ stored' = stored \cup {<<a, upload[a].object>>}
        /\ upload[a].phase = "linked"
        /\ UNCHANGED <<thread, latest, ingested, disturbed>>
        /\ \A c \in Agents : c # a => upload'[c] = upload[c]
    BY <1>0, <1>2 DEF PutObject, Uploads
  <2>2. Waiting(a)' /\ Undisturbed(a)'
    BY <1>0, <1>1, <2>1 DEF UploadInv, Waiting, Undisturbed, Same
  <2>3. UploadInv(a)'
    BY <1>0, <2>1, <2>2 DEF UploadInv
  <2> QED BY <2>1, <2>3, AgentFrame
<1>3. CASE GiveUp(a)
  <2>1. /\ upload'[a] = GivenUp(a) /\ disturbed'[a] = disturbed[a] \cup {"link"}
        /\ UNCHANGED <<thread, latest, ingested, stored>>
        /\ \A c \in Agents : c # a => upload'[c] = upload[c] /\ disturbed'[c] = disturbed[c]
    BY <1>0, <1>3 DEF GiveUp, Disturb
  <2>2. /\ upload'[a].call = "none"
        /\ \/ upload'[a].phase = "none"
           \/ /\ upload[a].phase = "completing" /\ upload'[a].phase = "stored"
              /\ upload'[a].object = upload[a].object
    BY <1>0, <2>1 DEF GivenUp, NoUpload, Uploads
  <2>3. UploadInv(a)'
    BY <1>0, <2>1, <2>2 DEF UploadInv, Waiting, Undisturbed
  <2> QED BY <2>1, <2>3, AgentFrame
<1>4. CASE LinkExpires(a)
  <2>1. /\ disturbed'[a] = disturbed[a] \cup {"link"} /\ UNCHANGED <<thread, upload, ingested, stored>>
        /\ \A c \in Agents : c # a => latest'[c] = latest[c] /\ disturbed'[c] = disturbed[c]
    BY <1>0, <1>4 DEF LinkExpires, Disturb
  <2>2. Waiting(a)' /\ Undisturbed(a)'
    BY <1>0, <2>1 DEF UploadInv, Waiting, Undisturbed, LinkCall, UploadCall
  <2>3. UploadInv(a)'
    BY <1>0, <2>1, <2>2 DEF UploadInv
  <2> QED BY <2>1, <2>3, AgentFrame
<1>5. CASE \/ \E second \in 0..MaxSecond : IngestEnds(a, second)
           \/ RefreshKey(a) \/ KeyExpires(a) \/ AgesOut(a) \/ Switches(a)
  BY <1>5, UploadsUnchanged DEF IngestEnds, RefreshKey, KeyExpires, AgesOut, Switches, uploads
<1> QED BY <1>2, <1>3, <1>4, <1>5 DEF Surroundings

-----------------------------------------------------------------------------
(* Enrolment.  One call at a time registers a name that is not overlapped; *)
(* what it was told to do is still right when it writes.                   *)

Registrations == {"enrol", "insert", "save"}

SecretsInv ==
  /\ \A t \in Threads : thread[t].op \in Registrations => thread[t].secret <= secrets
  /\ \A n \in Names : told[n] <= secrets

SaveInv(t) == thread[t].op = "save" => row[thread[t].agent].name = thread[t].name

NameInv(n) ==
  /\ \A t, u \in Threads : Enrolling(t, n) /\ Enrolling(u, n) => t = u
  /\ \A t \in Threads : Enrolling(t, n) => told[n] <= thread[t].secret
  /\ \A t \in Threads : Enrolling(t, n) /\ thread[t].op = "insert" => Named(n) = {}
  /\ \A a, b \in Named(n) : a = b /\ told[n] <= row[a].secret

EInv ==
  /\ SecretsInv
  /\ \A t \in Threads : SaveInv(t)
  /\ \A n \in Names \ (overlapped \cup {"unnamed"}) : NameInv(n)

LEMMA EnrolmentsFromInv == EInv => EnrolmentsHold
BY DEF EInv, NameInv, EnrolmentsHold

(* Names and secrets stay, and no call begins or continues a registration. *)
LEMMA EnrolFrame ==
  ASSUME Typed, EInv, UNCHANGED enrolment, DOMAIN row' = DOMAIN row,
         \A a \in DOMAIN row : row'[a].name = row[a].name /\ row'[a].secret = row[a].secret,
         \A u \in Threads : thread'[u].op \in Registrations => thread'[u] = thread[u]
  PROVE  EInv'
<1>1. \A n : Named(n)' = Named(n)
  BY DEF Named
<1>2. \A u \in Threads, n \in Names : Enrolling(u, n)' => Enrolling(u, n) /\ thread'[u] = thread[u]
  BY DEF Enrolling, Registrations
<1>3. SecretsInv'
  BY DEF EInv, SecretsInv, enrolment
<1>4. ASSUME NEW u \in Threads PROVE SaveInv(u)'
  BY DEF EInv, SaveInv, Typed, CallsOK, AgentCalls, Registrations
<1>5. ASSUME NEW n \in (Names \ (overlapped \cup {"unnamed"}))' PROVE NameInv(n)'
  <2>1. NameInv(n) /\ n \in Names /\ told' = told
    BY <1>5 DEF EInv, enrolment
  <2>2. \A a \in Named(n) : a \in DOMAIN row
    BY DEF Named
  <2> QED BY <1>1, <1>2, <2>1, <2>2 DEF NameInv
<1> QED BY <1>3, <1>4, <1>5 DEF EInv

(* A call t that registers name n moves: other names are not concerned.    *)
LEMMA OtherNames ==
  ASSUME EInv, NEW t \in Threads, NEW n, NEW m \in Names \ (overlapped \cup {"unnamed"}), m # n,
         Enrolling(t, m)' => Enrolling(t, m) /\ thread'[t] = thread[t],
         \A u \in Threads : u # t => thread'[u] = thread[u],
         told'[m] = told[m], Named(m)' = Named(m),
         \A a \in Named(m) : row'[a].secret = row[a].secret
  PROVE  NameInv(m)'
<1>1. NameInv(m)
  BY DEF EInv
<1>2. \A u \in Threads : Enrolling(u, m)' => Enrolling(u, m) /\ thread'[u] = thread[u]
  BY DEF Enrolling
<1> QED BY <1>1, <1>2 DEF NameInv

LEMMA VerifyEnrols ==
  ASSUME Typed, EInv, NEW t \in Threads, NEW n \in Names, Verify(t, n)
  PROVE  EInv'
<1>1. /\ thread'[t] = [op |-> "enrol", name |-> n, secret |-> secrets + 1]
      /\ \A u \in Threads : u # t => thread'[u] = thread[u]
      /\ thread[t] = Idle /\ secrets' = secrets + 1 /\ UNCHANGED <<row, told>>
  BY DEF Verify, Start, Typed, CallsOK
<1>2. secrets \in Nat /\ \A m \in Names : told[m] \in Nat /\ told[m] <= secrets
  BY AgentsAssumption DEF Typed, CompanyOK, EInv, SecretsInv
<1>3. SecretsInv'
  <2>1. ASSUME NEW u \in Threads, thread'[u].op \in Registrations PROVE thread'[u].secret <= secrets'
    <3>1. CASE u = t
      BY <1>1, <1>2, <3>1
    <3>2. CASE u # t
      <4>1. thread[u] \in Enrolments \cup Saves /\ thread'[u] = thread[u]
        BY <1>1, <2>1, <3>2, CallFields DEF Registrations, Typed
      <4>2. thread[u].secret \in Nat /\ thread[u].secret <= secrets
        BY <2>1, <4>1, AgentsAssumption DEF Enrolments, Saves, EInv, SecretsInv
      <4> QED BY <1>1, <1>2, <4>1, <4>2
    <3> QED BY <3>1, <3>2
  <2> QED BY <1>1, <1>2, <2>1 DEF SecretsInv
<1>4. ASSUME NEW u \in Threads PROVE SaveInv(u)'
  BY <1>1 DEF EInv, SaveInv
<1>5. ASSUME NEW m \in (Names \ (overlapped \cup {"unnamed"}))' PROVE NameInv(m)'
  <2>1. m \in Names \ (overlapped \cup {"unnamed"}) /\ Named(m)' = Named(m)
    BY <1>1, <1>5 DEF Verify, Named
  <2>2. CASE m # n
    BY <1>1, <2>1, <2>2, OtherNames DEF Enrolling
  <2>3. CASE m = n
    <3>1. \A u \in Threads : ~Enrolling(u, n)
      BY <1>5, <2>3 DEF Verify
    <3>2. \A u \in Threads : u # t => ~Enrolling(u, n)'
      BY <1>1, <3>1 DEF Enrolling
    <3>3. NameInv(n)
      BY <2>1, <2>3 DEF EInv
    <3>4. told[n] <= secrets + 1
      BY <1>2
    <3> QED BY <1>1, <2>1, <2>3, <3>2, <3>3, <3>4 DEF NameInv, Enrolling
  <2> QED BY <2>2, <2>3
<1> QED BY <1>3, <1>4, <1>5 DEF EInv

LEMMA FindEnrols ==
  ASSUME Typed, EInv, NEW t \in Threads, FindAgent(t)
  PROVE  EInv'
<1>1. thread[t] \in Enrolments /\ thread[t].op = "enrol"
  BY CallFields DEF FindAgent, Typed
<1>2. PICK n \in Names : n = thread[t].name
  BY <1>1 DEF Enrolments
<1>3. /\ thread'[t].name = n /\ thread'[t].secret = thread[t].secret
      /\ \/ thread'[t].op = "insert" /\ (Named(n) = {} \/ n = "unnamed")
         \/ thread'[t].op = "save" /\ row[thread'[t].agent].name = n
      /\ \A u \in Threads : u # t => thread'[u] = thread[u]
      /\ UNCHANGED <<row, enrolment>>
  <2>0. DOMAIN thread = Threads
    BY DEF Typed, CallsOK
  <2>1. CASE /\ Named(n) = {} \/ n = "unnamed"
             /\ thread' = [thread EXCEPT ![t] = [thread[t] EXCEPT !.op = "insert"]]
    BY <1>1, <1>2, <2>0, <2>1 DEF Enrolments, FindAgent
  <2>2. CASE \E a \in Named(n) : thread' = [thread EXCEPT ![t] =
                 [ op |-> "save", name |-> thread[t].name, secret |-> thread[t].secret,
                   agent |-> a, seen |-> row[a].status ]]
    BY <1>1, <1>2, <2>0, <2>2 DEF Named, FindAgent
  <2> QED BY <1>2, <2>1, <2>2 DEF FindAgent, Continue
<1>4. SecretsInv'
  BY <1>1, <1>3 DEF EInv, SecretsInv, Registrations, enrolment
<1>5. ASSUME NEW u \in Threads PROVE SaveInv(u)'
  BY <1>3 DEF EInv, SaveInv
<1>6. ASSUME NEW m \in (Names \ (overlapped \cup {"unnamed"}))' PROVE NameInv(m)'
  <2>1. m \in Names \ (overlapped \cup {"unnamed"}) /\ Named(m)' = Named(m) /\ told' = told
    BY <1>3, <1>6 DEF Named, enrolment
  <2>2. CASE m # n
    BY <1>3, <2>1, <2>2, OtherNames DEF Enrolling
  <2>3. CASE m = n
    <3>1. NameInv(n) /\ Enrolling(t, n)
      BY <1>1, <1>2, <2>1, <2>3 DEF EInv, Enrolling
    <3>2. \A u \in Threads : u # t => ~Enrolling(u, n)'
      BY <1>3, <3>1 DEF Enrolling, NameInv
    <3> QED BY <1>3, <2>1, <2>3, <3>1, <3>2 DEF NameInv
  <2> QED BY <2>2, <2>3
<1> QED BY <1>4, <1>5, <1>6 DEF EInv

(* The end of a registration: the row has the name and the new secret.     *)
LEMMA WritesEnrol ==
  ASSUME Typed, EInv, NEW t \in Threads, NEW n \in Names, Enrolling(t, n),
         thread[t] \in Enrolments \cup Saves, thread' = [thread EXCEPT ![t] = Idle],
         UNCHANGED <<secrets, overlapped>>, \E answered \in Answers : Tell(thread[t], answered),
         NEW a, DOMAIN row' = DOMAIN row \cup {a}, row'[a].name = n, row'[a].secret = thread[t].secret,
         \A b \in DOMAIN row : b # a => row'[b] = row[b],
         a \in DOMAIN row => row[a].name = n,
         a \notin DOMAIN row => n \in overlapped \/ n = "unnamed" \/ Named(n) = {}
  PROVE  EInv'
<1>1. thread'[t] = Idle /\ \A u \in Threads : u # t => thread'[u] = thread[u]
  BY DEF Typed, CallsOK
<1>2. /\ thread[t].name = n /\ thread[t].secret \in Nat /\ thread[t].secret <= secrets
      /\ secrets \in Nat
  BY AgentsAssumption
     DEF Enrolments, Saves, Enrolling, EInv, SecretsInv, Registrations, Typed, CompanyOK
<1>3. /\ \A m \in Names : m # n => told'[m] = told[m]
      /\ told'[n] \in {told[n], thread[t].secret}
  BY <1>2 DEF Tell, Typed, CompanyOK
<1>4. \A u : ~(u = t /\ thread'[u].op \in Registrations)
  BY <1>1, CallKinds DEF Registrations
<1>5. SecretsInv'
  BY <1>1, <1>2, <1>3, <1>4 DEF EInv, SecretsInv
<1>6. ASSUME NEW u \in Threads PROVE SaveInv(u)'
  <2>1. CASE thread'[u].op = "save"
    <3>1. /\ thread'[u] = thread[u] /\ thread[u].agent \in DOMAIN row
          /\ row[thread[u].agent].name = thread[u].name
      BY <1>1, <1>4, <2>1 DEF EInv, SaveInv, Typed, CallsOK, AgentCalls, Registrations
    <3> QED BY <3>1 DEF SaveInv
  <2> QED BY <2>1 DEF SaveInv
<1>7. ASSUME NEW m \in (Names \ (overlapped \cup {"unnamed"}))' PROVE NameInv(m)'
  <2>1. m \in Names \ (overlapped \cup {"unnamed"})
    BY <1>7
  <2>2. CASE m # n
    <3>1. Named(m)' = Named(m) /\ \A b \in Named(m) : row'[b] = row[b]
      BY <2>2 DEF Named
    <3>2. ~Enrolling(t, m)'
      BY <1>4 DEF Enrolling, Registrations
    <3> QED BY <1>1, <1>3, <2>1, <2>2, <3>1, <3>2, OtherNames
  <2>3. CASE m = n
    <3>1. NameInv(n)
      BY <2>1, <2>3 DEF EInv
    <3>2. \A u \in Threads : ~Enrolling(u, n)'
      <4>1. ASSUME NEW u \in Threads, u # t PROVE ~Enrolling(u, n)'
        BY <1>1, <3>1, <4>1 DEF Enrolling, NameInv
      <4> QED BY <1>4, <4>1 DEF Enrolling, Registrations
    <3>3. Named(n)' = {a}
      BY <2>1, <2>3, <3>1 DEF Named, NameInv
    <3>4. told'[n] <= row'[a].secret
      BY <1>2, <1>3, <3>1 DEF NameInv
    <3> QED BY <2>3, <3>2, <3>3, <3>4 DEF NameInv
  <2> QED BY <2>2, <2>3
<1> QED BY <1>5, <1>6, <1>7 DEF EInv

LEMMA InsertEnrols ==
  ASSUME Typed, EInv, NEW t \in Threads, InsertAgent(t)
  PROVE  EInv'
<1>1. thread[t] \in Enrolments /\ thread[t].op = "insert"
  BY CallFields DEF InsertAgent, Typed
<1>2. PICK n \in Names : n = thread[t].name /\ Enrolling(t, n)
  BY <1>1 DEF Enrolments, Enrolling
<1>3. PICK a \in Agents \ DOMAIN row :
        row' = [b \in DOMAIN row \cup {a} |->
                  IF b = a THEN [ name |-> thread[t].name, secret |-> thread[t].secret,
                                  status |-> "IDLE", recent |-> TRUE ]
                  ELSE row[b]]
  BY DEF InsertAgent
<1>4. /\ DOMAIN row' = DOMAIN row \cup {a} /\ row'[a].name = n /\ row'[a].secret = thread[t].secret
      /\ \A b \in DOMAIN row : b # a => row'[b] = row[b]
  BY <1>2, <1>3
<1>5. n \in overlapped \/ n = "unnamed" \/ Named(n) = {}
  BY <1>1, <1>2 DEF EInv, NameInv
<1>6. thread' = [thread EXCEPT ![t] = Idle] /\ \E answered \in Answers : Tell(thread[t], answered)
  BY DEF InsertAgent, End
<1>7. thread[t] \in Enrolments \cup Saves /\ UNCHANGED <<secrets, overlapped>> /\ a \notin DOMAIN row
  BY <1>1, <1>3 DEF InsertAgent
<1> QED BY <1>2, <1>4, <1>5, <1>6, <1>7, WritesEnrol

LEMMA SaveEnrols ==
  ASSUME Typed, EInv, NEW t \in Threads, SaveAgent(t)
  PROVE  EInv'
<1>1. thread[t] \in Saves /\ thread[t].op = "save" /\ thread[t].agent \in DOMAIN row
  BY CallFields DEF SaveAgent, Typed, CallsOK, AgentCalls
<1>2. PICK n \in Names : n = thread[t].name /\ Enrolling(t, n)
  BY <1>1 DEF Saves, Enrolling
<1>3. PICK a : a = thread[t].agent
  OBVIOUS
<1>4. /\ DOMAIN row' = DOMAIN row \cup {a} /\ row'[a].name = n /\ row'[a].secret = thread[t].secret
      /\ \A b \in DOMAIN row : b # a => row'[b] = row[b]
      /\ row[a].name = n /\ a \in DOMAIN row
  <2>1. row \in [DOMAIN row -> Row]
    BY DEF Typed, CallsOK
  <2>2. row[a].name = n
    BY <1>1, <1>2, <1>3 DEF EInv, SaveInv
  <2>3. row'[a] = [ name |-> thread[t].name, secret |-> thread[t].secret,
                    status |-> Flushed("IDLE", thread[t].seen, row[a].status), recent |-> TRUE ]
    BY <1>1, <1>3, <2>1 DEF SaveAgent
  <2> QED BY <1>1, <1>2, <1>3, <2>1, <2>2, <2>3 DEF SaveAgent
<1>5. thread' = [thread EXCEPT ![t] = Idle] /\ \E answered \in Answers : Tell(thread[t], answered)
  BY DEF SaveAgent, End
<1>6. thread[t] \in Enrolments \cup Saves /\ UNCHANGED <<secrets, overlapped>>
  BY <1>1 DEF SaveAgent
<1> QED BY <1>2, <1>4, <1>5, <1>6, WritesEnrol

(* The steps that concern no registration.                                 *)
LEMMA RestEnrols ==
  ASSUME Typed, EInv,
         \/ Mint \/ Revoke \/ Tick
         \/ \E t \in Threads :
              \/ \E a \in Agents :
                   \/ \E report \in Reports : Report(t, a, report)
                   \/ \E key_ \in Objects \cup {NoObject} : ReportUpload(t, a, key_)
                   \/ \E file \in Files : GetUploadLink(t, a, file)
              \/ StoreStatus(t) \/ StartIngest(t) \/ SkipIngest(t) \/ StoreLink(t) \/ Fails(t)
         \/ \E p \in Pods : Watch(p)
         \/ \E a \in Agents : Surroundings(a)
  PROVE  EInv'
<1> DEFINE Kept(r) == DOMAIN r = DOMAIN row /\ \A a \in DOMAIN row :
                        r[a].name = row[a].name /\ r[a].secret = row[a].secret
<1>0. row \in [DOMAIN row -> Row] /\ DOMAIN thread = Threads
  BY DEF Typed, CallsOK
<1>1. ASSUME UNCHANGED <<row, thread, enrolment>> PROVE EInv'
  BY <1>1, EnrolFrame
<1>2. ASSUME NEW t \in Threads, NEW call, thread' = [thread EXCEPT ![t] = call],
             call.op \notin Registrations, UNCHANGED enrolment, Kept(row')
      PROVE  EInv'
  <2>1. \A u \in Threads : thread'[u].op \in Registrations => thread'[u] = thread[u]
    BY <1>0, <1>2
  <2> QED BY <1>2, <2>1, EnrolFrame
<1>3. ASSUME UNCHANGED <<thread, enrolment>>, Kept(row') PROVE EInv'
  BY <1>3, EnrolFrame
<1>4. Idle.op \notin Registrations
  BY CallKinds DEF Registrations
<1>5. CASE Mint \/ Revoke \/ Tick
  BY <1>1, <1>5 DEF Mint, Revoke, Tick
<1>6. ASSUME NEW t \in Threads, NEW a \in Agents,
             \/ \E report \in Reports : Report(t, a, report)
             \/ \E key_ \in Objects \cup {NoObject} : ReportUpload(t, a, key_)
             \/ \E file \in Files : GetUploadLink(t, a, file)
      PROVE  EInv'
  <2>1. PICK call : thread' = [thread EXCEPT ![t] = call] /\ call.op \in {"status", "link"}
    <3>1. CASE \E report \in Reports : Report(t, a, report)
      <4>1. PICK report \in Reports : Report(t, a, report)
        BY <3>1
      <4> DEFINE call == [ op |-> "status", agent |-> a, seen |-> row[a].status, report |-> report, key |-> NoObject ]
      <4>2. thread' = [thread EXCEPT ![t] = call]
        BY <4>1 DEF Report, Start
      <4>3. call.op = "status"
        OBVIOUS
      <4> HIDE DEF call
      <4> QED BY <4>2, <4>3
    <3>2. CASE \E key_ \in Objects \cup {NoObject} : ReportUpload(t, a, key_)
      <4>1. PICK key_ \in Objects \cup {NoObject} : ReportUpload(t, a, key_)
        BY <3>2
      <4> DEFINE call == [ op |-> "status", agent |-> a, seen |-> row[a].status, report |-> "UPLOAD_COMPLETE", key |-> key_ ]
      <4>2. thread' = [thread EXCEPT ![t] = call]
        BY <4>1 DEF ReportUpload, Start
      <4>3. call.op = "status"
        OBVIOUS
      <4> HIDE DEF call
      <4> QED BY <4>2, <4>3
    <3>3. CASE \E file \in Files : GetUploadLink(t, a, file)
      <4>1. PICK file \in Files : GetUploadLink(t, a, file)
        BY <3>3
      <4> DEFINE call == [op |-> "link", agent |-> a, object |-> [second |-> now, file |-> file]]
      <4>2. thread' = [thread EXCEPT ![t] = call]
        BY <4>1 DEF GetUploadLink, Start
      <4>3. call.op = "link"
        OBVIOUS
      <4> HIDE DEF call
      <4> QED BY <4>2, <4>3
    <3> QED BY <1>6, <3>1, <3>2, <3>3
  <2>2. UNCHANGED <<row, enrolment>>
    BY <1>6 DEF Report, ReportUpload, GetUploadLink
  <2> QED BY <1>2, <2>1, <2>2 DEF Registrations
<1>7. ASSUME NEW t \in Threads, StoreStatus(t) PROVE EInv'
  <2>1. PICK call : thread' = [thread EXCEPT ![t] = call] /\ call.op \in {"ingest", "idle"}
    BY <1>7, CallKinds DEF StoreStatus, Continue, End
  <2>2. PICK s : row' = [row EXCEPT ![thread[t].agent] =
                           [row[thread[t].agent] EXCEPT !.status = s, !.recent = TRUE]]
    BY <1>7 DEF StoreStatus
  <2>3. Kept(row')
    BY <1>0, <2>2 DEF Row
  <2> QED BY <1>2, <1>7, <2>1, <2>3 DEF Registrations, StoreStatus
<1>8. ASSUME NEW t \in Threads,
             StartIngest(t) \/ SkipIngest(t) \/ StoreLink(t) \/ Fails(t)
      PROVE  EInv'
  <2>1. thread' = [thread EXCEPT ![t] = Idle] /\ UNCHANGED <<row, enrolment>>
    BY <1>8 DEF StartIngest, SkipIngest, StoreLink, Fails, End
  <2> QED BY <1>2, <1>4, <2>1
<1>9. ASSUME NEW p \in Pods, Watch(p) PROVE EInv'
  <2>1. CASE MarkOffline(p)
    <3>1. PICK a, s : row' = [row EXCEPT ![a] = [row[a] EXCEPT !.status = s]]
      BY <2>1 DEF MarkOffline
    <3>2. Kept(row')
      BY <1>0, <3>1 DEF Row
    <3> QED BY <1>3, <2>1, <3>2 DEF MarkOffline
  <2>2. CASE ~MarkOffline(p)
    BY <1>1, <1>9, <2>2
       DEF Watch, Subscribe, ReadExpired, MarkFails, ListenFails, Wake, PodRestarts
  <2> QED BY <2>1, <2>2
<1>10. ASSUME NEW a \in Agents, Surroundings(a) PROVE EInv'
  <2>1. CASE AgesOut(a)
    <3>1. row' = [row EXCEPT ![a] = [row[a] EXCEPT !.recent = FALSE]]
      BY <2>1 DEF AgesOut
    <3>2. Kept(row')
      BY <1>0, <3>1 DEF Row
    <3> QED BY <1>3, <2>1, <3>2 DEF AgesOut
  <2>2. CASE ~AgesOut(a)
    BY <1>1, <1>10, <2>2
       DEF Surroundings, PutObject, GiveUp, LinkExpires, IngestEnds, RefreshKey, KeyExpires, Switches
  <2> QED BY <2>1, <2>2
<1> QED BY <1>5, <1>6, <1>7, <1>8, <1>9, <1>10

-----------------------------------------------------------------------------
(* The inductive invariant.                                                *)

IInv == Typed /\ UInv /\ EInv

LEMMA InitHolds == ASSUME Init PROVE IInv
<1> USE AgentsAssumption
<1>1. \A t \in Threads : thread[t] = Idle /\ thread[t].op = "idle"
  BY CallKinds DEF Init
<1>2. \A a \in Agents : upload[a] = NoUpload /\ disturbed[a] = {}
  BY DEF Init
<1>3. Typed
  <2>1. CompanyOK
    BY DEF Init, CompanyOK
  <2>2. CallsOK
    BY <1>1, CallKinds DEF Init, CallsOK, AgentCalls
  <2>3. UploadsOK
    BY ObjectsTyped DEF Init, UploadsOK
  <2>4. PresenceOK
    <3>1. <<>> \in Seq(Agents)
      OBVIOUS
    <3>2. \A p \in Pods : watcher[p] = Starting(0)
      BY DEF Init
    <3>3. Starting(0) \in Watchers /\ Starting(0).backlog = <<>> /\ Starting(0).phase = "down"
      BY <3>1 DEF Starting, Watchers, Statuses
    <3> QED BY <3>2, <3>3 DEF Init, PresenceOK
  <2> QED BY <2>1, <2>2, <2>3, <2>4 DEF Typed
<1>4. UInv
  <2>1. ASSUME NEW a \in Agents PROVE UploadInv(a)
    <3>1. Waiting(a) /\ Undisturbed(a)
      BY <1>1, <1>2 DEF Waiting, Undisturbed, NoUpload, LinkCall, UploadCall
    <3> QED BY <1>2, <3>1 DEF UploadInv, NoUpload
  <2>2. \A t \in Threads : KeyInv(t)
    BY <1>1 DEF KeyInv
  <2>3. IngestsAreStored
    BY DEF Init, IngestsAreStored
  <2> QED BY <2>1, <2>2, <2>3 DEF UInv
<1>5. EInv
  <2>1. \A n : Named(n) = {}
    BY DEF Init, Named
  <2>2. \A t \in Threads, n \in Names : ~Enrolling(t, n)
    BY <1>1 DEF Enrolling
  <2>3. \A n \in Names : NameInv(n)
    BY <2>1, <2>2 DEF NameInv
  <2>4. SecretsInv /\ \A t \in Threads : SaveInv(t)
    BY <1>1 DEF Init, SecretsInv, SaveInv, Registrations
  <2> QED BY <2>3, <2>4 DEF EInv
<1> QED BY <1>3, <1>4, <1>5 DEF IInv

LEMMA NextHolds == ASSUME IInv, Next PROVE IInv'
<1> USE AgentsAssumption
<1>0. Typed /\ UInv /\ EInv
  BY DEF IInv
<1>1. CASE Mint \/ Revoke \/ Tick
  <2>1. Typed'
    <3>1. CompanyOK'
      BY <1>0, <1>1 DEF Mint, Revoke, Tick, Typed, CompanyOK, enrolment, company
    <3> QED BY <1>0, <1>1, <3>1, CallsKept, UploadsKept, PresenceKept DEF Mint, Revoke, Tick, Typed
  <2>2. UInv'
    BY <1>0, <1>1, UploadsUnchanged DEF Mint, Revoke, Tick, uploads
  <2> QED BY <1>0, <1>1, <2>1, <2>2, RestEnrols DEF IInv
<1>2. ASSUME NEW t \in Threads, Call(t) PROVE IInv'
  <2>1. CASE \/ \E n \in Names : Verify(t, n)
             \/ FindAgent(t) \/ InsertAgent(t) \/ SaveAgent(t)
    BY <1>0, <2>1, EnrolTyped, EnrolUploads, VerifyEnrols, FindEnrols, InsertEnrols, SaveEnrols
       DEF IInv
  <2>2. CASE StoreStatus(t) \/ \E a \in Agents, report \in Reports : Report(t, a, report)
    BY <1>0, <2>2, StatusTyped, EnrolUploads, RestEnrols DEF IInv
  <2>3. ASSUME NEW a \in Agents, NEW key_ \in Objects \cup {NoObject}, ReportUpload(t, a, key_)
        PROVE  IInv'
    BY <1>0, <2>3, StatusTyped, AskUploads, RestEnrols DEF IInv
  <2>4. ASSUME NEW a \in Agents, NEW file \in Files, GetUploadLink(t, a, file) PROVE IInv'
    BY <1>0, <2>4, LinkTyped, AskUploads, RestEnrols DEF IInv
  <2>5. CASE StartIngest(t) \/ SkipIngest(t)
    BY <1>0, <2>5, IngestTyped, IngestUploads, RestEnrols DEF IInv
  <2>6. CASE StoreLink(t)
    BY <1>0, <2>6, LinkTyped, StoreLinkUploads, RestEnrols DEF IInv
  <2>7. CASE Fails(t)
    BY <1>0, <2>7, LinkTyped, FailsUploads, RestEnrols DEF IInv
  <2> QED BY <1>2, <2>1, <2>2, <2>3, <2>4, <2>5, <2>6, <2>7 DEF Call
<1>3. ASSUME NEW p \in Pods, Watch(p) PROVE IInv'
  <2>1. UInv'
    BY <1>0, <1>3, UploadsUnchanged
       DEF Watch, Subscribe, ReadExpired, MarkOffline, MarkFails, ListenFails, Wake, PodRestarts, uploads
  <2> QED BY <1>0, <1>3, <2>1, WatchTyped, RestEnrols DEF IInv
<1>4. ASSUME NEW a \in Agents, Surroundings(a) PROVE IInv'
  <2>1. HasObjects
    BY <1>0 DEF UInv, UploadInv, HasObjects
  <2> QED BY <1>0, <1>4, <2>1, SurroundingsTyped, SurroundingsUploads, RestEnrols DEF IInv
<1> QED BY <1>1, <1>2, <1>3, <1>4 DEF Next

LEMMA StutterHolds == ASSUME IInv, UNCHANGED vars PROVE IInv'
<1>0. UNCHANGED <<company, row, thread, now, enrolment, uploads, presence>>
  BY DEF vars
<1>1. Typed'
  BY <1>0, CompanyKept, CallsKept, UploadsKept, PresenceKept DEF IInv, Typed
<1>2. UInv'
  BY <1>0, UploadsUnchanged DEF IInv, uploads
<1>3. EInv'
  BY <1>0, EnrolFrame DEF IInv
<1> QED BY <1>1, <1>2, <1>3 DEF IInv

LEMMA Invariance == Spec => []IInv
BY InitHolds, NextHolds, StutterHolds, PTL DEF Spec

-----------------------------------------------------------------------------

(* Whatever the bounds and the faults: every variable of the model of      *)
(* agent.py, internal_auth.py and agent_watcher.py keeps its type.         *)
THEOREM TypeCorrect == Spec => []TypeOK
<1>1. IInv => TypeOK
  BY TypeFromParts DEF IInv, Typed
<1> QED BY <1>1, Invariance, PTL

(* _save_agent keeps one agent for each name and never puts an older       *)
(* secret in the place of the one RegisterAgent answered last, as long as  *)
(* two registrations of the name do not overlap.                           *)
THEOREM EnrolmentsAreKept == Spec => []EnrolmentsHold
<1>1. IInv => EnrolmentsHold
  BY EnrolmentsFromInv DEF IInv
<1> QED BY <1>1, Invariance, PTL

(* UpdateAgentStatus starts ingest workflows only for objects their agent  *)
(* has put, unless Redis lost a link or the agent gave up waiting.         *)
THEOREM OnlyStoredIsIngested == Spec => []IngestsAreStored
<1>1. IInv => IngestsAreStored
  BY DEF IInv, UInv
<1> QED BY <1>1, Invariance, PTL

(* An upload that UpdateAgentStatus answered with success is ingested,     *)
(* unless something went wrong that the answer does not tell.              *)
THEOREM AnsweredIsIngested == Spec => []AnsweredUploadsAreIngested
<1>1. IInv => AnsweredUploadsAreIngested
  BY DEF IInv, UInv, UploadInv, AnsweredUploadsAreIngested
<1> QED BY <1>1, Invariance, PTL
=============================================================================
