------------------------------- MODULE Streams -------------------------------
(***************************************************************************)
(* The event streams of one Brain pod.  StatusBroadcaster keeps a set with *)
(* one queue per open WatchScanStatus or WatchCompanyUpdates stream.  The  *)
(* set belongs to the event loop, which registers and unregisters queues   *)
(* and runs the callbacks that fill them.  Status activities broadcast on  *)
(* the loop.  The calls of the company service run on worker threads: they *)
(* check, commit, read back what they will tell and then iterate over the  *)
(* set while the loop may change it.  Rows are what events are about:      *)
(* scans, and the companies and users of teams.  A row's version counts    *)
(* its commits; a team at 0 does not exist yet.                            *)
(***************************************************************************)
EXTENDS Naturals, SequencesExt

CONSTANTS
  Scans,       \* scans that exist
  Teams,       \* companies and users that exist or may be created
  Views,       \* what a stream may be opened for: all scans, one scan, the
               \* teams of every company (admins) or of one (owners)
  Threads,     \* worker threads, each with one call of the company service
  Streams,     \* clients that may watch; each has one stream at a time
  MaxCommits,  \* bound on the commits of all rows
  MaxBusy,     \* bound on the calls and streams at a time
  Faults       \* what may go wrong, a subset of AllFaults

(* "db": a database call raises; "mail": the mail service does; "cancel":  *)
(* a handler is cancelled while it awaits a worker thread; "restart": the  *)
(* pod dies; "elsewhere": another pod writes a status.                     *)
AllFaults == {"db", "mail", "cancel", "restart", "elsewhere"}

Rows == Scans \cup Teams

ASSUME StreamsAssumption ==
  /\ Scans \cap Teams = {}
  /\ \A v \in Views : v \subseteq Scans \/ v \subseteq Teams
  /\ MaxCommits \in Nat
  /\ IsFiniteSet(Streams)
  /\ Faults \subseteq AllFaults

VARIABLES
  stored,     \* the database: how often each row was committed
  invited,    \* the database: teams with an onboarding invitation
  mailed,     \* teams whose invitation was handed to the mail service
  call,       \* the call each worker thread is busy with
  queues,     \* StatusBroadcaster.queues: the streams whose queue is in it
  callbacks,  \* the loop's ready list: for each queue the events that will
              \* be put, in order (puts into two queues commute)
  queue,      \* the events in each stream's queue
  stream,     \* where the handler of each stream is, and its view
  shown,      \* the last version of each row a stream was sent, 0 for none
  since,      \* history: the versions when the stream registered
  unsaid,     \* history: rows whose latest version not everybody was told
  mishaps     \* history: invited rows whose call met a mishap before its mail

vars == <<stored, invited, mailed, call, queues, callbacks, queue, stream, shown,
          since, unsaid, mishaps>>
watching == <<queues, callbacks, queue, stream, shown, since>>

(* Calls of the company service that broadcast: OnboardCompany and         *)
(* create-user invite somebody, CreateCompany has a user who exists,       *)
(* update-current-company and the changes of a user's role and activation  *)
(* write a row that exists.                                                *)
Creating == {"invite", "create"}
Operations == Creating \cup {"change"}

(* After the commit and until its broadcast ends.                          *)
Told == {"committed", "ready", "telling"}
Stages == Told \cup {"idle", "writing", "mail"}

Versions == Nat

(* The bound on commits is not reached.                                    *)
MayCommit == FoldFunction(+, 0, stored) < MaxCommits

Event == [row : Rows, version : Versions]
Unwatched == [r \in Rows |-> 0]

(* op, row: what the call is about; version: what it tells; left, size: of *)
(* its iterator; disturbed (history): the set changed under the iterator,  *)
(* or another call committed or told the same row meanwhile; alone: the    *)
(* handler was cancelled, the worker thread goes on.                       *)
Idle == [at |-> "idle", op |-> "none", row |-> "none", version |-> 0,
         left |-> {}, size |-> 0, disturbed |-> FALSE, alone |-> FALSE]
Serves(c, at) == [Idle EXCEPT !.at = at, !.op = c.op, !.row = c.row]

(* Another call or stream may begin.                                       *)
MayBegin ==
  Cardinality({t \in Threads : call[t] # Idle}
              \cup {s \in Streams : stream[s].at # "closed"}) < MaxBusy

(***************************************************************************)
(* Type invariant.  It also ties the loop's structures together: the set   *)
(* holds the queues of exactly the streams that registered and have not    *)
(* ended, and callbacks and events exist for those only.                   *)
(***************************************************************************)
CallOK(c) ==
  \/ c = Idle
  \/ /\ c \in [at : Stages \ {"idle"}, op : Operations, row : Teams,
                version : Versions, left : SUBSET Streams, size : Nat,
                disturbed : BOOLEAN, alone : BOOLEAN]
     /\ c.at \in Told \cup {"mail"} => stored[c.row] > 0
     /\ c.at = "mail" => c.op = "invite"

TypeOK ==
  /\ stored \in [Rows -> Versions]
  /\ invited \subseteq Teams /\ mailed \subseteq Teams
  /\ unsaid \subseteq Rows /\ mishaps \subseteq Teams
  /\ \A t \in Threads : CallOK(call[t])
  /\ DOMAIN call = Threads
  /\ stream \in [Streams -> [at : {"closed", "opening", "open"},
                             view : Views \cup {{}}]]
  /\ queues = {s \in Streams : stream[s].at = "open"}
  /\ callbacks \in [Streams -> Seq(Event)]
  /\ queue \in [Streams -> Seq(Event)]
  /\ \A s \in Streams \ queues : queue[s] = <<>> /\ callbacks[s] = <<>>
  /\ shown \in [Streams -> [Rows -> Versions]]
  /\ since \in [Streams -> [Rows -> Versions]]

-----------------------------------------------------------------------------

Init ==
  /\ stored = [r \in Rows |-> 0]
  /\ invited = {} /\ mailed = {}
  /\ call = [t \in Threads |-> Idle]
  /\ queues = {}
  /\ callbacks = [s \in Streams |-> <<>>]
  /\ queue = [s \in Streams |-> <<>>]
  /\ stream = [s \in Streams |-> [at |-> "closed", view |-> {}]]
  /\ shown = [s \in Streams |-> Unwatched]
  /\ since = [s \in Streams |-> Unwatched]
  /\ unsaid = {} /\ mishaps = {}

-----------------------------------------------------------------------------
(* The calls of the company service, on a worker thread. *)

(* A call reads the row first: what is to be created must not exist, what  *)
(* is to be changed must.  Otherwise it is refused at once.                *)
Begin(t, op, r) ==
  /\ call[t] = Idle /\ MayBegin
  /\ MayCommit
  /\ op \in Creating <=> stored[r] = 0
  /\ call' = [call EXCEPT ![t] = Serves([op |-> op, row |-> r], "writing")]
  /\ UNCHANGED <<stored, invited, mailed, watching, unsaid, mishaps>>

(* Calls about the row r whose broadcast has not ended.                    *)
Telling(r) == {u \in Threads : call[u].at \in Told /\ call[u].row = r}

(* The invitation of t's call is stored and not yet with the mail service. *)
Invites(t) == call[t].op = "invite" /\ call[t].at \in Told \cup {"mail"}

(* Names and addresses are unique: of two calls that create the same row   *)
(* the second raises.  Nobody was told of the new version yet.             *)
Commit(t) ==
  /\ call[t].at = "writing"
  /\ LET r == call[t].row IN
     /\ MayCommit
     /\ IF call[t].op \in Creating /\ stored[r] > 0
        THEN /\ call' = [call EXCEPT ![t] = Idle]
             /\ UNCHANGED <<stored, invited, unsaid, mishaps>>
        ELSE /\ stored' = [stored EXCEPT ![r] = @ + 1]
             /\ unsaid' = unsaid \cup {r}
             /\ invited' = IF call[t].op = "invite" THEN invited \cup {r}
                           ELSE invited
             /\ mishaps' = IF call[t].op = "invite" /\ call[t].alone
                           THEN mishaps \cup {r} ELSE mishaps
             /\ call' = [u \in Threads |->
                  IF u = t THEN [call[t] EXCEPT !.at = "committed",
                                   !.disturbed = Telling(r) # {}]
                  ELSE IF u \in Telling(r) THEN [call[u] EXCEPT !.disturbed = TRUE]
                  ELSE call[u]]
  /\ UNCHANGED <<mailed, watching>>

(* The commit expired the row: what will be told is read again.            *)
ReadBack(t) ==
  /\ call[t].at = "committed"
  /\ call' = [call EXCEPT ![t].at = "ready",
                          ![t].version = stored[call[t].row]]
  /\ UNCHANGED <<stored, invited, mailed, watching, unsaid, mishaps>>

(* The iterator of broadcast() finds the size of the set it remembers.     *)
Iterates(t) == call[t].at = "telling" /\ call[t].size = Cardinality(queues)

(* It has no element left; over an empty set there is no iteration that    *)
(* could fail (and without a stream there may be no loop to put on).       *)
AllTold(t) ==
  /\ Iterates(t) \/ (call[t].at = "ready" /\ queues = {})
  /\ call[t].left = {}

(* An error ends the call.  After the commit that means that an invitation *)
(* token is never returned by the thread, and a second attempt refused.    *)
Raises(t) ==
  /\ call' = [call EXCEPT ![t] = Idle]
  /\ UNCHANGED <<stored, invited, mailed, watching, unsaid>>

(* The calls of T meet a mishap.                                           *)
Mishap(T) == mishaps' = mishaps \cup {call[t].row : t \in {u \in T : Invites(u)}}

(* The database fails: before the commit, after it took effect (seen here  *)
(* as an error of the reading back), at the reading back, or when          *)
(* create-user has told everybody and reads the company's name again.      *)
DatabaseFails(t) ==
  /\ "db" \in Faults
  /\ \/ call[t].at \in {"writing", "committed"}
     \/ AllTold(t) /\ call[t].op = "invite"
  /\ Raises(t)
  /\ Mishap({t})

(* The handler is cancelled at its await: by a client that hangs up or     *)
(* whose deadline passes.  A worker thread that has not started never      *)
(* will; one that is running goes on, and nobody takes what it returns,    *)
(* which matters for an invitation.                                        *)
Cancel(t) ==
  /\ "cancel" \in Faults
  /\ \/ /\ call[t].at \in {"writing", "mail"}
        /\ call' = [call EXCEPT ![t] = Idle]
     \/ /\ call[t].at \in {"writing"} \cup Told /\ call[t].op = "invite"
        /\ call' = [call EXCEPT ![t].alone = TRUE]
  /\ Mishap({t})
  /\ UNCHANGED <<stored, invited, mailed, watching, unsaid>>

(* broadcast(): the iterator over the live set remembers its size.         *)
StartTelling(t) ==
  /\ call[t].at = "ready" /\ queues # {}
  /\ call' = [call EXCEPT ![t].at = "telling", ![t].left = queues,
                          ![t].size = Cardinality(queues)]
  /\ UNCHANGED <<stored, invited, mailed, watching, unsaid, mishaps>>

(* Each step of the iterator schedules a put on the loop for a queue.      *)
News(t) == [row |-> call[t].row, version |-> call[t].version]

Tell(t) ==
  /\ Iterates(t)
  /\ \E s \in call[t].left :
       /\ callbacks' = [callbacks EXCEPT ![s] = Append(@, News(t))]
       /\ call' = [call EXCEPT ![t].left = @ \ {s}]
  /\ UNCHANGED <<stored, invited, mailed, queues, queue, stream, shown, since, unsaid, mishaps>>

(* RuntimeError: Set changed size during iteration.                        *)
TellRaises(t) ==
  /\ call[t].at = "telling"
  /\ call[t].size # Cardinality(queues)
  /\ Raises(t)
  /\ UNCHANGED mishaps

(* The thread returns.  Everybody was told of the latest version, unless   *)
(* the call was disturbed.  The handler, unless it was cancelled, writes   *)
(* the audit record, whose failure is logged, and lets a thread mail the   *)
(* invitation, if any.                                                     *)
BrokenEndTelling(t) ==
  /\ AllTold(t)
  /\ unsaid' = IF call[t].disturbed THEN unsaid ELSE unsaid \ {call[t].row}
  /\ call' = [call EXCEPT ![t] = IF @.op = "invite" /\ ~@.alone /\ ~@.disturbed
                                 THEN Serves(@, "mail") ELSE Idle]
  /\ UNCHANGED <<stored, invited, mailed, watching, mishaps>>

EndTelling(t) ==
  /\ AllTold(t)
  /\ unsaid' = IF call[t].disturbed THEN unsaid ELSE unsaid \ {call[t].row}
  /\ call' = [call EXCEPT ![t] = IF @.op = "invite" /\ ~@.alone
                                 THEN Serves(@, "mail") ELSE Idle]
  /\ UNCHANGED <<stored, invited, mailed, watching, mishaps>>

(* The invitation is mailed by a worker thread; a failure is logged.       *)
Mail(t) ==
  /\ call[t].at = "mail"
  /\ call' = [call EXCEPT ![t] = Idle]
  /\ \/ mailed' = mailed \cup {call[t].row} /\ UNCHANGED mishaps
     \/ "mail" \in Faults /\ Mishap({t}) /\ UNCHANGED mailed
  /\ UNCHANGED <<stored, invited, watching, unsaid>>

-----------------------------------------------------------------------------
(* Scan statuses. *)

(* A status activity commits and broadcasts without leaving the loop.      *)
UpdateStatus(x) ==
  /\ MayCommit
  /\ stored' = [stored EXCEPT ![x] = @ + 1]
  /\ callbacks' = [s \in Streams |->
       IF s \in queues
       THEN Append(callbacks[s], [row |-> x, version |-> stored[x] + 1])
       ELSE callbacks[s]]
  /\ unsaid' = unsaid \ {x}
  /\ UNCHANGED <<invited, mailed, call, queues, queue, stream, shown, since, mishaps>>

(* A status is committed and this pod does not broadcast it: an activity   *)
(* on another pod, one that is told its commit failed, StartScan's FAILED. *)
UpdateElsewhere(x) ==
  /\ "elsewhere" \in Faults
  /\ MayCommit
  /\ stored' = [stored EXCEPT ![x] = @ + 1]
  /\ unsaid' = unsaid \cup {x}
  /\ UNCHANGED <<invited, mailed, call, watching, mishaps>>

-----------------------------------------------------------------------------
(* The streams, on the loop. *)

(* The set changes under the iterators over it, which find another size;   *)
(* when it changes back to the size they remember they go on, with the     *)
(* queues of left[t].                                                      *)
Shaken(left) ==
  /\ call' = [t \in Threads |->
                IF call[t].at = "telling"
                THEN [call[t] EXCEPT !.left = left[t], !.disturbed = TRUE]
                ELSE call[t]]
  /\ Mishap({t \in Threads : call[t].at = "telling"})

(* A queue that is added may be yielded, and the set may rehash, so that   *)
(* elements are skipped.  (One may also be yielded twice: the same event   *)
(* again, left out.)                                                       *)
Register(s, v) ==
  /\ queues' = queues \cup {s}
  /\ \E left \in [Threads -> SUBSET queues'] :
       /\ \A t \in Threads : left[t] \subseteq call[t].left \cup {s}
       /\ Shaken(left)
  /\ stream' = [stream EXCEPT ![s] = [at |-> "open", view |-> v]]
  /\ since' = [since EXCEPT ![s] = [r \in Rows |-> IF r \in v THEN stored[r] ELSE 0]]
  /\ UNCHANGED <<stored, invited, mailed, callbacks, queue, shown, unsaid>>

(* WatchScanStatus for one scan checks on a thread that it is the          *)
(* caller's; nothing is registered before the answer.                      *)
WatchScan(s, x) ==
  /\ stream[s].at = "closed" /\ {x} \in Views /\ MayBegin
  /\ stream' = [stream EXCEPT ![s] = [at |-> "opening", view |-> {x}]]
  /\ UNCHANGED <<stored, invited, mailed, call, queues, callbacks, queue, shown,
                 since, unsaid, mishaps>>

Watch(s, v) ==
  \/ /\ stream[s].at = "closed" /\ (\A x \in Scans : v # {x}) /\ MayBegin
     /\ Register(s, v)
  \/ stream[s] = [at |-> "opening", view |-> v] /\ Register(s, v)

(* The client ends its stream, or its request before it is one.  The queue *)
(* is dropped, callbacks that were scheduled for it have no effect.        *)
BrokenClose(s) ==
  /\ stream[s].at # "closed"
  /\ stream' = [stream EXCEPT ![s] = [at |-> "closed", view |-> {}]]
  /\ UNCHANGED <<stored, invited, mailed, call, queues, callbacks, queue, shown,
                 since, unsaid, mishaps>>

Close(s) ==
  /\ stream[s].at # "closed"
  /\ stream' = [stream EXCEPT ![s] = [at |-> "closed", view |-> {}]]
  /\ queues' = queues \ {s}
  /\ IF s \in queues THEN Shaken([t \in Threads |-> call[t].left \ {s}])
                      ELSE UNCHANGED <<call, mishaps>>
  /\ callbacks' = [callbacks EXCEPT ![s] = <<>>]
  /\ queue' = [queue EXCEPT ![s] = <<>>]
  /\ shown' = [shown EXCEPT ![s] = Unwatched]
  /\ since' = [since EXCEPT ![s] = Unwatched]
  /\ UNCHANGED <<stored, invited, mailed, unsaid>>

(* The loop runs the next callback for a queue: q.put_nowait.              *)
BoundedRunCallback(s) ==
  /\ callbacks[s] # <<>>
  /\ queue' = [queue EXCEPT ![s] = IF @ = <<>> THEN <<Head(callbacks[s])>> ELSE @]
  /\ callbacks' = [callbacks EXCEPT ![s] = Tail(@)]
  /\ UNCHANGED <<stored, invited, mailed, call, queues, stream, shown, since, unsaid, mishaps>>

BrokenRunCallback(s) ==
  /\ callbacks[s] # <<>>
  /\ queue' = [queue EXCEPT ![s] = Append(@, Last(callbacks[s]))]
  /\ callbacks' = [callbacks EXCEPT ![s] = Front(@)]
  /\ UNCHANGED <<stored, invited, mailed, call, queues, stream, shown, since, unsaid, mishaps>>

RunCallback(s) ==
  /\ callbacks[s] # <<>>
  /\ queue' = [queue EXCEPT ![s] = Append(@, Head(callbacks[s]))]
  /\ callbacks' = [callbacks EXCEPT ![s] = Tail(@)]
  /\ UNCHANGED <<stored, invited, mailed, call, queues, stream, shown, since, unsaid, mishaps>>

(* q.get() answers and an event of the view is yielded, when the client    *)
(* has taken what was yielded before; another event is skipped.  20        *)
(* seconds without an event yield a HEARTBEAT, which changes nothing here. *)
BrokenTake(s) ==
  /\ queue[s] # <<>>
  /\ LET e == Last(queue[s]) IN
     shown' = IF e.row \in stream[s].view
              THEN [shown EXCEPT ![s][e.row] = e.version] ELSE shown
  /\ queue' = [queue EXCEPT ![s] = Front(@)]
  /\ UNCHANGED <<stored, invited, mailed, call, queues, callbacks, stream, since,
                 unsaid, mishaps>>

Take(s) ==
  /\ queue[s] # <<>>
  /\ LET e == Head(queue[s]) IN
     shown' = IF e.row \in stream[s].view
              THEN [shown EXCEPT ![s][e.row] = e.version] ELSE shown
  /\ queue' = [queue EXCEPT ![s] = Tail(@)]
  /\ UNCHANGED <<stored, invited, mailed, call, queues, callbacks, stream, since,
                 unsaid, mishaps>>

-----------------------------------------------------------------------------

(* The pod dies and comes back: what is stored remains.                    *)
PodDies ==
  /\ "restart" \in Faults
  /\ Mishap(Threads)
  /\ call' = [t \in Threads |-> Idle]
  /\ queues' = {}
  /\ callbacks' = [s \in Streams |-> <<>>]
  /\ queue' = [s \in Streams |-> <<>>]
  /\ stream' = [s \in Streams |-> [at |-> "closed", view |-> {}]]
  /\ shown' = [s \in Streams |-> Unwatched]
  /\ since' = [s \in Streams |-> Unwatched]
  /\ UNCHANGED <<stored, invited, mailed, unsaid>>

-----------------------------------------------------------------------------

ServiceStep(t) ==
  \/ \E op \in Operations, r \in Teams : Begin(t, op, r)
  \/ Commit(t) \/ ReadBack(t) \/ DatabaseFails(t) \/ Cancel(t)
  \/ StartTelling(t) \/ Tell(t) \/ TellRaises(t) \/ EndTelling(t)
  \/ Mail(t)

StreamStep(s) ==
  \/ \E x \in Scans : WatchScan(s, x)
  \/ \E v \in Views : Watch(s, v)
  \/ Close(s) \/ RunCallback(s) \/ Take(s)

Next ==
  \/ \E t \in Threads : ServiceStep(t)
  \/ \E s \in Streams : StreamStep(s)
  \/ \E x \in Scans : UpdateStatus(x) \/ UpdateElsewhere(x)
  \/ PodDies

Spec == Init /\ [][Next]_vars

(* The loop runs its callbacks and handlers, and clients read; nobody must *)
(* ask for a stream, end one or call.                                      *)
Fairness ==
  \A s \in Streams : WF_vars(RunCallback(s)) /\ WF_vars(Take(s))

FairSpec == Spec /\ Fairness

-----------------------------------------------------------------------------
(* Properties. *)

(* Everything that was put for a stream has been taken.                    *)
Drained(s) == queue[s] = <<>> /\ callbacks[s] = <<>>

(* The stream's view has a row that changed since it registered, everybody *)
(* was told of the latest version, and the stream shows another one.       *)
Behind(s, r) ==
  /\ s \in queues /\ r \in stream[s].view /\ r \notin unsaid
  /\ stored[r] # since[s][r] /\ shown[s][r] # stored[r]

(* A stream that has taken everything shows the latest version of each row *)
(* that changed since it registered, unless that version was not told: a   *)
(* change on another pod, an error after the commit, overlapping calls, a  *)
(* set that changed under the iteration.                                   *)
StreamsCatchUp == \A s \in Streams, r \in Rows : Drained(s) => ~Behind(s, r)

(* An open stream is never sent a scan's status after a later one: status  *)
(* activities commit and broadcast in one go, and puts keep their order.   *)
ScansInOrder ==
  [][\A s \in queues \cap queues', x \in Scans : shown[s][x] <= shown'[s][x]]_vars

(* An invited row whose call is over was mailed its invitation, unless one *)
(* of these happened to the call after its commit: a database call raised, *)
(* the mail service did, a stream was opened or closed while the call was  *)
(* broadcasting, its handler was cancelled (then, or before while the      *)
(* thread went on to commit), or the pod died.  The history records these  *)
(* events, whatever the code makes of them; an earlier disturbance, as of  *)
(* another call or stream, is no excuse.                                   *)
AtWork(r) == \E t \in Threads : Invites(t) /\ call[t].row = r

InvitationsAreMailed ==
  \A r \in invited : AtWork(r) \/ r \in mailed \cup mishaps

(* "A one-time first-login invitation token ... is generated, hashed in    *)
(* PostgreSQL, stored with an expiration date, and sent by email."         *)
(* (docs/en/workflows.md): when no fault occurs, every stored invitation   *)
(* is mailed in the end.                                                   *)
InvitationsAreSent ==
  Faults = {} => \A r \in invited : AtWork(r) \/ r \in mailed

(* A stream that is behind catches up, unless it ends or the row changes   *)
(* again without everybody being told.                                     *)
StreamsHear == \A s \in Streams, r \in Rows : Behind(s, r) ~> ~Behind(s, r)
=============================================================================
