---------------------------- MODULE StreamsProofs ----------------------------
(***************************************************************************)
(* Proofs about Streams.                                                   *)
(***************************************************************************)
EXTENDS Streams, SequenceTheorems, FiniteSetTheorems, TLAPS

(* A change of the set touches the iterators only.                         *)
LEMMA ShakenCalls ==
  ASSUME TypeOK, NEW left \in [Threads -> SUBSET Streams], Shaken(left)
  PROVE  /\ DOMAIN call' = Threads
         /\ \A t \in Threads :
              \/ call'[t] = call[t] /\ call[t].at # "telling"
              \/ /\ call[t].at = "telling"
                 /\ call'[t] = [call[t] EXCEPT !.left = left[t], !.disturbed = TRUE]
BY DEF Shaken

(* The record of a call at work.                                           *)
Working == [at : Stages \ {"idle"}, op : Operations, row : Teams,
            version : Versions, left : SUBSET Streams, size : Nat,
            disturbed : BOOLEAN, alone : BOOLEAN]

LEMMA CallFields ==
  ASSUME NEW c, CallOK(c), c.at # "idle"
  PROVE  /\ c \in Working
         /\ c.at \in Told \cup {"mail"} => stored[c.row] > 0
         /\ c.at = "mail" => c.op = "invite"
BY DEF CallOK, Idle, Working

LEMMA FieldsSuffice ==
  ASSUME NEW c \in Working, c.at \in Told => stored[c.row] > 0, c.at # "mail"
  PROVE  CallOK(c)
BY DEF CallOK, Working

LEMMA IdleOK == CallOK(Idle) /\ Idle.at = "idle"
BY DEF CallOK, Idle

-----------------------------------------------------------------------------
(* Type correctness. *)

CallsOK == DOMAIN call = Threads /\ \A t \in Threads : CallOK(call[t])

LEMMA CallChanges ==
  ASSUME TypeOK, NEW t \in Threads, NEW c, CallOK(c),
         call' = [call EXCEPT ![t] = c], stored' = stored
  PROVE  CallsOK'
BY DEF TypeOK, CallOK, CallsOK

LEMMA CallsShaken ==
  ASSUME TypeOK, NEW left \in [Threads -> SUBSET Streams], Shaken(left), stored' = stored
  PROVE  CallsOK'
<1>1. DOMAIN call' = Threads
  BY ShakenCalls
<1>2. ASSUME NEW t \in Threads PROVE CallOK(call[t])'
  <2>1. CASE call'[t] = call[t]
    BY <2>1 DEF TypeOK, CallOK
  <2>2. CASE /\ call[t].at = "telling"
             /\ call'[t] = [call[t] EXCEPT !.left = left[t], !.disturbed = TRUE]
    <3>2. CallOK(call[t]) /\ call[t].at # "idle"
      BY <2>2 DEF TypeOK
    <3>3. call[t] \in Working /\ stored[call[t].row] > 0
      BY <2>2, <3>2, CallFields DEF Told
    <3>4. call'[t] \in Working /\ call'[t].at = "telling" /\ call'[t].row = call[t].row
      BY <2>2, <3>3 DEF Working
    <3> QED BY <3>3, <3>4 DEF CallOK, Working
  <2> QED BY <2>1, <2>2, ShakenCalls
<1> QED BY <1>1, <1>2 DEF CallsOK

(* An iterator over the set yields queues that are in the set.             *)
Iterators == \A t \in Threads : call[t].at = "telling" => call[t].left \subseteq queues

(* Rows and histories, and what the loop keeps for each stream.            *)
RowsOK ==
  /\ stored \in [Rows -> Versions]
  /\ invited \subseteq Teams /\ mailed \subseteq Teams
  /\ unsaid \subseteq Rows /\ mishaps \subseteq Teams

StreamsOK ==
  /\ stream \in [Streams -> [at : {"closed", "opening", "open"},
                             view : Views \cup {{}}]]
  /\ queues = {s \in Streams : stream[s].at = "open"}
  /\ callbacks \in [Streams -> Seq(Event)]
  /\ queue \in [Streams -> Seq(Event)]
  /\ \A s \in Streams \ queues : queue[s] = <<>> /\ callbacks[s] = <<>>
  /\ shown \in [Streams -> [Rows -> Versions]]
  /\ since \in [Streams -> [Rows -> Versions]]

LEMMA TypeParts == TypeOK => RowsOK /\ StreamsOK /\ CallsOK
BY DEF TypeOK, RowsOK, StreamsOK, CallsOK

LEMMA TypeFromParts == RowsOK' /\ StreamsOK' /\ CallsOK' => TypeOK'
BY DEF TypeOK, RowsOK, StreamsOK, CallsOK

LEMMA RowsKept ==
  ASSUME RowsOK, UNCHANGED <<stored, invited, mailed, unsaid, mishaps>> PROVE RowsOK'
BY DEF RowsOK

LEMMA MishapOK ==
  ASSUME TypeOK, NEW T \in SUBSET Threads, Mishap(T),
         UNCHANGED <<stored, invited, mailed, unsaid>>
  PROVE  RowsOK'
<1>1. ASSUME NEW t \in T, Invites(t) PROVE call[t].row \in Teams
  BY <1>1, CallFields DEF TypeOK, Invites, Told, Working
<1>2. mishaps' \subseteq Teams
  BY <1>1 DEF Mishap, TypeOK
<1> QED BY <1>2 DEF TypeOK, RowsOK

LEMMA StreamsKept == ASSUME StreamsOK, UNCHANGED watching PROVE StreamsOK'
BY DEF StreamsOK, watching

LEMMA SizeIsNat == ASSUME TypeOK PROVE Cardinality(queues) \in Nat
BY FS_Subset, FS_CardinalityType, StreamsAssumption DEF TypeOK

LEMMA PutOK ==
  ASSUME NEW s \in Streams, NEW e \in Event,
         callbacks' = [callbacks EXCEPT ![s] = Append(@, e)], StreamsOK, s \in queues,
         UNCHANGED <<queues, queue, stream, shown, since>>
  PROVE  StreamsOK'
<1>1. Append(callbacks[s], e) \in Seq(Event)
  BY DEF StreamsOK
<1> QED BY <1>1 DEF StreamsOK

LEMMA ServiceTypeOK ==
  ASSUME TypeOK, Iterators, NEW t \in Threads, ServiceStep(t)
  PROVE  TypeOK'
<1> USE TypeParts, TypeFromParts, StreamsKept, RowsKept
<1>t. CallOK(call[t])
  BY DEF TypeOK
<1>1. ASSUME NEW op \in Operations, NEW r \in Teams, Begin(t, op, r) PROVE TypeOK'
  <2>1. CallOK(Serves([op |-> op, row |-> r], "writing"))
    BY DEF CallOK, Serves, Idle, Stages, Told, Versions
  <2>2. CallsOK'
    BY <1>1, <2>1, CallChanges DEF Begin
  <2> QED BY <1>1, <2>2 DEF Begin
<1>2. CASE Commit(t)
  <2>1. CallOK(call[t]) /\ call[t].at # "idle" /\ call[t].row \in Teams
    BY <1>2, <1>t, CallFields DEF Commit, Working
  <2>2. CASE call' = [call EXCEPT ![t] = Idle] /\ UNCHANGED <<stored, invited, unsaid, mishaps>>
    <3>1. CallsOK'
      BY <2>2, IdleOK, CallChanges
    <3> QED BY <1>2, <2>2, <3>1 DEF Commit
  <2> DEFINE r == call[t].row
  <2>3. CASE /\ stored' = [stored EXCEPT ![r] = @ + 1]
             /\ unsaid' = unsaid \cup {r}
             /\ invited' \subseteq invited \cup {r} /\ mishaps' \subseteq mishaps \cup {r}
             /\ call' = [u \in Threads |->
                  IF u = t THEN [call[t] EXCEPT !.at = "committed",
                                   !.disturbed = Telling(r) # {}]
                  ELSE IF u \in Telling(r) THEN [call[u] EXCEPT !.disturbed = TRUE]
                  ELSE call[u]]
    <3>1. /\ stored' \in [Rows -> Versions] /\ stored'[r] > 0
          /\ \A x \in Rows : stored[x] > 0 => stored'[x] > 0
      <4>1. stored \in [Rows -> Nat] /\ r \in Rows
        BY <2>1 DEF RowsOK, Rows, Versions
      <4>2. stored' = [stored EXCEPT ![r] = @ + 1]
        BY <2>3
      <4> HIDE DEF r
      <4> QED BY <4>1, <4>2 DEF Versions
    <3>2. ASSUME NEW u \in Threads PROVE CallOK(call[u])'
      <4>1. CASE u = t
        <5>1. call[t] \in Working
          BY <2>1, CallFields
        <5>2. call'[u] \in Working /\ call'[u].row = r /\ call'[u].at = "committed"
          BY <2>3, <4>1, <5>1 DEF Working, Stages, Told
        <5> QED BY <3>1, <5>2 DEF CallOK, Working
      <4>2. CASE u # t /\ u \in Telling(r)
        <5>1. CallOK(call[u]) /\ call[u].at # "idle"
          BY <4>2 DEF TypeOK, Telling, Told
        <5>2. call[u] \in Working /\ call[u].row = r /\ call[u].at \in Told
          BY <4>2, <5>1, CallFields DEF Telling
        <5>3. call'[u] \in Working /\ call'[u].row = r /\ call'[u].at \in Told
          BY <2>3, <4>2, <5>2 DEF Working
        <5> QED BY <3>1, <5>3 DEF CallOK, Working, Told
      <4>3. CASE u # t /\ u \notin Telling(r)
        BY <2>3, <3>1, <4>3 DEF TypeOK, CallOK, Rows
      <4> QED BY <4>1, <4>2, <4>3
    <3>3. CallsOK'
      BY <2>3, <3>2 DEF CallsOK
    <3>4. RowsOK'
      BY <1>2, <2>1, <2>3, <3>1 DEF Commit, RowsOK, Rows
    <3> QED BY <1>2, <3>3, <3>4 DEF Commit
  <2> QED BY <1>2, <2>2, <2>3 DEF Commit
<1>3. CASE ReadBack(t)
  <2> DEFINE c == [call[t] EXCEPT !.at = "ready", !.version = stored[call[t].row]]
  <2>1. CallOK(c)
    <3>1. call[t] \in Working /\ stored[call[t].row] > 0
      BY <1>3, <1>t, CallFields DEF ReadBack, Told
    <3>2. stored[call[t].row] \in Versions
      BY <3>1 DEF Working, RowsOK, Rows
    <3>3. c \in Working /\ c.at = "ready" /\ c.row = call[t].row
      BY <3>1, <3>2 DEF Working, Stages, Told
    <3> QED BY <3>1, <3>3, FieldsSuffice
  <2>2. call' = [call EXCEPT ![t] = c]
    BY <1>3 DEF ReadBack
  <2>3. CallsOK'
    BY <1>3, <2>1, <2>2, CallChanges DEF ReadBack
  <2> QED BY <1>3, <2>3 DEF ReadBack
<1>4. ASSUME Raises(t), RowsOK' PROVE TypeOK'
  <2>1. CallsOK'
    BY <1>4, IdleOK, CallChanges DEF Raises
  <2> QED BY <1>4, <2>1 DEF Raises
<1>5. CASE DatabaseFails(t)
  BY <1>4, <1>5, MishapOK DEF DatabaseFails, Raises
<1>6. CASE StartTelling(t)
  <2> DEFINE c == [call[t] EXCEPT !.at = "telling", !.left = queues,
                                  !.size = Cardinality(queues)]
  <2>1. queues \in SUBSET Streams
    BY DEF StreamsOK
  <2>2. call[t] \in Working /\ stored[call[t].row] > 0
    BY <1>6, <1>t, CallFields DEF StartTelling, Told
  <2>3. c \in Working /\ c.at = "telling" /\ c.row = call[t].row
    BY <2>1, <2>2, SizeIsNat DEF Working, Stages, Told
  <2>4. CallOK(c)
    BY <2>2, <2>3, FieldsSuffice
  <2>5. call' = [call EXCEPT ![t] = c]
    BY <1>6 DEF StartTelling
  <2>6. CallsOK'
    BY <1>6, <2>4, <2>5, CallChanges DEF StartTelling
  <2> QED BY <1>6, <2>6 DEF StartTelling
<1>7. CASE Tell(t)
  <2>1. PICK s \in call[t].left :
          /\ callbacks' = [callbacks EXCEPT ![s] = Append(@, News(t))]
          /\ call' = [call EXCEPT ![t].left = @ \ {s}]
    BY <1>7 DEF Tell
  <2>2. call[t] \in Working /\ stored[call[t].row] > 0 /\ call[t].at = "telling"
    BY <1>7, <1>t, CallFields DEF Tell, Iterates, Told
  <2>3. s \in queues /\ s \in Streams
    BY <2>2 DEF Iterators, Working
  <2>4. News(t) \in Event
    BY <2>2 DEF News, Event, Working, Rows
  <2>5. StreamsOK'
    BY <1>7, <2>1, <2>3, <2>4, PutOK DEF Tell
  <2> DEFINE c == [call[t] EXCEPT !.left = @ \ {s}]
  <2>6. c \in Working /\ c.at = "telling" /\ c.row = call[t].row
    BY <2>2 DEF Working
  <2>7. CallOK(c) /\ call' = [call EXCEPT ![t] = c]
    BY <2>1, <2>2, <2>6, FieldsSuffice
  <2>8. CallsOK'
    BY <1>7, <2>7, CallChanges DEF Tell
  <2> QED BY <1>7, <2>5, <2>8 DEF Tell
<1>8. CASE TellRaises(t)
  BY <1>4, <1>8 DEF TellRaises, Raises
<1>9. CASE EndTelling(t)
  <2>1. call[t].row \in Teams /\ call[t].at \in Told /\ stored[call[t].row] > 0
    BY <1>9, <1>t, CallFields DEF EndTelling, AllTold, Iterates, Told, Working
  <2>2. call[t].op = "invite" => CallOK(Serves(call[t], "mail"))
    BY <2>1 DEF CallOK, Serves, Idle, Stages, Told, Operations, Creating, Versions
  <2> DEFINE c == IF call[t].op = "invite" /\ ~call[t].alone
                  THEN Serves(call[t], "mail") ELSE Idle
  <2>3. CallOK(c) /\ call' = [call EXCEPT ![t] = c]
    BY <1>9, <2>2, IdleOK DEF EndTelling
  <2>4. CallsOK'
    BY <1>9, <2>3, CallChanges DEF EndTelling
  <2>5. RowsOK'
    BY <1>9 DEF EndTelling, RowsOK
  <2> QED BY <1>9, <2>4, <2>5 DEF EndTelling
<1>10. CASE Mail(t)
  <2>1. call[t].row \in Teams
    BY <1>10, <1>t, CallFields DEF Mail, Working
  <2>2. CallsOK'
    BY <1>10, IdleOK, CallChanges DEF Mail
  <2>3. Invites(t) => call[t].row \in Teams
    BY <2>1
  <2>4. RowsOK'
    BY <1>10, <2>1, <2>3 DEF Mail, Mishap, RowsOK
  <2> QED BY <1>10, <2>2, <2>4 DEF Mail
<1>11. CASE Cancel(t)
  <2>1. CASE call' = [call EXCEPT ![t] = Idle]
    BY <1>11, <2>1, IdleOK, CallChanges, MishapOK DEF Cancel
  <2> DEFINE c == [call[t] EXCEPT !.alone = TRUE]
  <2>2. CASE call[t].at \in {"writing"} \cup Told /\ call' = [call EXCEPT ![t] = c]
    <3>1. call[t] \in Working /\ call[t].at # "mail" /\ (call[t].at \in Told => stored[call[t].row] > 0)
      BY <1>t, <2>2, CallFields DEF Told
    <3>2. c \in Working /\ c.at = call[t].at /\ c.row = call[t].row
      BY <3>1 DEF Working
    <3>3. CallOK(c)
      BY <3>1, <3>2, FieldsSuffice
    <3> QED BY <1>11, <2>2, <3>3, CallChanges, MishapOK DEF Cancel
  <2> QED BY <1>11, <2>1, <2>2 DEF Cancel
<1> QED BY <1>1, <1>2, <1>3, <1>5, <1>6, <1>7, <1>8, <1>9, <1>10, <1>11 DEF ServiceStep

LEMMA StreamTypeOK ==
  ASSUME TypeOK, NEW s \in Streams, StreamStep(s)
  PROVE  TypeOK'
<1> USE TypeParts, TypeFromParts, RowsKept
<1>1. ASSUME NEW x \in Scans, WatchScan(s, x) PROVE TypeOK'
  <2>1. StreamsOK'
    BY <1>1 DEF WatchScan, StreamsOK
  <2>2. CallsOK'
    BY <1>1 DEF WatchScan, CallsOK, CallOK
  <2> QED BY <1>1, <2>1, <2>2 DEF WatchScan
<1>2. ASSUME NEW v \in Views, Register(s, v) PROVE TypeOK'
  <2>1. queues' \in SUBSET Streams
    BY <1>2 DEF Register, StreamsOK
  <2>2. CallsOK'
    <3>1. PICK left \in [Threads -> SUBSET queues'] : Shaken(left)
      BY <1>2 DEF Register
    <3>2. left \in [Threads -> SUBSET Streams]
      BY <2>1
    <3> QED BY <1>2, <3>1, <3>2, CallsShaken DEF Register
  <2>r. RowsOK'
    BY <1>2, MishapOK DEF Register, Shaken
  <2>3. [r \in Rows |-> IF r \in v THEN stored[r] ELSE 0] \in [Rows -> Versions]
    BY DEF RowsOK, Versions
  <2>4. since' \in [Streams -> [Rows -> Versions]]
    BY <1>2, <2>3 DEF Register, StreamsOK
  <2>5. /\ stream' \in [Streams -> [at : {"closed", "opening", "open"}, view : Views \cup {{}}]]
        /\ queues' = {u \in Streams : stream'[u].at = "open"}
    BY <1>2 DEF Register, StreamsOK
  <2>6. StreamsOK'
    BY <1>2, <2>4, <2>5 DEF Register, StreamsOK
  <2> QED BY <2>r, <2>2, <2>6
<1>3. CASE Close(s)
  <2>1. queues' \in SUBSET Streams
    BY <1>3 DEF Close, StreamsOK
  <2>2. CallsOK'
    <3> DEFINE left == [t \in Threads |-> call[t].left \ {s}]
    <3>0. ASSUME NEW t \in Threads PROVE call[t].left \subseteq Streams
      <4>1. CallOK(call[t]) /\ (call[t].at = "idle" => call[t] = Idle)
        BY DEF TypeOK, CallOK, Stages
      <4> QED BY <4>1, CallFields DEF Working, Idle
    <3>1. CASE Shaken(left)
      BY <1>3, <3>0, <3>1, CallsShaken DEF Close
    <3>2. CASE UNCHANGED call
      BY <1>3, <3>2 DEF Close, CallsOK, CallOK
    <3> QED BY <1>3, <3>1, <3>2 DEF Close
  <2>r. RowsOK'
    BY <1>3, MishapOK DEF Close, Shaken
  <2>3. /\ stream' \in [Streams -> [at : {"closed", "opening", "open"}, view : Views \cup {{}}]]
        /\ queues' = {u \in Streams : stream'[u].at = "open"}
    BY <1>3 DEF Close, StreamsOK
  <2>4. Unwatched \in [Rows -> Versions]
    BY DEF Unwatched, Versions
  <2>5. /\ shown' \in [Streams -> [Rows -> Versions]]
        /\ since' \in [Streams -> [Rows -> Versions]]
    BY <1>3, <2>4 DEF Close, StreamsOK
  <2>6. <<>> \in Seq(Event)
    OBVIOUS
  <2>7. /\ callbacks' \in [Streams -> Seq(Event)]
        /\ queue' \in [Streams -> Seq(Event)]
    BY <1>3, <2>6 DEF Close, StreamsOK
  <2>8. \A u \in Streams \ queues' : queue'[u] = <<>> /\ callbacks'[u] = <<>>
    BY <1>3 DEF Close, StreamsOK
  <2>9. StreamsOK'
    BY <2>3, <2>5, <2>7, <2>8 DEF StreamsOK
  <2> QED BY <2>r, <2>2, <2>9
<1>4. CASE RunCallback(s)
  <2>1. callbacks[s] \in Seq(Event) /\ queue[s] \in Seq(Event) /\ callbacks[s] # <<>>
    BY <1>4 DEF RunCallback, StreamsOK
  <2>2. Tail(callbacks[s]) \in Seq(Event) /\ Append(queue[s], Head(callbacks[s])) \in Seq(Event)
    BY <2>1
  <2>3. s \in queues
    BY <2>1 DEF StreamsOK
  <2>4. StreamsOK'
    BY <1>4, <2>2, <2>3 DEF RunCallback, StreamsOK
  <2>5. CallsOK'
    BY <1>4 DEF RunCallback, CallsOK, CallOK
  <2> QED BY <1>4, <2>4, <2>5 DEF RunCallback
<1>5. CASE Take(s)
  <2>1. queue[s] \in Seq(Event) /\ queue[s] # <<>>
    BY <1>5 DEF Take, StreamsOK
  <2>2. Tail(queue[s]) \in Seq(Event) /\ Head(queue[s]) \in Event
    BY <2>1
  <2>3. s \in queues
    BY <2>1 DEF StreamsOK
  <2>4. shown' \in [Streams -> [Rows -> Versions]]
    BY <1>5, <2>2 DEF Take, StreamsOK, Event
  <2>5. StreamsOK'
    BY <1>5, <2>2, <2>3, <2>4 DEF Take, StreamsOK
  <2>6. CallsOK'
    BY <1>5 DEF Take, CallsOK, CallOK
  <2> QED BY <1>5, <2>5, <2>6 DEF Take
<1> QED BY <1>1, <1>2, <1>3, <1>4, <1>5 DEF StreamStep, Watch

LEMMA ScanTypeOK ==
  ASSUME TypeOK, NEW x \in Scans, UpdateStatus(x) \/ UpdateElsewhere(x)
  PROVE  TypeOK'
<1> USE TypeParts, TypeFromParts, StreamsKept
<1>1. /\ stored \in [Rows -> Nat] /\ x \in Rows
      /\ stored' = [stored EXCEPT ![x] = @ + 1]
  BY DEF UpdateStatus, UpdateElsewhere, RowsOK, Rows, Versions
<1>2. stored' \in [Rows -> Nat] /\ \A r \in Rows : stored[r] > 0 => stored'[r] > 0
  BY <1>1
<1>3. RowsOK'
  BY <1>1, <1>2 DEF UpdateStatus, UpdateElsewhere, RowsOK, Versions
<1>4. CallsOK'
  <2>1. ASSUME NEW t \in Threads PROVE CallOK(call[t])'
    <3>1. CASE call[t].at = "idle"
      BY <3>1 DEF UpdateStatus, UpdateElsewhere, CallsOK, CallOK, Told
    <3>2. CASE call[t].at # "idle"
      <4>1. CallOK(call[t]) /\ call' = call
        BY DEF UpdateStatus, UpdateElsewhere, CallsOK, watching
      <4>2. /\ call[t] \in Working
            /\ call[t].at \in Told \cup {"mail"} => stored[call[t].row] > 0
            /\ call[t].at = "mail" => call[t].op = "invite"
        BY <3>2, <4>1, CallFields
      <4> QED BY <1>2, <4>1, <4>2 DEF CallOK, Working, Rows
    <3> QED BY <3>1, <3>2
  <2> QED BY <2>1 DEF UpdateStatus, UpdateElsewhere, CallsOK, watching
<1>5. CASE UpdateStatus(x)
  <2>1. [row |-> x, version |-> stored[x] + 1] \in Event
    BY <1>1 DEF Event, Versions
  <2>2. callbacks' \in [Streams -> Seq(Event)]
    BY <1>5, <2>1 DEF UpdateStatus, StreamsOK
  <2>3. StreamsOK'
    BY <1>5, <2>2 DEF UpdateStatus, StreamsOK
  <2> QED BY <1>3, <1>4, <2>3
<1> QED BY <1>3, <1>4, <1>5 DEF UpdateElsewhere

LEMMA PodDiesTypeOK ==
  ASSUME TypeOK, PodDies PROVE TypeOK' /\ Iterators'
<1>1. RowsOK'
  BY MishapOK DEF PodDies
<1>2. Unwatched \in [Rows -> Versions] /\ <<>> \in Seq(Event)
  BY DEF Unwatched, Versions
<1>3. StreamsOK'
  BY <1>2 DEF PodDies, StreamsOK
<1>4. CallsOK'
  BY DEF PodDies, CallsOK, CallOK, Idle
<1>5. Iterators'
  BY IdleOK DEF PodDies, Iterators
<1> QED BY <1>1, <1>3, <1>4, <1>5, TypeFromParts

LEMMA IteratorsKept ==
  ASSUME TypeOK, Iterators, Next PROVE Iterators'
<1> USE TypeParts
<1>1. ASSUME NEW t \in Threads, ServiceStep(t) PROVE Iterators'
  <2>1. queues' = queues
    BY <1>1 DEF ServiceStep, Begin, Commit, ReadBack, DatabaseFails, Raises, StartTelling,
         Tell, TellRaises, EndTelling, Mail, Cancel, watching
  <2>2. ASSUME NEW u \in Threads, call'[u].at = "telling" PROVE call'[u].left \subseteq queues
    <3>1. CASE call'[u] = call[u]
      BY <2>2, <3>1 DEF Iterators
    <3>2. CASE u # t
      <4>1. \/ call'[u] = call[u]
            \/ call'[u] = [call[u] EXCEPT !.disturbed = TRUE] /\ u \in Telling(call[t].row)
        BY <1>1, <3>2 DEF ServiceStep, Begin, Commit, ReadBack, DatabaseFails, Raises,
             StartTelling, Tell, TellRaises, EndTelling, Mail, Cancel, CallsOK
      <4>2. CASE call'[u] = [call[u] EXCEPT !.disturbed = TRUE] /\ u \in Telling(call[t].row)
        <5>1. call[u] \in Working
          BY <4>2, CallFields DEF CallsOK, Telling, Told
        <5> QED BY <2>2, <4>2, <5>1 DEF Iterators, Working
      <4> QED BY <3>1, <4>1, <4>2
    <3>3. CASE u = t
      <4>1. CASE StartTelling(t)
        <5>1. call[t] \in Working
          BY <4>1, CallFields DEF CallsOK, StartTelling
        <5> QED BY <3>3, <4>1, <5>1 DEF StartTelling, CallsOK, Working
      <4>2. CASE Tell(t)
        <5>1. call[t] \in Working /\ call[t].at = "telling"
          BY <4>2, CallFields DEF CallsOK, Tell, Iterates
        <5> QED BY <3>3, <4>2, <5>1 DEF Tell, CallsOK, Working, Iterators
      <4>3. CASE Commit(t) \/ ReadBack(t)
        <5>1. call[t] \in Working
          BY <4>3, CallFields DEF CallsOK, Commit, ReadBack
        <5>2. call'[t].at \in {"committed", "ready", "idle"}
          <6>1. CASE ReadBack(t)
            BY <5>1, <6>1 DEF ReadBack, CallsOK, Working
          <6>2. CASE Commit(t)
            <7>1. \/ call' = [call EXCEPT ![t] = Idle]
                  \/ \E b : call'[t] = [call[t] EXCEPT !.at = "committed", !.disturbed = b]
              BY <6>2 DEF Commit
            <7>2. CASE call' = [call EXCEPT ![t] = Idle]
              BY <7>2, IdleOK DEF CallsOK
            <7>3. ASSUME NEW b, call'[t] = [call[t] EXCEPT !.at = "committed", !.disturbed = b]
                  PROVE  call'[t].at = "committed"
              BY <5>1, <7>3 DEF Working
            <7> QED BY <7>1, <7>2, <7>3
          <6> QED BY <4>3, <6>1, <6>2
        <5> QED BY <2>2, <3>3, <5>2
      <4>4. ASSUME NEW op \in Operations, NEW r \in Teams, Begin(t, op, r)
            PROVE call'[t].at = "writing"
        BY <4>4 DEF Begin, CallsOK, Serves, Idle
      <4>5. CASE DatabaseFails(t) \/ TellRaises(t) \/ Mail(t)
        <5>1. call'[t] = Idle
          BY <4>5 DEF DatabaseFails, Raises, TellRaises, Mail, CallsOK
        <5> QED BY <2>2, <3>3, <5>1 DEF Idle
      <4>6. CASE EndTelling(t)
        BY <2>2, <3>3, <4>6 DEF EndTelling, CallsOK, Serves, Idle
      <4>7. CASE Cancel(t)
        <5>1. CASE call' = [call EXCEPT ![t] = Idle]
          BY <2>2, <3>3, <5>1, IdleOK DEF CallsOK
        <5>2. CASE call[t].at # "idle" /\ call' = [call EXCEPT ![t].alone = TRUE]
          <6>1. call[t] \in Working
            BY <5>2, CallFields DEF CallsOK
          <6> QED BY <2>2, <3>3, <5>2, <6>1 DEF CallsOK, Working, Iterators
        <5> QED BY <4>7, <5>1, <5>2 DEF Cancel, Told
      <4> QED BY <1>1, <2>2, <3>3, <4>1, <4>2, <4>3, <4>4, <4>5, <4>6, <4>7 DEF ServiceStep
    <3> QED BY <3>2, <3>3
  <2> QED BY <2>1, <2>2 DEF Iterators
<1>2. ASSUME NEW left, Shaken(left),
             \A t \in Threads : call[t].at = "telling" => left[t] \subseteq queues'
      PROVE  Iterators'
  <2>1. ASSUME NEW u \in Threads, call'[u].at = "telling" PROVE call'[u].left \subseteq queues'
    <3>1. call'[u] = IF call[u].at = "telling"
                     THEN [call[u] EXCEPT !.left = left[u], !.disturbed = TRUE] ELSE call[u]
      BY <1>2 DEF Shaken
    <3>2. call[u].at = "telling"
      BY <2>1, <3>1
    <3>3. call[u] \in Working
      BY <3>2, CallFields DEF CallsOK
    <3> QED BY <1>2, <3>1, <3>2, <3>3 DEF Working
  <2> QED BY <2>1 DEF Iterators
<1>3. CASE UNCHANGED call /\ UNCHANGED queues
  BY <1>3 DEF Iterators
<1>4. ASSUME NEW s \in Streams, StreamStep(s) PROVE Iterators'
  <2>1. ASSUME NEW v, Register(s, v) PROVE Iterators'
    <3>1. PICK left \in [Threads -> SUBSET queues'] : Shaken(left)
      BY <2>1 DEF Register
    <3>2. \A t \in Threads : left[t] \subseteq queues'
      BY <3>1
    <3> QED BY <1>2, <3>1, <3>2
  <2>2. CASE Close(s) /\ s \in queues
    <3> DEFINE left == [t \in Threads |-> call[t].left \ {s}]
    <3>1. Shaken(left)
      BY <2>2 DEF Close
    <3>2. \A t \in Threads : call[t].at = "telling" => left[t] \subseteq queues'
      BY <2>2 DEF Close, Iterators
    <3> HIDE DEF left
    <3> QED BY <1>2, <3>1, <3>2
  <2>3. CASE Close(s) /\ s \notin queues
    BY <1>3, <2>3 DEF Close
  <2> QED BY <1>3, <1>4, <2>1, <2>2, <2>3
        DEF StreamStep, WatchScan, Watch, RunCallback, Take
<1>5. ASSUME NEW x \in Scans, UpdateStatus(x) \/ UpdateElsewhere(x) PROVE Iterators'
  BY <1>3, <1>5 DEF UpdateStatus, UpdateElsewhere, watching
<1> QED BY <1>1, <1>4, <1>5, PodDiesTypeOK DEF Next

LEMMA InitTypeOK == Init => TypeOK /\ Iterators
<1> SUFFICES ASSUME Init PROVE TypeOK /\ Iterators
  OBVIOUS
<1>1. Unwatched \in [Rows -> Versions] /\ <<>> \in Seq(Event)
  BY DEF Unwatched, Versions
<1>2. TypeOK
  BY <1>1, IdleOK DEF Init, TypeOK, Versions
<1>3. Iterators
  BY DEF Init, Iterators, Idle
<1> QED BY <1>2, <1>3

LEMMA NextTypeOK ==
  ASSUME TypeOK, Iterators, [Next]_vars PROVE TypeOK' /\ Iterators'
<1>1. CASE Next
  BY <1>1, ServiceTypeOK, StreamTypeOK, ScanTypeOK, PodDiesTypeOK, IteratorsKept DEF Next
<1>2. CASE UNCHANGED vars
  <2>1. RowsOK' /\ StreamsOK'
    BY <1>2, TypeParts, RowsKept, StreamsKept DEF vars, watching
  <2>2. CallsOK'
    BY <1>2, TypeParts DEF vars, CallsOK, CallOK
  <2>3. Iterators'
    BY <1>2 DEF vars, Iterators
  <2> QED BY <2>1, <2>2, <2>3, TypeFromParts
<1> QED BY <1>1, <1>2

(* Every reachable state is well typed, for any number of threads and      *)
(* streams: what the loop keeps for a stream is there for exactly the      *)
(* streams that registered and have not ended.                             *)
THEOREM TypeCorrect == Spec => []TypeOK
<1>1. TypeOK /\ Iterators /\ [Next]_vars => TypeOK' /\ Iterators'
  BY NextTypeOK
<1>2. Spec => [](TypeOK /\ Iterators)
  BY <1>1, InitTypeOK, PTL DEF Spec
<1> QED BY <1>2, PTL

-----------------------------------------------------------------------------
(* Sequences of events.  What a stream will still see is its queue with    *)
(* the callbacks behind it.                                                *)

LEMMA ConcatAppend ==
  ASSUME NEW q \in Seq(Event), NEW c \in Seq(Event), NEW e \in Event
  PROVE  q \o Append(c, e) = Append(q \o c, e)
<1>1. <<e>> \in Seq(Event) /\ q \o c \in Seq(Event)
  BY ConcatProperties
<1>2. Append(c, e) = c \o <<e>> /\ Append(q \o c, e) = (q \o c) \o <<e>>
  BY <1>1, AppendIsConcat
<1> QED BY <1>1, <1>2, ConcatAssociative

LEMMA ConcatMoves ==
  ASSUME NEW q \in Seq(Event), NEW c \in Seq(Event), c # <<>>
  PROVE  Append(q, Head(c)) \o Tail(c) = q \o c
<1>1. Head(c) \in Event /\ Tail(c) \in Seq(Event) /\ <<Head(c)>> \in Seq(Event)
  OBVIOUS
<1>2. Append(q, Head(c)) = q \o <<Head(c)>>
  BY <1>1, AppendIsConcat
<1>3. <<Head(c)>> \o Tail(c) = c
  <2>1. c = SubSeq(c, 1, Len(c)) /\ Len(c) \in Nat \ {0}
    BY SubSeqFull
  <2>2. SubSeq(c, 1, Len(c)) = <<c[1]>> \o SubSeq(c, 2, Len(c))
    BY <2>1, SubSeqRecursiveFirst
  <2>3. Tail(c) = SubSeq(c, 2, Len(c)) /\ Head(c) = c[1]
    BY TailIsSubSeq
  <2> QED BY <2>1, <2>2, <2>3
<1> QED BY <1>1, <1>2, <1>3, ConcatAssociative

LEMMA ConcatTail ==
  ASSUME NEW q \in Seq(Event), NEW c \in Seq(Event), q # <<>>
  PROVE  /\ q \o c \in Seq(Event) /\ q \o c # <<>>
         /\ Head(q \o c) = Head(q) /\ Tail(q \o c) = Tail(q) \o c
<1> DEFINE p == q \o c
<1>1. /\ p \in Seq(Event) /\ Len(p) = Len(q) + Len(c) /\ Len(q) \in Nat \ {0}
      /\ \A i \in 1 .. Len(q) + Len(c) : p[i] = IF i <= Len(q) THEN q[i] ELSE c[i - Len(q)]
  BY ConcatProperties
<1>2. p # <<>> /\ Head(p) = Head(q)
  <2>1. Len(p) # 0 /\ p[1] = q[1]
    BY <1>1
  <2> QED BY <1>1, <2>1
<1>3. /\ Tail(q) \in Seq(Event) /\ Len(Tail(q)) = Len(q) - 1
      /\ \A i \in 1 .. Len(Tail(q)) : Tail(q)[i] = q[i + 1]
  BY HeadTailProperties
<1>4. /\ Tail(p) \in Seq(Event) /\ Len(Tail(p)) = Len(p) - 1
      /\ \A i \in 1 .. Len(Tail(p)) : Tail(p)[i] = p[i + 1]
  BY <1>1, <1>2, HeadTailProperties
<1>5. /\ Tail(q) \o c \in Seq(Event) /\ Len(Tail(q) \o c) = Len(q) - 1 + Len(c)
      /\ \A i \in 1 .. Len(q) - 1 + Len(c) :
           (Tail(q) \o c)[i] = IF i <= Len(q) - 1 THEN Tail(q)[i] ELSE c[i - (Len(q) - 1)]
  BY <1>3, ConcatProperties
<1>6. \A i \in 1 .. Len(q) - 1 + Len(c) : Tail(p)[i] = (Tail(q) \o c)[i]
  BY <1>1, <1>3, <1>4, <1>5
<1>7. Tail(p) = Tail(q) \o c
  BY <1>1, <1>4, <1>5, <1>6, SeqEqual
<1> QED BY <1>1, <1>2, <1>7

(* No event of p is about r; the last one about r tells the version v; the *)
(* versions of r ascend from lo to hi.                                     *)
Nothing(p, r) == \A i \in 1 .. Len(p) : p[i].row # r
LastTells(p, r, v) ==
  \A i \in 1 .. Len(p) :
    p[i].row = r /\ (\A j \in 1 .. Len(p) : p[j].row = r => j <= i) => p[i].version = v
Ascends(p, r, lo, hi) ==
  /\ lo <= hi
  /\ \A i \in 1 .. Len(p) : p[i].row = r => lo <= p[i].version /\ p[i].version <= hi
  /\ \A i, j \in 1 .. Len(p) :
       p[i].row = r /\ p[j].row = r /\ i <= j => p[i].version <= p[j].version

LEMMA AppendTells ==
  ASSUME NEW p \in Seq(Event), NEW e \in Event, NEW r, NEW v
  PROVE  /\ e.row = r /\ e.version = v => LastTells(Append(p, e), r, v) /\ ~Nothing(Append(p, e), r)
         /\ e.row # r =>
              /\ LastTells(p, r, v) => LastTells(Append(p, e), r, v)
              /\ Nothing(Append(p, e), r) => Nothing(p, r)
<1>1. /\ Len(Append(p, e)) = Len(p) + 1 /\ Len(p) \in Nat
      /\ \A i \in 1 .. Len(p) : Append(p, e)[i] = p[i]
      /\ Append(p, e)[Len(p) + 1] = e
  BY AppendProperties
<1> HIDE DEF Event
<1>2. ASSUME e.row = r, e.version = v
      PROVE  LastTells(Append(p, e), r, v) /\ ~Nothing(Append(p, e), r)
  BY <1>1, <1>2 DEF LastTells, Nothing
<1>3. ASSUME e.row # r PROVE /\ LastTells(p, r, v) => LastTells(Append(p, e), r, v)
                             /\ Nothing(Append(p, e), r) => Nothing(p, r)
  BY <1>1, <1>3 DEF LastTells, Nothing
<1> QED BY <1>2, <1>3

LEMMA TailTells ==
  ASSUME NEW p \in Seq(Event), p # <<>>, NEW r, NEW v, LastTells(p, r, v)
  PROVE  /\ LastTells(Tail(p), r, v)
         /\ Nothing(Tail(p), r) => Nothing(p, r) \/ (Head(p).row = r /\ Head(p).version = v)
<1>1. /\ Len(p) \in Nat \ {0} /\ Len(Tail(p)) = Len(p) - 1 /\ Head(p) = p[1]
      /\ \A i \in 1 .. Len(p) - 1 : Tail(p)[i] = p[i + 1]
  BY HeadTailProperties
<1>2. ASSUME NEW j \in 1 .. Len(p), j # 1
      PROVE  j - 1 \in 1 .. Len(p) - 1 /\ Tail(p)[j - 1] = p[j]
  <2>1. j - 1 \in 1 .. Len(p) - 1 /\ (j - 1) + 1 = j
    BY <1>1, <1>2
  <2>2. Tail(p)[j - 1] = p[(j - 1) + 1]
    BY <1>1, <2>1
  <2> QED BY <2>1, <2>2
<1>3. ASSUME NEW i \in 1 .. Len(p) - 1, Tail(p)[i].row = r,
             \A j \in 1 .. Len(p) - 1 : Tail(p)[j].row = r => j <= i
      PROVE  Tail(p)[i].version = v
  <2>1. \A j \in 1 .. Len(p) : p[j].row = r => j <= i + 1
    BY <1>1, <1>3, <1>2
  <2>2. i + 1 \in 1 .. Len(p) /\ Tail(p)[i] = p[i + 1]
    BY <1>1
  <2> QED BY <1>3, <2>1, <2>2 DEF LastTells
<1>4. LastTells(Tail(p), r, v)
  BY <1>1, <1>3 DEF LastTells
<1>5. ASSUME Nothing(Tail(p), r), ~Nothing(p, r) PROVE Head(p).row = r /\ Head(p).version = v
  <2>1. \A j \in 1 .. Len(p) : j = 1 \/ p[j].row # r
    BY <1>1, <1>5, <1>2 DEF Nothing
  <2>2. p[1].row = r
    BY <1>5, <2>1 DEF Nothing
  <2>3. \A j \in 1 .. Len(p) : p[j].row = r => j <= 1
    BY <2>1
  <2>4. 1 \in 1 .. Len(p)
    BY <1>1
  <2>5. p[1].version = v
    BY <2>2, <2>3, <2>4 DEF LastTells
  <2>6. Head(p) = p[1]
    BY <1>1
  <2> QED BY <2>2, <2>5, <2>6
<1> QED BY <1>4, <1>5

LEMMA AppendAscends ==
  ASSUME NEW p \in Seq(Event), NEW e \in Event, NEW r, NEW lo \in Nat, NEW hi \in Nat,
         NEW new \in Nat, hi <= new, Ascends(p, r, lo, hi), e.row = r => e.version = new
  PROVE  Ascends(Append(p, e), r, lo, new)
<1>1. /\ Len(Append(p, e)) = Len(p) + 1 /\ Len(p) \in Nat
      /\ \A i \in 1 .. Len(p) : Append(p, e)[i] = p[i]
      /\ Append(p, e)[Len(p) + 1] = e
  BY AppendProperties
<1>2. \A i \in 1 .. Len(p) : p[i].version \in Nat
  <2>1. \A i \in 1 .. Len(p) : p[i] \in Event
    BY ElementOfSeq
  <2> QED BY <2>1 DEF Event, Versions
<1>3. \A i \in 1 .. Len(p) + 1 : Append(p, e)[i].row = r =>
        lo <= Append(p, e)[i].version /\ Append(p, e)[i].version <= new
  BY <1>1, <1>2 DEF Ascends
<1>4. \A i, j \in 1 .. Len(p) + 1 :
        Append(p, e)[i].row = r /\ Append(p, e)[j].row = r /\ i <= j =>
          Append(p, e)[i].version <= Append(p, e)[j].version
  BY <1>1, <1>2, <1>3 DEF Ascends
<1> QED BY <1>1, <1>3, <1>4 DEF Ascends

LEMMA TailAscends ==
  ASSUME NEW p \in Seq(Event), p # <<>>, NEW r, NEW lo \in Nat, NEW hi \in Nat, Ascends(p, r, lo, hi)
  PROVE  /\ Ascends(Tail(p), r, lo, hi)
         /\ Head(p).row = r => lo <= Head(p).version /\ Ascends(Tail(p), r, Head(p).version, hi)
<1>1. /\ Len(p) \in Nat \ {0} /\ Len(Tail(p)) = Len(p) - 1 /\ Head(p) = p[1]
      /\ \A i \in 1 .. Len(p) - 1 : i + 1 \in 1 .. Len(p) /\ Tail(p)[i] = p[i + 1]
  BY HeadTailProperties
<1>2. Ascends(Tail(p), r, lo, hi)
  BY <1>1 DEF Ascends
<1>3. ASSUME Head(p).row = r
      PROVE  lo <= Head(p).version /\ Ascends(Tail(p), r, Head(p).version, hi)
  BY <1>1, <1>3 DEF Ascends
<1> QED BY <1>2, <1>3

-----------------------------------------------------------------------------
(* The inductive invariant. *)

(* What the stream of s will still be sent.                                *)
Pending(s) == queue[s] \o callbacks[s]

(* When s has been sent that, it shows the latest version of r.            *)
Latest(s, r) ==
  /\ LastTells(Pending(s), r, stored[r])
  /\ Nothing(Pending(s), r) /\ r \in stream[s].view => shown[s][r] = stored[r]

InOrder ==
  \A s \in Streams, x \in Scans : Ascends(Pending(s), x, shown[s][x], stored[x])

(* A call that was not disturbed is the only one that tells of its row,    *)
(* tells the latest version, and has told it to the queues it has passed.  *)
TellInv(t) ==
  call[t].at \in Told /\ ~call[t].disturbed =>
    /\ Telling(call[t].row) = {t}
    /\ call[t].at \in {"ready", "telling"} => call[t].version = stored[call[t].row]
    /\ call[t].at = "telling" =>
         \A s \in queues \ call[t].left : Latest(s, call[t].row)

(* Of a row whose latest version everybody was told nobody tells another.  *)
SaidInv ==
  \A r \in Rows \ unsaid :
    /\ r \in Teams => Telling(r) = {}
    /\ \A s \in queues : r \in stream[s].view /\ stored[r] # since[s][r] => Latest(s, r)

IInv ==
  /\ TypeOK /\ Iterators
  /\ InOrder /\ SaidInv
  /\ \A t \in Threads : TellInv(t)

LEMMA PendingType ==
  ASSUME TypeOK, NEW s \in Streams
  PROVE  /\ Pending(s) \in Seq(Event)
         /\ queue[s] \in Seq(Event) /\ callbacks[s] \in Seq(Event)
         /\ s \notin queues => Pending(s) = <<>>
<1>1. queue[s] \in Seq(Event) /\ callbacks[s] \in Seq(Event)
  BY DEF TypeOK
<1>2. s \notin queues => queue[s] \o callbacks[s] = <<>>
  BY ConcatEmptySeq DEF TypeOK
<1> QED BY <1>1, <1>2, ConcatProperties DEF Pending

LEMMA VersionTypes ==
  ASSUME TypeOK, NEW s \in Streams, NEW r \in Rows
  PROVE  stored[r] \in Nat /\ shown[s][r] \in Nat /\ since[s][r] \in Nat
BY DEF TypeOK, Versions

LEMMA LatestKept ==
  ASSUME NEW s, NEW r, Latest(s, r), Pending(s)' = Pending(s),
         stored'[r] = stored[r], shown'[s] = shown[s], stream'[s] = stream[s]
  PROVE  Latest(s, r)'
BY DEF Latest

(* Nothing that calls do until they tell somebody moves an event.          *)
LEMMA OrderKept ==
  ASSUME TypeOK, InOrder, UNCHANGED watching, \A x \in Scans : stored'[x] = stored[x]
  PROVE  InOrder'
BY DEF InOrder, Pending, watching

LEMMA NewsComes ==
  ASSUME TypeOK, NEW s \in Streams, NEW e \in Event, queue'[s] = queue[s],
         callbacks'[s] = Append(callbacks[s], e), UNCHANGED <<shown, stream>>
  PROVE  /\ Pending(s)' = Append(Pending(s), e)
         /\ e.version = stored'[e.row] => Latest(s, e.row)'
         /\ \A r \in Rows : r # e.row /\ stored'[r] = stored[r] /\ Latest(s, r) => Latest(s, r)'
<1>1. Pending(s)' = Append(Pending(s), e)
  BY PendingType, ConcatAppend DEF Pending
<1>2. e.version = stored'[e.row] => Latest(s, e.row)'
  BY <1>1, PendingType, AppendTells DEF Latest
<1>3. ASSUME NEW r \in Rows, r # e.row, stored'[r] = stored[r], Latest(s, r) PROVE Latest(s, r)'
  BY <1>1, <1>3, PendingType, AppendTells DEF Latest
<1> QED BY <1>1, <1>2, <1>3

(* Steps of the loop that change neither rows, calls nor streams.          *)
LEMMA LoopKeeps ==
  ASSUME \A t \in Threads : TellInv(t), SaidInv, TypeOK,
         UNCHANGED <<stored, call, queues, stream, since, unsaid>>,
         \A s \in Streams, r \in Rows : Latest(s, r) => Latest(s, r)'
  PROVE  SaidInv' /\ \A t \in Threads : TellInv(t)'
<1>1. queues \subseteq Streams
  BY DEF TypeOK
<1>2. SaidInv'
  BY <1>1 DEF SaidInv, Telling
<1>3. ASSUME NEW t \in Threads PROVE TellInv(t)'
  <2>1. ASSUME call[t].at \in Told PROVE call[t].row \in Rows
    BY <2>1, CallFields DEF TypeOK, Told, Working, Rows
  <2> QED BY <1>1, <2>1 DEF TellInv, Telling
<1> QED BY <1>2, <1>3

LEMMA RunCallbackKeeps ==
  ASSUME IInv, NEW s \in Streams, RunCallback(s)
  PROVE  InOrder' /\ SaidInv' /\ \A t \in Threads : TellInv(t)'
<1>1. TypeOK
  BY DEF IInv
<1>2. ASSUME NEW u \in Streams PROVE Pending(u)' = Pending(u)
  <2>1. CASE u = s
    BY <1>1, <2>1, ConcatMoves, PendingType DEF RunCallback, Pending, TypeOK
  <2>2. CASE u # s
    BY <1>1, <2>2 DEF RunCallback, Pending, TypeOK
  <2> QED BY <2>1, <2>2
<1>3. \A u \in Streams, r \in Rows : Latest(u, r) => Latest(u, r)'
  BY <1>2 DEF RunCallback, Latest
<1>4. SaidInv' /\ \A t \in Threads : TellInv(t)'
  BY <1>1, <1>3, LoopKeeps DEF RunCallback, IInv
<1>5. InOrder'
  BY <1>2 DEF IInv, InOrder, RunCallback
<1> QED BY <1>4, <1>5

LEMMA TakeKeeps ==
  ASSUME IInv, NEW s \in Streams, Take(s)
  PROVE  /\ InOrder' /\ SaidInv' /\ \A t \in Threads : TellInv(t)'
         /\ \A x \in Scans : shown[s][x] <= shown'[s][x]
<1> DEFINE p == Pending(s)  e == Head(p)
<1>1. TypeOK
  BY DEF IInv
<1>2. /\ p \in Seq(Event) /\ p # <<>> /\ Pending(s)' = Tail(p) /\ e = Head(queue[s])
      /\ e \in Event
  <2>1. queue[s] \in Seq(Event) /\ callbacks[s] \in Seq(Event) /\ queue[s] # <<>>
    BY <1>1, PendingType DEF Take
  <2>2. queue'[s] = Tail(queue[s]) /\ callbacks' = callbacks
    BY <1>1 DEF Take, TypeOK
  <2>3. Head(queue[s]) \in Event
    BY <2>1
  <2> QED BY <2>1, <2>2, <2>3, ConcatTail DEF Pending
<1>3. \A u \in Streams : u # s => Pending(u)' = Pending(u) /\ shown'[u] = shown[u]
  BY <1>1 DEF Take, TypeOK, Pending
<1>4. \A r \in Rows : shown'[s][r] =
        IF r = e.row /\ r \in stream[s].view THEN e.version ELSE shown[s][r]
  <2>1. shown \in [Streams -> [Rows -> Nat]]
    BY <1>1 DEF TypeOK, Versions
  <2>2. e.row \in Rows
    BY <1>2 DEF Event
  <2> HIDE DEF e
  <2> QED BY <1>2, <2>1, <2>2 DEF Take
<1>5. ASSUME NEW u \in Streams, NEW r \in Rows, Latest(u, r) PROVE Latest(u, r)'
  <2>1. CASE u # s
    BY <1>3, <1>5, <2>1, LatestKept DEF Take
  <2>2. CASE u = s
    <3>1. /\ LastTells(Tail(p), r, stored[r])
          /\ Nothing(Tail(p), r) => Nothing(p, r) \/ (e.row = r /\ e.version = stored[r])
      BY <1>2, <1>5, <2>2, TailTells DEF Latest
    <3>2. ASSUME Nothing(Tail(p), r), r \in stream[s].view PROVE shown'[s][r] = stored[r]
      <4>1. CASE e.row = r /\ e.version = stored[r]
        BY <1>4, <3>2, <4>1
      <4>2. CASE Nothing(p, r)
        <5>1. e.row # r
          BY <1>2, <4>2, HeadTailProperties DEF Nothing
        <5> QED BY <1>4, <1>5, <2>2, <3>2, <4>2, <5>1 DEF Latest
      <4> QED BY <3>1, <3>2, <4>1, <4>2
    <3> QED BY <1>2, <2>2, <3>1, <3>2 DEF Latest, Take
  <2> QED BY <2>1, <2>2
<1>6. SaidInv' /\ \A t \in Threads : TellInv(t)'
  BY <1>1, <1>5, LoopKeeps DEF Take, IInv
<1>7. ASSUME NEW x \in Scans
      PROVE  shown[s][x] <= shown'[s][x] /\ Ascends(Tail(p), x, shown'[s][x], stored[x])
  <2>1. Ascends(p, x, shown[s][x], stored[x]) /\ x \in Rows
    BY DEF IInv, InOrder, Rows
  <2>2. stored[x] \in Nat /\ shown[s][x] \in Nat
    BY <1>1, <2>1, VersionTypes
  <2> HIDE DEF e
  <2>3. /\ Ascends(Tail(p), x, shown[s][x], stored[x])
        /\ e.row = x => shown[s][x] <= e.version /\ Ascends(Tail(p), x, e.version, stored[x])
    BY <1>2, <2>1, <2>2, TailAscends DEF e
  <2> QED BY <1>4, <2>1, <2>2, <2>3
<1>8. InOrder'
  <2>1. ASSUME NEW u \in Streams, NEW x \in Scans
        PROVE  Ascends(Pending(u)', x, shown'[u][x], stored'[x])
    BY <1>2, <1>3, <1>7 DEF IInv, InOrder, Take
  <2> QED BY <2>1 DEF InOrder
<1> QED BY <1>6, <1>7, <1>8

LEMMA ToldFields ==
  ASSUME TypeOK, NEW t \in Threads, call[t].at # "idle"
  PROVE  call[t] \in Working /\ call[t].row \in Teams /\ call[t].row \in Rows
BY CallFields DEF TypeOK, Working, Rows

(* A scan is not a row of a call.                                          *)
LEMMA ScanKeeps ==
  ASSUME IInv, NEW x \in Scans, UpdateStatus(x) \/ UpdateElsewhere(x)
  PROVE  InOrder' /\ SaidInv' /\ \A t \in Threads : TellInv(t)'
<1> DEFINE e == [row |-> x, version |-> stored[x] + 1]
<1>1. TypeOK /\ queues \subseteq Streams
  BY DEF IInv, TypeOK
<1>2. /\ x \in Rows /\ x \notin Teams /\ stored'[x] = stored[x] + 1
      /\ \A r \in Rows : r # x => stored'[r] = stored[r]
      /\ UNCHANGED <<call, queues, queue, stream, shown, since>>
  BY <1>1, StreamsAssumption DEF UpdateStatus, UpdateElsewhere, watching, TypeOK, Rows
<1>3. e \in Event /\ stored[x] \in Nat /\ stored'[x] \in Nat
  BY <1>1, <1>2 DEF Event, Versions, TypeOK
<1>4. ASSUME NEW s \in Streams
      PROVE  \/ Pending(s)' = Pending(s)
             \/ Pending(s)' = Append(Pending(s), e)
  <2>1. CASE callbacks'[s] = Append(callbacks[s], e)
    BY <1>1, <1>2, <1>3, <2>1, NewsComes
  <2>2. CASE callbacks'[s] = callbacks[s]
    BY <1>2, <2>2 DEF Pending
  <2> QED BY <2>1, <2>2 DEF UpdateStatus, UpdateElsewhere, watching
<1>5. ASSUME NEW s \in Streams, NEW r \in Rows, r # x, Latest(s, r) PROVE Latest(s, r)'
  <2>1. CASE callbacks'[s] = Append(callbacks[s], e)
    BY <1>1, <1>2, <1>3, <1>5, <2>1, NewsComes
  <2>2. CASE callbacks'[s] = callbacks[s]
    <3>1. Pending(s)' = Pending(s)
      BY <1>2, <2>2 DEF Pending
    <3> QED BY <1>2, <1>5, <3>1, LatestKept
  <2> QED BY <2>1, <2>2 DEF UpdateStatus, UpdateElsewhere, watching
<1>6. ASSUME NEW s \in queues, UpdateStatus(x) PROVE Latest(s, x)'
  <2>1. callbacks'[s] = Append(callbacks[s], e)
    BY <1>1, <1>6 DEF UpdateStatus
  <2> QED BY <1>1, <1>2, <1>3, <2>1, NewsComes
<1>7. InOrder'
  <2>1. ASSUME NEW s \in Streams, NEW y \in Scans
        PROVE  Ascends(Pending(s)', y, shown[s][y], stored'[y])
    <3>1. Ascends(Pending(s), y, shown[s][y], stored[y]) /\ y \in Rows
      BY DEF IInv, InOrder, Rows
    <3>2. /\ stored[y] \in Nat /\ shown[s][y] \in Nat /\ stored'[y] \in Nat
          /\ stored[y] <= stored'[y]
      BY <1>1, <1>2, <1>3, <3>1, VersionTypes
    <3>3. Pending(s) \in Seq(Event)
      BY <1>1, PendingType
    <3>4. CASE Pending(s)' = Append(Pending(s), e)
      <4>1. e.row = y => e.version = stored'[y]
        BY <1>2
      <4> HIDE DEF e
      <4> QED BY <1>3, <3>1, <3>2, <3>3, <3>4, <4>1, AppendAscends
    <3>5. CASE Pending(s)' = Pending(s)
      <4>1. \A i \in 1 .. Len(Pending(s)) : Pending(s)[i].version \in Nat
        <5>1. \A i \in 1 .. Len(Pending(s)) : Pending(s)[i] \in Event
          BY <3>3, ElementOfSeq
        <5> QED BY <5>1 DEF Event, Versions
      <4> QED BY <3>1, <3>2, <3>5, <4>1 DEF Ascends
    <3> QED BY <1>4, <3>4, <3>5
  <2> QED BY <1>2, <2>1 DEF InOrder
<1>8. SaidInv'
  <2>1. unsaid \ {x} \subseteq unsaid' /\ (UpdateStatus(x) \/ x \in unsaid')
    BY DEF UpdateStatus, UpdateElsewhere
  <2>2. ASSUME NEW r \in Rows, r \notin unsaid'
        PROVE  /\ r \in Teams => Telling(r)' = {}
               /\ \A s \in queues : r \in stream[s].view /\ stored'[r] # since[s][r] => Latest(s, r)'
    <3>1. CASE r = x
      BY <1>2, <1>6, <2>1, <2>2, <3>1
    <3>2. CASE r # x
      <4>1. r \notin unsaid
        BY <2>1, <2>2, <3>2
      <4> QED BY <1>1, <1>2, <1>5, <3>2, <4>1 DEF IInv, SaidInv, Telling
    <3> QED BY <3>1, <3>2
  <2> QED BY <1>2, <2>2 DEF SaidInv
<1>9. ASSUME NEW t \in Threads PROVE TellInv(t)'
  <2>1. ASSUME call[t].at \in Told PROVE call[t].row \in Rows /\ call[t].row # x
    BY <1>1, <1>2, <2>1, ToldFields DEF Told
  <2> QED BY <1>1, <1>2, <1>5, <2>1 DEF IInv, TellInv, Telling
<1> QED BY <1>7, <1>8, <1>9

(* Whoever iterates over the set when it changes is disturbed.             *)
LEMMA ShakenKeeps ==
  ASSUME IInv, NEW left, Shaken(left), UNCHANGED <<stored, unsaid>>
  PROVE  /\ \A t \in Threads : TellInv(t)'
         /\ \A r : Telling(r)' = Telling(r)
<1>1. TypeOK
  BY DEF IInv
<1>2. ASSUME NEW t \in Threads
      PROVE  /\ call'[t].at = call[t].at /\ call'[t].row = call[t].row
             /\ \/ call'[t] = call[t] /\ call[t].at # "telling"
                \/ call'[t].disturbed = TRUE
  <2>1. CASE call[t].at = "telling"
    <3>1. call[t] \in Working
      BY <1>1, <2>1, ToldFields
    <3> QED BY <2>1, <3>1 DEF Shaken, Working
  <2>2. CASE call[t].at # "telling"
    BY <2>2 DEF Shaken
  <2> QED BY <2>1, <2>2
<1>3. ASSUME NEW r PROVE Telling(r)' = Telling(r)
  BY <1>2 DEF Telling
<1>4. ASSUME NEW t \in Threads PROVE TellInv(t)'
  BY <1>2, <1>3 DEF TellInv, IInv
<1> QED BY <1>3, <1>4

LEMMA RegisterKeeps ==
  ASSUME IInv, NEW s \in Streams, NEW v \in Views, Register(s, v), s \notin queues
  PROVE  InOrder' /\ SaidInv' /\ \A t \in Threads : TellInv(t)'
<1>1. TypeOK /\ queues \subseteq Streams
  BY DEF IInv, TypeOK
<1>2. (\A t \in Threads : TellInv(t)') /\ \A r : Telling(r)' = Telling(r)
  BY <1>1, ShakenKeeps DEF Register
<1>3. /\ \A u : Pending(u)' = Pending(u)
      /\ UNCHANGED <<stored, shown, unsaid>>
      /\ \A u \in Streams : u # s => stream'[u] = stream[u] /\ since'[u] = since[u]
  BY <1>1 DEF Register, Pending, TypeOK
<1>4. InOrder'
  BY <1>3 DEF IInv, InOrder
<1>5. \A r \in stream'[s].view : r \in Rows => stored[r] = since'[s][r]
  BY <1>1 DEF Register, TypeOK
<1>6. ASSUME NEW r \in Rows \ unsaid, NEW u \in queues', r \in stream'[u].view,
             stored[r] # since'[u][r]
      PROVE  Latest(u, r)'
  <2>1. u \in queues /\ u # s
    BY <1>5, <1>6 DEF Register
  <2>2. Latest(u, r)
    BY <1>1, <1>3, <1>6, <2>1 DEF IInv, SaidInv
  <2> QED BY <1>1, <1>3, <2>1, <2>2, LatestKept
<1>7. SaidInv'
  BY <1>2, <1>3, <1>6 DEF SaidInv, IInv
<1> QED BY <1>2, <1>4, <1>7

LEMMA CloseKeeps ==
  ASSUME IInv, NEW s \in Streams, Close(s)
  PROVE  InOrder' /\ SaidInv' /\ \A t \in Threads : TellInv(t)'
<1>1. TypeOK /\ queues \subseteq Streams
  BY DEF IInv, TypeOK
<1>2. ASSUME NEW u \in Streams, u # s
      PROVE  /\ Pending(u)' = Pending(u) /\ shown'[u] = shown[u] /\ since'[u] = since[u]
             /\ stream'[u] = stream[u]
  BY <1>1, <1>2 DEF Close, TypeOK, Pending
<1>3. Pending(s)' = <<>> /\ shown'[s] = Unwatched /\ s \notin queues'
  <2>1. <<>> \o <<>> = <<>>
    BY ConcatEmptySeq, EmptySeq
  <2> QED BY <1>1, <2>1 DEF Close, TypeOK, Pending
<1>4. UNCHANGED <<stored, unsaid>> /\ queues' = queues \ {s}
  BY DEF Close
<1>5. InOrder'
  <2>1. ASSUME NEW u \in Streams, NEW x \in Scans
        PROVE  Ascends(Pending(u)', x, shown'[u][x], stored'[x])
    <3>1. CASE u = s
      <4>1. x \in Rows /\ stored[x] \in Nat /\ Unwatched[x] = 0
        BY <1>1, VersionTypes DEF Rows, Unwatched
      <4> QED BY <1>3, <1>4, <3>1, <4>1, EmptySeq DEF Ascends
    <3>2. CASE u # s
      BY <1>2, <1>4, <3>2 DEF IInv, InOrder
    <3> QED BY <3>1, <3>2
  <2> QED BY <2>1 DEF InOrder
<1>6. ASSUME NEW u \in queues', NEW r \in Rows, Latest(u, r) PROVE Latest(u, r)'
  <2>1. u \in Streams /\ u # s
    BY <1>1, <1>4
  <2> QED BY <1>2, <1>4, <1>6, <2>1, LatestKept
<1>7. (\A t \in Threads : TellInv(t)') /\ \A r : Telling(r)' = Telling(r)
  <2>1. CASE s \in queues
    BY <1>1, <1>4, <2>1, ShakenKeeps DEF Close
  <2>2. CASE s \notin queues
    <3>1. UNCHANGED <<call, queues>>
      BY <2>2 DEF Close
    <3>2. ASSUME NEW t \in Threads PROVE TellInv(t)'
      <4>1. ASSUME call[t].at \in Told PROVE call[t].row \in Rows
        BY <1>1, <4>1, ToldFields DEF Told
      <4> QED BY <1>4, <1>6, <3>1, <4>1 DEF IInv, TellInv, Telling
    <3> QED BY <3>1, <3>2 DEF Telling
  <2> QED BY <2>1, <2>2
<1>8. SaidInv'
  <2>1. ASSUME NEW r \in Rows \ unsaid, NEW u \in queues', r \in stream'[u].view,
               stored[r] # since'[u][r]
        PROVE  Latest(u, r)'
    BY <1>1, <1>2, <1>4, <1>6, <2>1 DEF IInv, SaidInv
  <2> QED BY <1>4, <1>7, <2>1 DEF IInv, SaidInv
<1> QED BY <1>5, <1>7, <1>8

(* A step of a call that tells nobody anything.                            *)
LEMMA QuietKeeps ==
  ASSUME IInv, NEW t \in Threads, UNCHANGED <<stored, watching>>,
         \A u \in Threads : u # t => call'[u] = call[u],
         \/ call'[t].at \notin Told
         \/ call[t].at \in Told /\ call'[t].row = call[t].row,
         unsaid' = unsaid \/ \E r \in Rows : unsaid' = unsaid \ {r} /\ Telling(r)' = {}
                                           /\ \A s \in queues : Latest(s, r),
         TellInv(t)'
  PROVE  InOrder' /\ SaidInv' /\ \A u \in Threads : TellInv(u)'
<1>1. TypeOK /\ queues \subseteq Streams
  BY DEF IInv, TypeOK
<1>2. InOrder'
  BY <1>1, OrderKept DEF IInv
<1>3. \A s, r : Latest(s, r) => Latest(s, r)'
  BY DEF watching, Latest, Pending
<1>4. \A r : Telling(r)' \subseteq Telling(r)
  BY DEF Telling
<1>5. SaidInv'
  <2>1. ASSUME NEW r \in Rows, r \notin unsaid
        PROVE  /\ r \in Teams => Telling(r)' = {}
               /\ \A s \in queues : r \in stream[s].view /\ stored[r] # since[s][r] => Latest(s, r)'
    BY <1>3, <1>4, <2>1 DEF IInv, SaidInv
  <2>2. ASSUME NEW r \in Rows, r \notin unsaid', r \in unsaid
        PROVE  Telling(r)' = {} /\ \A s \in queues : Latest(s, r)'
    BY <1>3, <2>2
  <2> QED BY <2>1, <2>2 DEF SaidInv, watching
<1>6. ASSUME NEW u \in Threads, u # t PROVE TellInv(u)'
  <2>1. PICK r : r = call[u].row /\ call'[u] = call[u]
    BY <1>6
  <2>2. ASSUME call[u].at \in Told, ~call[u].disturbed PROVE Telling(r)' = {u}
    <3>1. Telling(r) = {u}
      BY <2>1, <2>2 DEF IInv, TellInv
    <3>2. u \in Telling(r)'
      BY <2>1, <2>2 DEF Telling
    <3> QED BY <1>4, <3>1, <3>2
  <2> QED BY <1>3, <2>1, <2>2 DEF IInv, TellInv, watching
<1> QED BY <1>2, <1>5, <1>6

LEMMA CancelKeeps ==
  ASSUME IInv, NEW t \in Threads, Cancel(t)
  PROVE  InOrder' /\ SaidInv' /\ \A u \in Threads : TellInv(u)'
<1>1. TypeOK /\ DOMAIN call = Threads
  BY DEF IInv, TypeOK
<1>2. UNCHANGED <<stored, watching, unsaid>> /\ \A u \in Threads : u # t => call'[u] = call[u]
  BY <1>1 DEF Cancel
<1>3. CASE call' = [call EXCEPT ![t] = Idle]
  <2>1. call'[t].at \notin Told /\ TellInv(t)'
    BY <1>1, <1>3, IdleOK DEF TellInv, Told
  <2> QED BY <1>2, <2>1, QuietKeeps
<1>4. CASE call[t].at \in {"writing"} \cup Told /\ call' = [call EXCEPT ![t].alone = TRUE]
  <2>1. /\ call[t] \in Working /\ call[t].row \in Rows
        /\ call'[t] = [call[t] EXCEPT !.alone = TRUE]
    BY <1>1, <1>4, ToldFields DEF Told
  <2>2. /\ call'[t].at = call[t].at /\ call'[t].row = call[t].row
        /\ call'[t].disturbed = call[t].disturbed /\ call'[t].left = call[t].left
        /\ call'[t].version = call[t].version
    BY <2>1 DEF Working
  <2>3. \A r : Telling(r)' = Telling(r)
    BY <1>2, <2>2 DEF Telling
  <2>4. \A s, r : Latest(s, r) => Latest(s, r)'
    BY <1>2 DEF watching, Latest, Pending
  <2>5. TellInv(t)'
    <3>1. PICK r : r = call[t].row
      OBVIOUS
    <3> QED BY <1>2, <2>1, <2>2, <2>3, <2>4, <3>1 DEF IInv, TellInv, watching
  <2> QED BY <1>2, <1>4, <2>2, <2>5, QuietKeeps DEF Told
<1> QED BY <1>3, <1>4 DEF Cancel

LEMMA PodDiesKeeps ==
  ASSUME IInv, PodDies
  PROVE  InOrder' /\ SaidInv' /\ \A t \in Threads : TellInv(t)'
<1>1. TypeOK /\ TypeOK' /\ UNCHANGED <<stored, unsaid>> /\ queues' = {}
  BY PodDiesTypeOK DEF IInv, PodDies
<1>2. \A t \in Threads : call'[t] = Idle
  BY DEF PodDies
<1>3. ASSUME NEW s \in Streams, NEW x \in Scans
      PROVE  Ascends(Pending(s)', x, shown'[s][x], stored'[x])
  <2>1. Pending(s)' = <<>> /\ x \in Rows /\ stored[x] \in Nat
    BY <1>1, PendingType, VersionTypes, ConcatEmptySeq, EmptySeq DEF PodDies, Pending, Rows
  <2>2. shown'[s][x] = 0 /\ stored'[x] = stored[x]
    BY <1>1, <2>1 DEF PodDies, Unwatched
  <2> QED BY <2>1, <2>2, EmptySeq DEF Ascends
<1>4. InOrder'
  BY <1>3 DEF InOrder
<1>5. SaidInv' /\ \A t \in Threads : TellInv(t)'
  BY <1>1, <1>2, IdleOK DEF SaidInv, TellInv, Telling, Told
<1> QED BY <1>4, <1>5

LEMMA CommitKeeps ==
  ASSUME IInv, NEW t \in Threads, Commit(t)
  PROVE  InOrder' /\ SaidInv' /\ \A u \in Threads : TellInv(u)'
<1> DEFINE r == call[t].row
<1>1. TypeOK /\ queues \subseteq Streams
  BY DEF IInv, TypeOK
<1>2. call[t] \in Working /\ r \in Teams /\ r \in Rows /\ call[t].at = "writing"
  BY <1>1, ToldFields DEF Commit
<1>3. CASE call' = [call EXCEPT ![t] = Idle] /\ UNCHANGED <<stored, invited, unsaid>>
  <2>1. call'[t].at = "idle" /\ \A u \in Threads : u # t => call'[u] = call[u]
    BY <1>1, <1>3, IdleOK DEF TypeOK
  <2>2. TellInv(t)'
    BY <2>1 DEF TellInv, Told
  <2> QED BY <1>3, <2>1, <2>2, QuietKeeps DEF Commit, Told
<1>4. CASE /\ stored' = [stored EXCEPT ![r] = @ + 1]
           /\ unsaid' = unsaid \cup {r}
           /\ call' = [u \in Threads |->
                IF u = t THEN [call[t] EXCEPT !.at = "committed", !.disturbed = Telling(r) # {}]
                ELSE IF u \in Telling(r) THEN [call[u] EXCEPT !.disturbed = TRUE]
                ELSE call[u]]
  <2>1. /\ call'[t].at = "committed" /\ call'[t].row = r
        /\ call'[t].disturbed = (Telling(r) # {})
    BY <1>2, <1>4 DEF Working
  <2>2. ASSUME NEW u \in Threads, u # t
        PROVE  /\ call'[u].at = call[u].at /\ call'[u].row = call[u].row
               /\ u \in Telling(r) => call'[u].disturbed = TRUE
               /\ u \notin Telling(r) => call'[u] = call[u]
    <3>1. u \in Telling(r) => call[u] \in Working
      BY <1>1, ToldFields DEF Telling, Told
    <3> QED BY <1>4, <2>2, <3>1 DEF Working
  <2>3. \A q : Telling(q)' = IF q = r THEN Telling(q) \cup {t} ELSE Telling(q)
    BY <1>2, <2>1, <2>2 DEF Telling, Told
  <2>4. \A q \in Rows : q # r => stored'[q] = stored[q]
    BY <1>1, <1>4 DEF TypeOK
  <2>5. ASSUME NEW s, NEW q \in Rows, q # r, Latest(s, q) PROVE Latest(s, q)'
    BY <2>4, <2>5 DEF Latest, Pending, Commit, watching
  <2>6. InOrder'
    <3>1. \A x \in Scans : stored'[x] = stored[x]
      BY <1>2, <2>4, StreamsAssumption DEF Rows
    <3> QED BY <1>1, <3>1, OrderKept DEF IInv, Commit
  <2>7. SaidInv'
    <3>1. ASSUME NEW q \in Rows, q \notin unsaid'
          PROVE  /\ q \in Teams => Telling(q)' = {}
                 /\ \A s \in queues : q \in stream[s].view /\ stored'[q] # since[s][q] => Latest(s, q)'
      <4>1. q # r /\ q \notin unsaid
        BY <1>4, <3>1
      <4>2. stored'[q] = stored[q] /\ Telling(q)' = Telling(q)
        BY <2>3, <2>4, <4>1
      <4> QED BY <2>5, <4>1, <4>2 DEF IInv, SaidInv
    <3> QED BY <3>1 DEF SaidInv, Commit, watching
  <2>8. ASSUME NEW u \in Threads PROVE TellInv(u)'
    <3>1. CASE u = t
      BY <2>1, <2>3, <3>1 DEF TellInv
    <3>2. CASE u # t /\ u \in Telling(r)
      BY <2>2, <3>2 DEF TellInv
    <3>3. CASE u # t /\ u \notin Telling(r)
      <4>1. SUFFICES ASSUME call[u].at \in Told PROVE TellInv(u)'
        BY <2>2, <3>3 DEF TellInv
      <4>2. call[u].row \in Rows /\ call[u].row # r
        BY <1>1, <3>3, <4>1, ToldFields DEF Telling, Told
      <4>3. UNCHANGED queues /\ call'[u] = call[u] /\ Telling(call[u].row)' = Telling(call[u].row)
        BY <2>2, <2>3, <3>3, <4>2 DEF Commit, watching
      <4> QED BY <2>4, <2>5, <4>2, <4>3 DEF IInv, TellInv
    <3> QED BY <3>1, <3>2, <3>3
  <2> QED BY <2>6, <2>7, <2>8
<1> QED BY <1>3, <1>4 DEF Commit

LEMMA TellKeeps ==
  ASSUME IInv, NEW t \in Threads, Tell(t)
  PROVE  InOrder' /\ SaidInv' /\ \A u \in Threads : TellInv(u)'
<1>0. PICK r : r = call[t].row
  OBVIOUS
<1>1. TypeOK /\ queues \subseteq Streams
  BY DEF IInv, TypeOK
<1>2. PICK s \in call[t].left :
        /\ callbacks' = [callbacks EXCEPT ![s] = Append(@, News(t))]
        /\ call' = [call EXCEPT ![t].left = @ \ {s}]
  BY DEF Tell
<1>3. /\ call[t] \in Working /\ r \in Teams /\ r \in Rows /\ call[t].at = "telling"
      /\ s \in queues /\ s \in Streams /\ t \in Telling(r)
  BY <1>1, <1>0, ToldFields DEF Tell, Iterates, IInv, Iterators, Telling, Told
<1>4. News(t) \in Event /\ News(t).row = r /\ News(t).version = call[t].version
  BY <1>3, <1>0 DEF News, Event, Working
<1>5. /\ UNCHANGED <<stored, queues, queue, stream, shown, since, unsaid>>
      /\ callbacks'[s] = Append(callbacks[s], News(t))
      /\ \A u \in Streams : u # s => Pending(u)' = Pending(u)
  BY <1>1, <1>2, <1>3 DEF Tell, TypeOK, Pending
<1>6. /\ \A u \in Threads : u # t => call'[u] = call[u]
      /\ call'[t] = [call[t] EXCEPT !.left = @ \ {s}]
  BY <1>1, <1>2 DEF TypeOK
<1>7. /\ call'[t].at = "telling" /\ call'[t].row = r /\ call'[t].version = call[t].version
      /\ call'[t].disturbed = call[t].disturbed /\ call'[t].left = call[t].left \ {s}
  BY <1>3, <1>6, <1>0 DEF Working
<1>8. \A q : Telling(q)' = Telling(q)
  <2>1. \A u \in Threads : call'[u].at = call[u].at /\ call'[u].row = call[u].row
    BY <1>0, <1>3, <1>6, <1>7
  <2> QED BY <2>1 DEF Telling
<1>9. ASSUME NEW u \in Streams, NEW q \in Rows, q # r, Latest(u, q) PROVE Latest(u, q)'
  <2>1. CASE u = s
    BY <1>1, <1>3, <1>4, <1>5, <1>9, <2>1, NewsComes
  <2>2. CASE u # s
    BY <1>5, <1>9, <2>2, LatestKept
  <2> QED BY <2>1, <2>2
<1>10. InOrder'
  <2>1. ASSUME NEW u \in Streams, NEW x \in Scans
        PROVE  Ascends(Pending(u)', x, shown[u][x], stored[x])
    <3>1. CASE u # s
      BY <1>5, <3>1 DEF IInv, InOrder
    <3>2. CASE u = s
      <4>1. Pending(s)' = Append(Pending(s), News(t)) /\ Pending(s) \in Seq(Event)
        BY <1>1, <1>3, <1>4, <1>5, NewsComes, PendingType
      <4>2. stored[x] \in Nat /\ shown[s][x] \in Nat /\ x # r
        BY <1>1, <1>3, VersionTypes, StreamsAssumption DEF Rows
      <4>3. Ascends(Pending(s), x, shown[s][x], stored[x])
        BY <1>3 DEF IInv, InOrder
      <4> QED BY <1>4, <3>2, <4>1, <4>2, <4>3, AppendAscends
    <3> QED BY <3>1, <3>2
  <2> QED BY <1>5, <2>1 DEF InOrder
<1>11. SaidInv'
  <2>1. ASSUME NEW q \in Rows \ unsaid
        PROVE  /\ q \in Teams => Telling(q)' = {}
               /\ \A u \in queues : q \in stream[u].view /\ stored[q] # since[u][q] => Latest(u, q)'
    <3>1. q # r
      BY <1>3, <2>1 DEF IInv, SaidInv
    <3> QED BY <1>1, <1>8, <1>9, <2>1, <3>1 DEF IInv, SaidInv
  <2> QED BY <1>5, <2>1 DEF SaidInv
<1>12. ASSUME NEW u \in Threads PROVE TellInv(u)'
  <2>1. CASE u = t
    <3>1. SUFFICES ASSUME ~call[t].disturbed
                   PROVE  /\ Telling(r) = {t} /\ call[t].version = stored[r]
                          /\ \A v \in queues \ (call[t].left \ {s}) : Latest(v, r)'
      BY <1>5, <1>7, <1>8, <2>1 DEF TellInv
    <3>2. /\ Telling(r) = {t} /\ call[t].version = stored[r]
          /\ \A v \in queues \ call[t].left : Latest(v, r)
      BY <1>3, <1>0, <3>1 DEF IInv, TellInv, Told
    <3>3. Latest(s, r)'
      <4>1. News(t).version = stored'[News(t).row]
        BY <1>4, <1>5, <3>2
      <4> QED BY <1>1, <1>3, <1>4, <1>5, <4>1, NewsComes
    <3>4. ASSUME NEW v \in queues \ call[t].left, v # s PROVE Latest(v, r)'
      BY <1>1, <1>5, <3>2, <3>4, LatestKept
    <3> QED BY <3>2, <3>3, <3>4
  <2>2. CASE u # t
    <3>1. SUFFICES ASSUME call[u].at \in Told, ~call[u].disturbed PROVE TellInv(u)'
      BY <1>6, <2>2 DEF TellInv
    <3>2. Telling(call[u].row) = {u} /\ call[u].row \in Rows
      BY <1>1, <3>1, ToldFields DEF IInv, TellInv, Told
    <3>3. call[u].row # r
      BY <1>3, <2>2, <3>2
    <3> QED BY <1>1, <1>5, <1>6, <1>8, <1>9, <2>2, <3>2, <3>3 DEF IInv, TellInv
  <2> QED BY <2>1, <2>2
<1> QED BY <1>10, <1>11, <1>12

LEMMA ServiceKeeps ==
  ASSUME IInv, NEW t \in Threads, ServiceStep(t)
  PROVE  InOrder' /\ SaidInv' /\ \A u \in Threads : TellInv(u)'
<1>0. PICK r : r = call[t].row
  OBVIOUS
<1>1. TypeOK /\ DOMAIN call = Threads
  BY DEF IInv, TypeOK
<1>2. ASSUME NEW op \in Operations, NEW q \in Teams, Begin(t, op, q)
      PROVE  InOrder' /\ SaidInv' /\ \A u \in Threads : TellInv(u)'
  <2>1. call'[t].at = "writing" /\ \A u \in Threads : u # t => call'[u] = call[u]
    BY <1>1, <1>2 DEF Begin, Serves, Idle
  <2>2. TellInv(t)'
    BY <2>1 DEF TellInv, Told
  <2> QED BY <1>2, <2>1, <2>2, QuietKeeps DEF Begin, Told
<1>3. ASSUME call' = [call EXCEPT ![t] = Idle], UNCHANGED <<stored, watching, unsaid>>
      PROVE  InOrder' /\ SaidInv' /\ \A u \in Threads : TellInv(u)'
  <2>1. call'[t].at = "idle" /\ \A u \in Threads : u # t => call'[u] = call[u]
    BY <1>1, <1>3, IdleOK
  <2>2. TellInv(t)'
    BY <2>1 DEF TellInv, Told
  <2> QED BY <1>3, <2>1, <2>2, QuietKeeps DEF Told
<1>4. CASE ReadBack(t) \/ StartTelling(t)
  <2>1. /\ call[t] \in Working /\ call[t].at \in Told
        /\ UNCHANGED <<stored, watching, unsaid>> /\ queues' = queues
    BY <1>1, <1>4, ToldFields DEF ReadBack, StartTelling, Told, watching
  <2>2. /\ \A u \in Threads : u # t => call'[u] = call[u]
        /\ \/ call'[t] = [call[t] EXCEPT !.at = "ready", !.version = stored[call[t].row]]
           \/ /\ call[t].at = "ready"
              /\ call'[t] = [call[t] EXCEPT !.at = "telling", !.left = queues,
                                            !.size = Cardinality(queues)]
    BY <1>1, <1>4 DEF ReadBack, StartTelling
  <2>3. /\ call'[t].row = r /\ call'[t].disturbed = call[t].disturbed
        /\ \/ call'[t].at = "ready" /\ call'[t].version = stored[r]
           \/ /\ call[t].at = "ready" /\ call'[t].at = "telling" /\ call'[t].left = queues
              /\ call'[t].version = call[t].version
    BY <1>0, <2>1, <2>2 DEF Working
  <2>4. ASSUME ~call[t].disturbed PROVE Telling(r)' = {t}
    <3>1. Telling(r) = {t}
      BY <1>0, <2>1, <2>4 DEF IInv, TellInv
    <3>2. \A u \in Threads : u # t => (u \in Telling(r)' <=> u \in Telling(r))
      BY <2>2 DEF Telling
    <3>3. t \in Telling(r)' /\ Telling(r)' \subseteq Threads
      BY <2>3 DEF Telling, Told
    <3> QED BY <3>1, <3>2, <3>3
  <2>5. ASSUME ~call[t].disturbed, call[t].at = "ready" PROVE call[t].version = stored[r]
    BY <1>0, <2>1, <2>5 DEF IInv, TellInv
  <2>6. TellInv(t)'
    BY <2>1, <2>3, <2>4, <2>5 DEF TellInv
  <2> QED BY <1>0, <2>1, <2>2, <2>3, <2>6, QuietKeeps
<1>5. CASE EndTelling(t)
  <2>1. /\ call[t] \in Working /\ r \in Rows /\ call[t].at \in Told /\ call[t].left = {}
        /\ call[t].at = "telling" \/ queues = {}
        /\ UNCHANGED <<stored, watching>>
    BY <1>0, <1>1, <1>5, ToldFields DEF EndTelling, AllTold, Iterates, Told
  <2>2. /\ \A u \in Threads : u # t => call'[u] = call[u]
        /\ call'[t].at \notin Told
    BY <1>1, <1>5, IdleOK DEF EndTelling, Serves, Idle, Told
  <2>3. TellInv(t)'
    BY <2>2 DEF TellInv
  <2>4. CASE call[t].disturbed
    BY <1>5, <2>1, <2>2, <2>3, <2>4, QuietKeeps DEF EndTelling
  <2>5. CASE ~call[t].disturbed
    <3>1. Telling(r) = {t} /\ \A s \in queues : Latest(s, r)
      BY <1>0, <2>1, <2>5 DEF IInv, TellInv, Told
    <3>2. Telling(r)' = {}
      BY <2>2, <3>1 DEF Telling
    <3>3. unsaid' = unsaid \ {r}
      BY <1>0, <1>5, <2>5 DEF EndTelling
    <3> QED BY <2>1, <2>2, <2>3, <3>1, <3>2, <3>3, QuietKeeps
  <2> QED BY <2>4, <2>5
<1>6. CASE Mail(t)
  BY <1>3, <1>6 DEF Mail
<1>7. CASE DatabaseFails(t) \/ TellRaises(t)
  BY <1>3, <1>7 DEF DatabaseFails, TellRaises, Raises
<1> QED BY <1>2, <1>4, <1>5, <1>6, <1>7, CommitKeeps, TellKeeps, CancelKeeps DEF ServiceStep

LEMMA InitInv == Init => IInv
<1> SUFFICES ASSUME Init PROVE IInv
  OBVIOUS
<1>1. TypeOK /\ Iterators
  BY InitTypeOK
<1>2. InOrder
  <2>1. ASSUME NEW s \in Streams, NEW x \in Scans
        PROVE  Ascends(Pending(s), x, shown[s][x], stored[x])
    <3>1. Pending(s) = <<>> /\ shown[s][x] = 0 /\ stored[x] = 0
      BY <1>1, PendingType DEF Init, Unwatched, Rows
    <3> QED BY <3>1, EmptySeq DEF Ascends
  <2> QED BY <2>1 DEF InOrder
<1>3. SaidInv
  BY IdleOK DEF Init, SaidInv, Telling, Told
<1>4. \A t \in Threads : TellInv(t)
  BY IdleOK DEF Init, TellInv, Told
<1> QED BY <1>1, <1>2, <1>3, <1>4 DEF IInv

LEMMA WatchScanKeeps ==
  ASSUME IInv, NEW s \in Streams, NEW x \in Scans, WatchScan(s, x)
  PROVE  InOrder' /\ SaidInv' /\ \A t \in Threads : TellInv(t)'
<1>1. TypeOK /\ queues \subseteq Streams
  BY DEF IInv, TypeOK
<1>2. s \notin queues /\ \A u \in queues : stream'[u] = stream[u]
  BY <1>1 DEF WatchScan, TypeOK
<1>3. /\ UNCHANGED <<stored, call, queues, shown, since, unsaid>>
      /\ \A u : Pending(u)' = Pending(u)
      /\ \A r : Telling(r)' = Telling(r)
  BY DEF WatchScan, Pending, Telling
<1>4. \A u \in queues, r \in Rows : Latest(u, r) => Latest(u, r)'
  BY <1>2, <1>3, LatestKept
<1>5. InOrder' /\ SaidInv'
  BY <1>2, <1>3, <1>4 DEF IInv, InOrder, SaidInv
<1>6. ASSUME NEW t \in Threads PROVE TellInv(t)'
  <2>1. PICK r : r = call[t].row
    OBVIOUS
  <2>2. call[t].at \in Told => r \in Rows
    BY <1>1, <2>1, ToldFields DEF Told
  <2> QED BY <1>3, <1>4, <2>1, <2>2 DEF IInv, TellInv
<1> QED BY <1>5, <1>6

LEMMA NextInv == IInv /\ [Next]_vars => IInv'
<1> SUFFICES ASSUME IInv, [Next]_vars PROVE IInv'
  OBVIOUS
<1>1. TypeOK' /\ Iterators'
  BY NextTypeOK DEF IInv
<1>2. ASSUME NEW s \in Streams, StreamStep(s)
      PROVE  InOrder' /\ SaidInv' /\ \A t \in Threads : TellInv(t)'
  <2>1. ASSUME NEW v \in Views, Watch(s, v) PROVE Register(s, v) /\ s \notin queues
    BY <2>1 DEF Watch, IInv, TypeOK
  <2> QED BY <1>2, <2>1, WatchScanKeeps, RegisterKeeps, CloseKeeps, RunCallbackKeeps, TakeKeeps
        DEF StreamStep
<1>3. ASSUME UNCHANGED vars
      PROVE  InOrder' /\ SaidInv' /\ \A t \in Threads : TellInv(t)'
  BY <1>3 DEF vars, IInv, InOrder, SaidInv, TellInv, Telling, Latest, Pending
<1>4. InOrder' /\ SaidInv' /\ \A t \in Threads : TellInv(t)'
  BY <1>2, <1>3, ServiceKeeps, ScanKeeps, PodDiesKeeps DEF Next
<1> QED BY <1>1, <1>4 DEF IInv

LEMMA Invariance == Spec => []IInv
BY InitInv, NextInv, PTL DEF Spec

(* A stream that has taken everything that was put for it shows the latest *)
(* version of each row that changed since it registered, unless nobody was *)
(* told of that version, however calls, changes of the set and callbacks   *)
(* are interleaved.                                                        *)
THEOREM StreamsCatchUpAlways == Spec => []StreamsCatchUp
<1>1. ASSUME IInv PROVE StreamsCatchUp
  <2>1. SUFFICES ASSUME NEW s \in Streams, NEW r \in Rows, Drained(s), Behind(s, r)
                 PROVE  FALSE
    BY DEF StreamsCatchUp
  <2>2. Latest(s, r) /\ r \in stream[s].view
    BY <1>1, <2>1 DEF Behind, IInv, SaidInv
  <2>3. Pending(s) = <<>>
    BY <2>1, ConcatEmptySeq, EmptySeq DEF Drained, Pending
  <2>4. Nothing(Pending(s), r)
    BY <2>3, EmptySeq DEF Nothing
  <2> QED BY <2>1, <2>2, <2>4 DEF Latest, Behind
<1> QED BY <1>1, Invariance, PTL

(* No stream is sent a scan's status after a later one.                    *)
THEOREM ScansStayInOrder == Spec => ScansInOrder
<1>1. ASSUME IInv, [Next]_vars
      PROVE  [\A s \in queues \cap queues', x \in Scans : shown[s][x] <= shown'[s][x]]_vars
  <2>1. SUFFICES ASSUME Next, NEW s \in queues, s \in queues', NEW x \in Scans
                 PROVE  shown[s][x] <= shown'[s][x]
    BY <1>1
  <2>2. s \in Streams /\ shown[s][x] \in Nat
    BY <1>1, VersionTypes DEF IInv, TypeOK, Rows
  <2>3. CASE shown'[s] = shown[s]
    BY <2>2, <2>3
  <2>4. ASSUME NEW u \in Streams, StreamStep(u) PROVE shown[s][x] <= shown'[s][x]
    <3>1. CASE Take(u) /\ u = s
      BY <1>1, <3>1, TakeKeeps
    <3>2. CASE (Take(u) \/ Close(u)) /\ u # s
      BY <1>1, <2>2, <2>3, <3>2 DEF Take, Close, IInv, TypeOK
    <3>3. CASE Close(u) /\ u = s
      BY <2>1, <3>3 DEF Close
    <3> QED BY <2>3, <2>4, <3>1, <3>2, <3>3
          DEF StreamStep, WatchScan, Watch, Register, RunCallback
  <2>5. ASSUME NEW t \in Threads, ServiceStep(t) PROVE shown' = shown
    BY <2>5 DEF ServiceStep, Begin, Commit, ReadBack, DatabaseFails, Raises, StartTelling,
         Tell, TellRaises, EndTelling, Mail, Cancel, watching
  <2>6. ASSUME NEW y \in Scans, UpdateStatus(y) \/ UpdateElsewhere(y) PROVE shown' = shown
    BY <2>6 DEF UpdateStatus, UpdateElsewhere, watching
  <2>7. CASE PodDies
    BY <2>1, <2>7 DEF PodDies
  <2> QED BY <2>1, <2>3, <2>4, <2>5, <2>6, <2>7 DEF Next
<1> QED BY <1>1, Invariance, PTL DEF Spec, ScansInOrder

(* A call that will not mail its invitation met a mishap: its handler was  *)
(* cancelled, or its iterator will find a set of another size.             *)
MishapInv ==
  \A t \in Threads :
    /\ Invites(t)
    /\ call[t].alone \/ (call[t].at = "telling" /\ call[t].size # Cardinality(queues))
    => call[t].row \in mishaps

MailInv == InvitationsAreMailed /\ MishapInv

(* The call of t moves on: what it leaves unmailed had a mishap.           *)
LEMMA MoveKeeps ==
  ASSUME MailInv, NEW t \in Threads, queues' = queues,
         \A u \in Threads : u # t =>
            /\ call'[u].at = call[u].at /\ call'[u].op = call[u].op /\ call'[u].row = call[u].row
            /\ call'[u].alone = call[u].alone /\ call'[u].size = call[u].size,
         mailed \subseteq mailed', mishaps \subseteq mishaps',
         \A q \in invited' : q \in invited \/ (Invites(t)' /\ call'[t].row = q),
         Invites(t) => \/ Invites(t)' /\ call'[t].row = call[t].row
                       \/ call[t].row \in mailed' \cup mishaps',
         /\ Invites(t)'
         /\ \/ call'[t].alone
            \/ call'[t].at = "telling" /\ call'[t].size # Cardinality(queues)
         => call'[t].row \in mishaps'
  PROVE  MailInv'
<1>1. \A u \in Threads : u # t => Invites(u)' = Invites(u)
  BY DEF Invites
<1>2. InvitationsAreMailed'
  BY <1>1 DEF MailInv, InvitationsAreMailed, AtWork
<1>3. MishapInv'
  BY <1>1 DEF MailInv, MishapInv
<1> QED BY <1>2, <1>3 DEF MailInv

LEMMA ServiceMails ==
  ASSUME TypeOK, MailInv, NEW t \in Threads, ServiceStep(t) PROVE MailInv'
<1>1. DOMAIN call = Threads /\ (call[t].at # "idle" => call[t] \in Working)
  BY ToldFields DEF TypeOK
<1>2. ASSUME NEW op \in Operations, NEW r \in Teams, Begin(t, op, r) PROVE MailInv'
  <2>1. ~Invites(t) /\ call'[t].at = "writing"
    BY <1>1, <1>2, IdleOK DEF Begin, Invites, Told, Serves, Idle
  <2> QED BY <1>1, <1>2, <2>1, MoveKeeps DEF Begin, Invites, Told, watching
<1>3. ASSUME call' = [call EXCEPT ![t] = Idle], queues' = queues, invited' = invited,
             mailed \subseteq mailed', mishaps \subseteq mishaps',
             Invites(t) => call[t].row \in mailed' \cup mishaps'
      PROVE  MailInv'
  <2>1. ~Invites(t)' /\ \A u \in Threads : u # t => call'[u] = call[u]
    BY <1>1, <1>3, IdleOK DEF Invites, Told
  <2> QED BY <1>3, <2>1, MoveKeeps
<1>4. CASE Commit(t)
  <2>1. call[t] \in Working /\ call[t].at = "writing" /\ ~Invites(t)
    BY <1>1, <1>4 DEF Commit, Invites, Told
  <2>2. CASE call' = [call EXCEPT ![t] = Idle] /\ UNCHANGED <<invited, mishaps>>
    BY <1>3, <1>4, <2>1, <2>2 DEF Commit, watching
  <2>3. CASE /\ invited' = IF call[t].op = "invite" THEN invited \cup {call[t].row} ELSE invited
             /\ mishaps' = IF call[t].op = "invite" /\ call[t].alone
                           THEN mishaps \cup {call[t].row} ELSE mishaps
             /\ call' = [u \in Threads |->
                  IF u = t THEN [call[t] EXCEPT !.at = "committed",
                                   !.disturbed = Telling(call[t].row) # {}]
                  ELSE IF u \in Telling(call[t].row) THEN [call[u] EXCEPT !.disturbed = TRUE]
                  ELSE call[u]]
    <3>1. /\ call'[t].at = "committed" /\ call'[t].row = call[t].row
          /\ call'[t].op = call[t].op /\ call'[t].alone = call[t].alone
      BY <2>1, <2>3 DEF Working
    <3>2. ASSUME NEW u \in Threads, u # t
          PROVE  /\ call'[u].at = call[u].at /\ call'[u].op = call[u].op
                 /\ call'[u].row = call[u].row
                 /\ call'[u].alone = call[u].alone /\ call'[u].size = call[u].size
      <4>1. u \in Telling(call[t].row) => call[u] \in Working
        BY ToldFields DEF Telling, Told
      <4> QED BY <2>3, <3>2, <4>1 DEF Working
    <3>3. call[t].op = "invite" => Invites(t)'
      BY <3>1 DEF Invites, Told
    <3>4. Invites(t)' => call[t].op = "invite"
      BY <3>1 DEF Invites
    <3>5. /\ mishaps \subseteq mishaps' /\ mailed' = mailed /\ queues' = queues
          /\ \A q \in invited' : q \in invited \/ (Invites(t)' /\ call'[t].row = q)
      BY <1>4, <2>3, <3>1, <3>3 DEF Commit, watching
    <3>6. ASSUME Invites(t)', call'[t].alone PROVE call'[t].row \in mishaps'
      <4>1. call[t].op = "invite" /\ call[t].alone
        BY <3>1, <3>4, <3>6
      <4>2. mishaps' = mishaps \cup {call[t].row}
        BY <2>3, <4>1
      <4> QED BY <3>1, <4>2
    <3> QED BY <2>1, <3>1, <3>2, <3>5, <3>6, MoveKeeps
  <2> QED BY <1>4, <2>2, <2>3 DEF Commit
<1>5. ASSUME call[t].at \in Told, call'[t].at \in Told, UNCHANGED <<invited, mailed, mishaps>>,
             queues' = queues, \A u \in Threads : u # t => call'[u] = call[u],
             call'[t].op = call[t].op, call'[t].row = call[t].row,
             call'[t].alone = call[t].alone,
             call'[t].at = "telling" =>
               \/ call'[t].size = Cardinality(queues)
               \/ call[t].at = "telling" /\ call'[t].size = call[t].size
      PROVE  MailInv'
  <2>1. Invites(t)' = Invites(t)
    BY <1>5 DEF Invites
  <2> QED BY <1>5, <2>1, MoveKeeps DEF MailInv, MishapInv
<1>6. CASE ReadBack(t)
  <2>1. call[t] \in Working
    BY <1>1, <1>6 DEF ReadBack
  <2> QED BY <1>1, <1>5, <1>6, <2>1 DEF ReadBack, Working, Told, watching
<1>7. CASE StartTelling(t)
  <2>1. call[t] \in Working
    BY <1>1, <1>7 DEF StartTelling
  <2> QED BY <1>1, <1>5, <1>7, <2>1 DEF StartTelling, Working, Told, watching
<1>8. CASE Tell(t)
  <2>1. call[t] \in Working /\ call[t].at = "telling"
    BY <1>1, <1>8 DEF Tell, Iterates
  <2>2. PICK s : call' = [call EXCEPT ![t].left = @ \ {s}]
    BY <1>8 DEF Tell
  <2>3. /\ call'[t].at = "telling" /\ call'[t].op = call[t].op /\ call'[t].row = call[t].row
        /\ call'[t].alone = call[t].alone /\ call'[t].size = call[t].size
    BY <1>1, <2>1, <2>2 DEF Working
  <2> QED BY <1>1, <1>5, <1>8, <2>1, <2>2, <2>3 DEF Tell, Told
<1>9. CASE DatabaseFails(t)
  BY <1>3, <1>9 DEF DatabaseFails, Raises, Mishap, watching
<1>10. CASE TellRaises(t)
  <2>1. Invites(t) => call[t].row \in mishaps
    BY <1>10 DEF TellRaises, MailInv, MishapInv
  <2> QED BY <1>3, <1>10, <2>1 DEF TellRaises, Raises, watching
<1>11. CASE EndTelling(t)
  <2>1. call[t] \in Working /\ call[t].at \in Told
    BY <1>1, <1>11 DEF EndTelling, AllTold, Iterates, Told
  <2>2. CASE call[t].op = "invite" /\ ~call[t].alone
    <3>1. /\ call'[t].at = "mail" /\ call'[t].row = call[t].row
          /\ call'[t].op = "invite" /\ call'[t].alone = FALSE
      BY <1>1, <1>11, <2>2 DEF EndTelling, Serves, Idle
    <3>2. Invites(t)'
      BY <3>1 DEF Invites
    <3> QED BY <1>1, <1>11, <3>1, <3>2, MoveKeeps DEF EndTelling, watching
  <2>3. CASE ~(call[t].op = "invite" /\ ~call[t].alone)
    <3>1. Invites(t) => call[t].row \in mishaps
      BY <2>1, <2>3 DEF MailInv, MishapInv, Invites, Working
    <3>2. call' = [call EXCEPT ![t] = Idle]
      BY <1>11, <2>3 DEF EndTelling
    <3> QED BY <1>3, <1>11, <3>1, <3>2 DEF EndTelling, watching
  <2> QED BY <2>2, <2>3
<1>12. CASE Mail(t)
  BY <1>3, <1>12 DEF Mail, Mishap, watching
<1>13. CASE Cancel(t)
  <2>1. /\ Invites(t) => call[t].row \in mishaps'
        /\ mishaps \subseteq mishaps' /\ UNCHANGED <<invited, mailed>> /\ queues' = queues
    BY <1>13 DEF Cancel, Mishap, watching
  <2>2. CASE call' = [call EXCEPT ![t] = Idle]
    BY <1>3, <2>1, <2>2
  <2>3. CASE call[t].at \in {"writing"} \cup Told /\ call' = [call EXCEPT ![t].alone = TRUE]
    <3>1. call[t] \in Working
      BY <1>1, <2>3 DEF Told
    <3>2. /\ call'[t].at = call[t].at /\ call'[t].op = call[t].op /\ call'[t].row = call[t].row
          /\ \A u \in Threads : u # t => call'[u] = call[u]
      BY <1>1, <2>3, <3>1 DEF Working
    <3>3. Invites(t)' = Invites(t)
      BY <3>2 DEF Invites
    <3> QED BY <2>1, <3>2, <3>3, MoveKeeps
  <2> QED BY <1>13, <2>2, <2>3 DEF Cancel
<1> QED BY <1>2, <1>4, <1>6, <1>7, <1>8, <1>9, <1>10, <1>11, <1>12, <1>13 DEF ServiceStep

(* A change of the set is a mishap of every call that is iterating.        *)
LEMMA ShakenMails ==
  ASSUME TypeOK, MailInv, NEW left, Shaken(left), UNCHANGED <<invited, mailed>> PROVE MailInv'
<1>1. ASSUME NEW t \in Threads
      PROVE  /\ call'[t].at = call[t].at /\ call'[t].row = call[t].row
             /\ call'[t].op = call[t].op /\ call'[t].alone = call[t].alone
  <2>1. CASE call[t].at = "telling"
    <3>1. call[t] \in Working
      BY <2>1, ToldFields
    <3> QED BY <2>1, <3>1 DEF Shaken, Working
  <2>2. CASE call[t].at # "telling"
    BY <2>2 DEF Shaken
  <2> QED BY <2>1, <2>2
<1>2. \A t \in Threads : Invites(t)' = Invites(t)
  BY <1>1 DEF Invites
<1>3. /\ mishaps \subseteq mishaps'
      /\ \A t \in Threads : Invites(t) /\ call[t].at = "telling" => call[t].row \in mishaps'
  BY DEF Shaken, Mishap
<1>4. InvitationsAreMailed'
  BY <1>1, <1>2, <1>3 DEF MailInv, InvitationsAreMailed, AtWork
<1>5. MishapInv'
  BY <1>1, <1>2, <1>3 DEF MailInv, MishapInv
<1> QED BY <1>4, <1>5 DEF MailInv

(* An onboarding or a new user whose call is over was handed to the mail   *)
(* service, unless after its commit a database call or the mail service    *)
(* raised, a stream was opened or closed under its broadcast, the pod died *)
(* or its handler was cancelled.                                           *)
THEOREM InvitationsGoOut == Spec => []InvitationsAreMailed
<1>1. Init => MailInv
  BY IdleOK DEF Init, MailInv, InvitationsAreMailed, MishapInv, Invites, Told
<1>2. ASSUME TypeOK, MailInv, [Next]_vars PROVE MailInv'
  <2>1. ASSUME UNCHANGED <<invited, mailed, mishaps, call, queues>> PROVE MailInv'
    BY <1>2, <2>1 DEF MailInv, InvitationsAreMailed, AtWork, MishapInv, Invites
  <2>2. ASSUME NEW s \in Streams, StreamStep(s) PROVE MailInv'
    <3>1. ASSUME NEW v, Register(s, v) PROVE MailInv'
      BY <1>2, <3>1, ShakenMails DEF Register
    <3>2. CASE Close(s) /\ s \in queues
      BY <1>2, <3>2, ShakenMails DEF Close
    <3>3. CASE Close(s) /\ s \notin queues
      BY <2>1, <3>3 DEF Close
    <3> QED BY <2>1, <2>2, <3>1, <3>2, <3>3
          DEF StreamStep, WatchScan, Watch, RunCallback, Take
  <2>3. ASSUME NEW x \in Scans, UpdateStatus(x) \/ UpdateElsewhere(x) PROVE MailInv'
    BY <2>1, <2>3 DEF UpdateStatus, UpdateElsewhere, watching
  <2>4. CASE PodDies
    <3>1. /\ mishaps \subseteq mishaps' /\ UNCHANGED <<invited, mailed>>
          /\ \A t \in Threads : Invites(t) => call[t].row \in mishaps'
      BY <2>4 DEF PodDies, Mishap
    <3>2. \A t \in Threads : ~Invites(t)'
      BY <2>4, IdleOK DEF PodDies, Invites, Told
    <3> QED BY <1>2, <3>1, <3>2 DEF MailInv, InvitationsAreMailed, AtWork, MishapInv
  <2>5. CASE UNCHANGED vars
    BY <2>1, <2>5 DEF vars
  <2> QED BY <1>2, <2>2, <2>3, <2>4, <2>5, ServiceMails DEF Next
<1>3. IInv => TypeOK
  BY DEF IInv
<1>4. MailInv => InvitationsAreMailed
  BY DEF MailInv
<1> QED BY <1>1, <1>2, <1>3, <1>4, Invariance, PTL DEF Spec
=============================================================================
