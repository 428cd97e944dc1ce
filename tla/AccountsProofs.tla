---------------------------- MODULE AccountsProofs ----------------------------
(***************************************************************************)
(* Proofs about Accounts.  A commit may follow what it is based on by any  *)
(* number of other commits; the proofs rest on what a call in progress may *)
(* still rely on then (CallInv, RelyInv).                                  *)
(***************************************************************************)
EXTENDS Accounts, TLAPS

(* What each operation is going to write, whatever happened since it read. *)
CallInv(call) ==
  /\ call.op = "invite" =>
       /\ DOMAIN call.writes = UserColumns
       /\ call.writes.status = "pending_activation"
       /\ call.writes.password = "placeholder" /\ ~call.writes.used
  /\ call.op = "setup" =>
       /\ UserColumns \ {"role"} \subseteq DOMAIN call.writes
       /\ "role" \notin DOMAIN call.writes
       /\ call.seen.status # "active" /\ ~call.seen.used
       /\ call.writes.status = "active" /\ call.writes.used
       /\ call.writes.password \in Passwords
  /\ call.op = "login" => DOMAIN call.writes = {}
  /\ call.op = "password" =>
       DOMAIN call.writes = {"password"} /\ call.writes.password \in Passwords
  /\ call.op = "role" => DOMAIN call.writes = {"role"}
  /\ call.op = "activation" => DOMAIN call.writes = {"active"}
  /\ call.op \in {"rotate", "revoke"} => DOMAIN call.writes = {"token"}

(* What remains true of the user until a call ends.                        *)
RelyInv(call) == call.op \in {"login", "password"} => SetUp(call.user)

ThreadInv == \A t \in Threads : CallInv(thread[t]) /\ RelyInv(thread[t])

IInv == TypeOK /\ SetUpTogether /\ SessionsFollowSetUp /\ ThreadInv

-----------------------------------------------------------------------------

LEMMA Columns ==
  /\ DOMAIN Values = UserColumns \cup {"token"}
  /\ Values.active = BOOLEAN /\ Values.used = BOOLEAN
  /\ Values.status = {"absent", "pending_activation", "active"}
  /\ Values.password = Passwords \cup {"placeholder"}
  /\ Values.role = Roles /\ Values.token = Threads \cup {"none"}
BY DEF Values, UserColumns

(* A call that begins keeps the invariant if its own record does.          *)
LEMMA BeginKeeps ==
  ASSUME IInv, NEW t \in Threads, NEW op \in Operations, NEW u \in Users, NEW writes,
         Begin(t, op, u, writes),
         DOMAIN writes \subseteq DOMAIN Values, Typed(writes),
         CallInv([op |-> op, user |-> u, seen |-> View(u), writes |-> writes]),
         RelyInv([op |-> op, user |-> u, seen |-> View(u), writes |-> writes])
  PROVE  IInv'
<1> DEFINE call == [op |-> op, user |-> u, seen |-> View(u), writes |-> writes]
<1>1. /\ UNCHANGED <<row, invitation, agentToken, session, access>>
      /\ thread' = [thread EXCEPT ![t] = call]
  BY DEF Begin
<1>2. \A x \in Threads : thread'[x] = IF x = t THEN call ELSE thread[x]
  BY <1>1 DEF IInv, TypeOK
<1>3. DOMAIN View(u) = DOMAIN Values /\ Typed(View(u))
  <2>1. \A c \in DOMAIN Values : View(u)[c] \in Values[c]
    BY Columns DEF IInv, TypeOK, View, Typed, Values, UserColumns
  <2> QED BY <2>1 DEF View, Typed
<1>4. CallOK(call)
  BY <1>3 DEF CallOK
<1>5. TypeOK'
  <2>1. \A x \in Threads : CallOK(thread'[x])
    BY <1>2, <1>4 DEF IInv, TypeOK
  <2>2. DOMAIN thread' = Threads
    BY <1>1 DEF IInv, TypeOK
  <2> QED BY <1>1, <2>1, <2>2 DEF IInv, TypeOK, Typed, CallOK
<1>6. SetUpTogether' /\ SessionsFollowSetUp'
  BY <1>1 DEF IInv, SetUpTogether, SessionsFollowSetUp, SetUp
<1>7. ThreadInv'
  <2>1. \A x \in Threads : CallInv(thread'[x])
    BY <1>2 DEF IInv, ThreadInv
  <2>2. \A x \in Threads : RelyInv(thread'[x])
    BY <1>2 DEF IInv, ThreadInv
  <2> QED BY <1>1, <2>1, <2>2 DEF ThreadInv, CallInv, RelyInv, SetUp
<1> QED BY <1>5, <1>6, <1>7 DEF IInv

LEMMA ReadsKeep ==
  ASSUME IInv, NEW t \in Threads, NEW u \in Users, UserCall(t, u)
  PROVE  IInv'
<1>1. CASE Login(t, u)
  BY <1>1, AccountsAssumption, BeginKeeps
  DEF Login, NoWrites, Operations, Typed, CallInv, RelyInv, IInv, SetUpTogether
<1>2. ASSUME NEW role \in Roles, Invite(t, u, role)  PROVE IInv'
  <2> DEFINE w == [ active |-> FALSE, status |-> "pending_activation",
                    password |-> "placeholder", role |-> role, used |-> FALSE ]
  <2>1. DOMAIN w = UserColumns
    BY DEF UserColumns
  <2>2. /\ w.active \in Values.active /\ w.status \in Values.status
        /\ w.password \in Values.password /\ w.role \in Values.role
        /\ w.used \in Values.used
    BY Columns
  <2> HIDE DEF w
  <2>3. Typed(w)
    BY <2>1, <2>2 DEF Typed, UserColumns
  <2> USE DEF w
  <2> QED BY <1>2, <2>1, <2>3, Columns, BeginKeeps DEF Invite, Operations, CallInv, RelyInv
<1>3. ASSUME NEW role \in Roles, UpdateUserRole(t, u, role)  PROVE IInv'
  BY <1>3, BeginKeeps DEF UpdateUserRole, Operations, Typed, Values, CallInv, RelyInv
<1>4. ASSUME NEW password \in Passwords, SetupPassword(t, u, password)  PROVE IInv'
  <2> DEFINE columns == (UserColumns \ {"role"})
                          \cup IF row[u].role = "owner" THEN {"token"} ELSE {}
             w == [c \in columns |-> CASE c \in {"active", "used"} -> TRUE
                                       [] c = "status" -> "active"
                                       [] c = "password" -> password
                                       [] c = "token" -> t]
             call == [op |-> "setup", user |-> u, seen |-> View(u), writes |-> w]
  <2>1. DOMAIN w = columns /\ columns \subseteq DOMAIN Values /\ "role" \notin columns
    BY Columns DEF UserColumns
  <2>2. w.active = TRUE /\ w.used = TRUE /\ w.status = "active" /\ w.password = password
    BY DEF UserColumns
  <2>3. "token" \in columns => w.token = t
    BY DEF UserColumns
  <2>4. Typed(w)
    <3>1. /\ w.active \in Values.active /\ w.used \in Values.used
          /\ w.status \in Values.status /\ w.password \in Values.password
          /\ "token" \in columns => w.token \in Values.token
      BY <2>2, <2>3, Columns
    <3> HIDE DEF w
    <3> QED BY <2>1, <3>1, Columns DEF Typed, UserColumns
  <2>5. View(u).status # "active" /\ ~View(u).used
    BY <1>4, Columns DEF SetupPassword, View, UserColumns
  <2>6. CallInv(call) /\ RelyInv(call)
    BY <2>1, <2>2, <2>5 DEF CallInv, RelyInv
  <2>7. Begin(t, "setup", u, w)
    BY <1>4 DEF SetupPassword
  <2> HIDE DEF w, columns
  <2> QED BY <2>1, <2>4, <2>6, <2>7, BeginKeeps DEF Operations
<1>5. ASSUME NEW password \in Passwords, UpdatePassword(t, u, password)  PROVE IInv'
  BY <1>5, AccountsAssumption, BeginKeeps
  DEF UpdatePassword, Operations, Typed, Values, CallInv, RelyInv, IInv, SetUpTogether
<1>6. ASSUME NEW active \in BOOLEAN, SetUserActive(t, u, active)  PROVE IInv'
  BY <1>6, BeginKeeps DEF SetUserActive, Operations, Typed, Values, CallInv, RelyInv
<1> QED BY <1>1, <1>2, <1>3, <1>4, <1>5, <1>6 DEF UserCall

LEMMA TokenReadsKeep ==
  ASSUME IInv, NEW t \in Threads, RotateAgentToken(t) \/ RevokeAgentToken(t)
  PROVE  IInv'
<1>1. CASE RotateAgentToken(t)
  BY <1>1, AccountsAssumption, BeginKeeps
  DEF RotateAgentToken, Operations, Typed, Values, CallInv, RelyInv
<1>2. CASE RevokeAgentToken(t)
  BY <1>2, AccountsAssumption, BeginKeeps
  DEF RevokeAgentToken, Operations, Typed, Values, CallInv, RelyInv
<1> QED BY <1>1, <1>2

-----------------------------------------------------------------------------

(* Ending a call keeps what the other calls rely on, as long as no user    *)
(* who has set up leaves that state.                                       *)
LEMMA EndKeepsThreads ==
  ASSUME IInv, NEW t \in Threads,
         thread' = [thread EXCEPT ![t] = Idle] \/
           (thread[t].op = "invite"
             /\ thread' = [thread EXCEPT ![t] = [op |-> "mail", user |-> thread[t].user]]),
         \A u \in Users : SetUp(u) => SetUp(u)'
  PROVE  ThreadInv' /\ DOMAIN thread' = Threads /\ \A x \in Threads : CallOK(thread'[x])
<1>1. PICK end \in {Idle, [op |-> "mail", user |-> thread[t].user]} :
        thread' = [thread EXCEPT ![t] = end] /\ CallOK(end)
  BY DEF IInv, TypeOK, CallOK, Idle, Operations
<1>2. end.op \in {"idle", "mail"}
  BY DEF Idle
<1>3. \A x \in Threads : thread'[x] = IF x = t THEN end ELSE thread[x]
  BY <1>1 DEF IInv, TypeOK
<1>4. \A x \in Threads : CallOK(thread'[x])
  BY <1>1, <1>3 DEF IInv, TypeOK
<1>5. DOMAIN thread' = Threads
  BY <1>1 DEF IInv, TypeOK
<1>6. \A x \in Threads : CallInv(thread'[x])
  BY <1>2, <1>3 DEF IInv, ThreadInv, CallInv
<1>7. ASSUME NEW x \in Threads  PROVE RelyInv(thread[x])' 
  <2>1. CASE x = t
    BY <1>2, <1>3, <2>1 DEF RelyInv
  <2>2. CASE x # t /\ thread[x].op \in {"login", "password"}
    <3>1. thread[x].user \in Users
      BY <2>2 DEF IInv, TypeOK, CallOK, Idle
    <3>2. SetUp(thread[x].user)
      BY <2>2 DEF IInv, ThreadInv, RelyInv
    <3> QED BY <1>3, <2>2, <3>1, <3>2 DEF RelyInv, SetUp
  <2> QED BY <1>3, <2>1, <2>2 DEF RelyInv
<1> QED BY <1>4, <1>5, <1>6, <1>7 DEF ThreadInv, CallInv

(* What a commit makes of the row of its user.                             *)
LEMMA StoredRow ==
  ASSUME IInv, NEW t \in Threads, thread[t].op \in Operations \ {"invite"},
         NEW u, u = thread[t].user
  PROVE  LET new == Stored(u, thread[t]) IN
         /\ u \in Users /\ DOMAIN new = UserColumns /\ Typed(new)
         /\ thread[t].op = "setup" =>
              new.status = "active" /\ new.used /\ new.password \in Passwords
         /\ thread[t].op # "setup" => new.status = row[u].status /\ new.used = row[u].used
         /\ thread[t].op \notin {"setup", "password"} => new.password = row[u].password
         /\ thread[t].op = "password" => new.password \in Passwords /\ SetUp(u)
         /\ thread[t].op \notin {"setup", "activation"} => new.active = row[u].active
         /\ thread[t].op # "role" => new.role = row[u].role
<1> DEFINE call == thread[t]  new == Stored(u, call)
<1>1. /\ CallOK(call) /\ CallInv(call) /\ RelyInv(call) /\ u \in Users
      /\ Typed(call.writes) /\ Typed(call.seen)
  BY DEF IInv, TypeOK, ThreadInv, CallOK, Operations, Idle
<1>2. /\ DOMAIN new = UserColumns
      /\ \A c \in UserColumns : new[c] = IF c \in Flushed(call) THEN call.writes[c] ELSE row[u][c]
  BY DEF Stored
<1>3. Typed(new)
  BY <1>1, <1>2 DEF Typed, Flushed, IInv, TypeOK
<1>4. \A c \in UserColumns : c \notin DOMAIN call.writes => new[c] = row[u][c]
  BY <1>2 DEF Flushed
<1>5. CASE call.op = "setup"
  <2>1. {"status", "used", "password"} \subseteq Flushed(call)
    BY <1>1, <1>5 DEF CallInv, Flushed, Hashed, UserColumns
  <2>2. new.status = "active" /\ new.used /\ new.password \in Passwords
    BY <1>1, <1>2, <1>5, <2>1 DEF CallInv, UserColumns
  <2>3. new.role = row[u].role
    BY <1>1, <1>4, <1>5 DEF CallInv, UserColumns
  <2> QED BY <1>1, <1>2, <1>3, <1>5, <2>2, <2>3
<1>6. CASE call.op = "password"
  <2>1. "password" \in Flushed(call)
    BY <1>1, <1>6 DEF CallInv, Flushed, Hashed
  <2>2. new.password \in Passwords
    BY <1>1, <1>2, <1>6, <2>1 DEF CallInv, UserColumns
  <2>3. new.status = row[u].status /\ new.used = row[u].used
          /\ new.active = row[u].active /\ new.role = row[u].role
    BY <1>1, <1>4, <1>6 DEF CallInv, UserColumns
  <2> QED BY <1>1, <1>2, <1>3, <1>6, <2>2, <2>3 DEF RelyInv
<1>7. CASE call.op \notin {"setup", "password"}
  <2>1. DOMAIN call.writes \subseteq {"role", "active", "token"}
    BY <1>1, <1>7 DEF CallInv, Operations
  <2>2. /\ new.status = row[u].status /\ new.used = row[u].used
        /\ new.password = row[u].password
    BY <1>4, <2>1 DEF UserColumns
  <2>3. call.op # "activation" => new.active = row[u].active
    BY <1>1, <1>4, <1>7 DEF CallInv, Operations, UserColumns
  <2>4. call.op # "role" => new.role = row[u].role
    BY <1>1, <1>4, <1>7 DEF CallInv, Operations, UserColumns
  <2> QED BY <1>1, <1>2, <1>3, <1>7, <2>2, <2>3, <2>4
<1> QED BY <1>5, <1>6, <1>7

LEMMA CommitKeeps ==
  ASSUME IInv, NEW t \in Threads, Commit(t)
  PROVE  IInv'
<1> DEFINE call == thread[t]  u == call.user  new == Stored(u, call)
<1>1. call.op \in Operations \ {"invite"} /\ row' = [row EXCEPT ![u] = new]
  BY DEF Commit
<1>2. /\ u \in Users /\ DOMAIN new = UserColumns /\ Typed(new)
      /\ call.op = "setup" => new.status = "active" /\ new.used /\ new.password \in Passwords
      /\ call.op # "setup" => new.status = row[u].status /\ new.used = row[u].used
      /\ call.op \notin {"setup", "password"} => new.password = row[u].password
      /\ call.op = "password" => new.password \in Passwords /\ SetUp(u)
  BY <1>1, StoredRow
<1> HIDE DEF new
<1>3. \A x \in Users : row'[x] = IF x = u THEN new ELSE row[x]
  BY <1>1 DEF IInv, TypeOK
<1>4. \A x \in Users : SetUp(x) => SetUp(x)'
  BY <1>2, <1>3 DEF SetUp
<1>5. thread' = [thread EXCEPT ![t] = Idle]
  BY DEF Commit
<1>6. ThreadInv' /\ DOMAIN thread' = Threads /\ \A x \in Threads : CallOK(thread'[x])
  BY <1>4, <1>5, EndKeepsThreads
<1>7. agentToken' \in Threads \cup {"none"}
  <2>1. CASE "token" \in Flushed(call)
    <3>1. Typed(call.writes)
      BY <1>1 DEF IInv, TypeOK, CallOK, Operations, Idle
    <3>2. call.writes.token \in Threads \cup {"none"}
      BY <2>1, <3>1, Columns DEF Typed, Flushed
    <3> QED BY <2>1, <3>2 DEF Commit
  <2>2. CASE "token" \notin Flushed(call)
    BY <2>2 DEF Commit, IInv, TypeOK
  <2> QED BY <2>1, <2>2
<1>8. session' \in [Sessions -> Users \cup {"none"}] /\ access' \subseteq Users
  BY <1>2 DEF Commit, IInv, TypeOK
<1>9. TypeOK'
  <2>1. \A x \in Users : DOMAIN row'[x] = UserColumns /\ Typed(row'[x])
    BY <1>2, <1>3 DEF IInv, TypeOK
  <2>2. DOMAIN row' = Users /\ invitation' = invitation
    BY <1>1 DEF IInv, TypeOK, Commit
  <2> QED BY <1>6, <1>7, <1>8, <2>1, <2>2 DEF IInv, TypeOK, Typed, CallOK
<1>10. SetUpTogether'
  <2> SUFFICES ASSUME NEW x \in Users
               PROVE  /\ row'[x].used <=> row'[x].status = "active"
                      /\ row'[x].password \in Passwords <=> row'[x].status = "active"
    BY DEF SetUpTogether, SetUp
  <2>1. /\ row[x].used <=> row[x].status = "active"
        /\ row[x].password \in Passwords <=> row[x].status = "active"
    BY DEF IInv, SetUpTogether, SetUp
  <2>2. CASE x # u
    BY <1>3, <2>1, <2>2
  <2>3. CASE x = u /\ call.op = "setup"
    BY <1>2, <1>3, <2>3
  <2>4. CASE x = u /\ call.op = "password"
    BY <1>2, <1>3, <2>1, <2>4 DEF SetUp
  <2>5. CASE x = u /\ call.op \notin {"setup", "password"}
    BY <1>2, <1>3, <2>1, <2>5
  <2> QED BY <2>2, <2>3, <2>4, <2>5
<1>11. SessionsFollowSetUp'
  <2>1. \A x \in Users : row[x].used => row'[x].used
    BY <1>2, <1>3
  <2>2. OpensSession(call) => row'[u].used
    <3>1. CASE call.op = "setup"
      BY <1>2, <1>3, <3>1
    <3>2. CASE call.op = "login"
      <4>1. SetUp(u)
        BY <3>2 DEF IInv, ThreadInv, RelyInv
      <4>2. row[u].used
        BY <1>2, <4>1 DEF IInv, SetUpTogether
      <4> QED BY <1>2, <2>1, <4>2
    <3> QED BY <3>1, <3>2 DEF OpensSession
  <2>3. CASE ~OpensSession(call)
    <3>1. session' = session /\ access' = access
      BY <2>3 DEF Commit
    <3> QED BY <2>1, <3>1 DEF IInv, TypeOK, SessionsFollowSetUp
  <2>4. CASE OpensSession(call)
    <3>1. PICK s \in Sessions : session' = [session EXCEPT ![s] = u]
      BY <2>4 DEF Commit
    <3>2. access' = access \cup {u}
      BY <2>4 DEF Commit
    <3>3. \A z \in Sessions : session'[z] # "none" => row'[session'[z]].used
      BY <1>2, <2>1, <2>2, <2>4, <3>1 DEF IInv, TypeOK, SessionsFollowSetUp
    <3>4. access' \subseteq {x \in Users : row'[x].used}
      BY <1>2, <2>1, <2>2, <2>4, <3>2 DEF IInv, TypeOK, SessionsFollowSetUp
    <3> QED BY <3>3, <3>4 DEF SessionsFollowSetUp
  <2> QED BY <2>3, <2>4
<1> QED BY <1>6, <1>9, <1>10, <1>11 DEF IInv

LEMMA CommitInviteKeeps ==
  ASSUME IInv, NEW t \in Threads, CommitInvite(t)
  PROVE  IInv'
<1> DEFINE u == thread[t].user  w == thread[t].writes
<1>1. /\ thread[t].op = "invite" /\ ~Exists(u) /\ row' = [row EXCEPT ![u] = w]
      /\ thread' = [thread EXCEPT ![t] = [op |-> "mail", user |-> u]]
      /\ UNCHANGED <<invitation, agentToken, session, access>>
  BY DEF CommitInvite
<1>2. u \in Users /\ Typed(w)
  BY <1>1 DEF IInv, TypeOK, CallOK, Idle
<1>3. /\ DOMAIN w = UserColumns
      /\ w.status = "pending_activation" /\ w.password = "placeholder" /\ ~w.used
  BY <1>1 DEF IInv, ThreadInv, CallInv
<1> HIDE DEF u, w
<1>4. \A x \in Users : row'[x] = IF x = u THEN w ELSE row[x]
  BY <1>1 DEF IInv, TypeOK
<1>5. \A x \in Users : SetUp(x) => SetUp(x)'
  BY <1>1, <1>2, <1>4 DEF SetUp, Exists
<1>6. ThreadInv' /\ DOMAIN thread' = Threads /\ \A x \in Threads : CallOK(thread'[x])
  BY <1>1, <1>5, EndKeepsThreads DEF u
<1>7. TypeOK'
  <2>1. \A x \in Users : DOMAIN row'[x] = UserColumns /\ Typed(row'[x])
    BY <1>2, <1>3, <1>4 DEF IInv, TypeOK
  <2>2. DOMAIN row' = Users
    BY <1>1 DEF IInv, TypeOK
  <2> QED BY <1>1, <1>6, <2>1, <2>2 DEF IInv, TypeOK, Typed, CallOK
<1>8. SetUpTogether'
  BY <1>3, <1>4, AccountsAssumption DEF IInv, SetUpTogether, SetUp
<1>9. SessionsFollowSetUp'
  <2>1. \A x \in Users : row[x].used => row'[x].used
    BY <1>1, <1>2, <1>4 DEF IInv, SetUpTogether, SetUp, Exists
  <2> QED BY <1>1, <2>1 DEF IInv, TypeOK, SessionsFollowSetUp
<1> QED BY <1>6, <1>7, <1>8, <1>9 DEF IInv

(* The other ends of a call, and the steps without a thread, leave the     *)
(* rows alone.                                                             *)
LEMMA RowsAlone ==
  ASSUME IInv, row' = row
  PROVE  SetUpTogether' /\ \A u \in Users : SetUp(u) => SetUp(u)'
BY DEF IInv, SetUpTogether, SetUp

LEMMA EndsKeep ==
  ASSUME IInv, NEW t \in Threads, SendMail(t) \/ Abandon(t)
  PROVE  IInv'
<1>1. /\ UNCHANGED <<row, agentToken, session, access>>
      /\ thread' = [thread EXCEPT ![t] = Idle]
  BY DEF SendMail, Abandon
<1>2. invitation' \in [Users -> {"unsent", "sent", "expired"}]
  BY DEF SendMail, Abandon, IInv, TypeOK
<1>3. ThreadInv' /\ DOMAIN thread' = Threads /\ \A x \in Threads : CallOK(thread'[x])
  BY <1>1, RowsAlone, EndKeepsThreads
<1>4. TypeOK'
  BY <1>1, <1>2, <1>3 DEF IInv, TypeOK, Typed, CallOK
<1>5. SetUpTogether' /\ SessionsFollowSetUp'
  BY <1>1, RowsAlone DEF IInv, SessionsFollowSetUp
<1> QED BY <1>3, <1>4, <1>5 DEF IInv

LEMMA OthersKeep ==
  ASSUME IInv,
         \/ \E s \in Sessions : Refresh(s) \/ Logout(s)
         \/ \E u \in Users : InvitationExpires(u) \/ AccessExpires(u)
  PROVE  IInv'
<1>1. UNCHANGED <<row, agentToken, thread>>
  BY DEF Refresh, Logout, InvitationExpires, AccessExpires
<1>2. /\ invitation' \in [Users -> {"unsent", "sent", "expired"}]
      /\ session' \in [Sessions -> Users \cup {"none"}]
      /\ access' \subseteq Users
  BY DEF Refresh, Logout, InvitationExpires, AccessExpires, IInv, TypeOK
<1>3. TypeOK'
  BY <1>1, <1>2 DEF IInv, TypeOK, Typed, CallOK
<1>4. ThreadInv'
  BY <1>1 DEF IInv, ThreadInv, CallInv, RelyInv, SetUp
<1>5. SessionsFollowSetUp'
  BY <1>1 DEF IInv, TypeOK, SessionsFollowSetUp, Refresh, Logout, InvitationExpires, AccessExpires
<1> QED BY <1>1, <1>3, <1>4, <1>5, RowsAlone DEF IInv

-----------------------------------------------------------------------------

LEMMA InitHolds == Init => IInv
<1> SUFFICES ASSUME Init PROVE IInv
  OBVIOUS
<1>1. TypeOK
  <2>1. \A u \in Users : DOMAIN row[u] = UserColumns
    BY DEF Init, UserColumns
  <2>2. \A u \in Users :
          /\ row[u].active \in Values.active /\ row[u].status \in Values.status
          /\ row[u].password \in Values.password /\ row[u].role \in Values.role
          /\ row[u].used \in Values.used
    BY Columns, AccountsAssumption DEF Init
  <2>3. \A u \in Users : Typed(row[u])
    BY <2>1, <2>2 DEF Typed, UserColumns
  <2>4. \A t \in Threads : CallOK(thread[t])
    BY DEF Init, CallOK
  <2> QED BY <2>1, <2>3, <2>4 DEF Init, TypeOK
<1>2. SetUpTogether
  BY AccountsAssumption DEF Init, SetUpTogether, SetUp
<1>3. SessionsFollowSetUp
  BY DEF Init, SessionsFollowSetUp
<1>4. ThreadInv
  BY DEF Init, ThreadInv, CallInv, RelyInv, Idle
<1> QED BY <1>1, <1>2, <1>3, <1>4 DEF IInv

LEMMA Inductive == IInv /\ [Next]_vars => IInv'
<1> SUFFICES ASSUME IInv, [Next]_vars PROVE IInv'
  OBVIOUS
<1>1. ASSUME NEW t \in Threads, NEW u \in Users, UserCall(t, u)  PROVE IInv'
  BY <1>1, ReadsKeep
<1>2. ASSUME NEW t \in Threads, RotateAgentToken(t) \/ RevokeAgentToken(t)  PROVE IInv'
  BY <1>2, TokenReadsKeep
<1>3. ASSUME NEW t \in Threads, CommitInvite(t)  PROVE IInv'
  BY <1>3, CommitInviteKeeps
<1>4. ASSUME NEW t \in Threads, Commit(t)  PROVE IInv'
  BY <1>4, CommitKeeps
<1>5. ASSUME NEW t \in Threads, SendMail(t) \/ Abandon(t)  PROVE IInv'
  BY <1>5, EndsKeep
<1>6. CASE \/ \E s \in Sessions : Refresh(s) \/ Logout(s)
           \/ \E u \in Users : InvitationExpires(u) \/ AccessExpires(u)
  BY <1>6, OthersKeep
<1>7. CASE UNCHANGED vars
  BY <1>7 DEF vars, IInv, TypeOK, Typed, CallOK, SetUpTogether, SetUp, SessionsFollowSetUp,
              ThreadInv, CallInv, RelyInv
<1> QED BY <1>1, <1>2, <1>3, <1>4, <1>5, <1>6, <1>7 DEF Next

LEMMA Invariant == Spec => []IInv
BY InitHolds, Inductive, PTL DEF Spec

(* The rows, the tokens and what the calls have read and are going to      *)
(* write always have their types.                                          *)
THEOREM TypeCorrect == Spec => []TypeOK
<1>1. IInv => TypeOK
  BY DEF IInv
<1> QED BY <1>1, Invariant, PTL

(* However calls interleave, for every number of users and calls, a set-up *)
(* is seen whole or not at all.                                            *)
THEOREM SetUpCorrect == Spec => []SetUpTogether
<1>1. IInv => SetUpTogether
  BY DEF IInv
<1> QED BY <1>1, Invariant, PTL

(* Sessions and access tokens exist only for users who redeemed their      *)
(* invitation.                                                             *)
THEOREM SessionsCorrect == Spec => []SessionsFollowSetUp
<1>1. IInv => SessionsFollowSetUp
  BY DEF IInv
<1> QED BY <1>1, Invariant, PTL

(* No call undoes a concurrent change of a column it is not about.         *)
THEOREM ColumnsCorrect == Spec => ColumnsSurvive
<1> DEFINE Kept == \A u \in Users : Exists(u) =>
       /\ row'[u].role # row[u].role => \E t \in Threads : Ends(t, {"role"}, u)
       /\ row'[u].active # row[u].active =>
            \E t \in Threads : Ends(t, {"activation", "setup"}, u)
       /\ row'[u].password # row[u].password =>
            \E t \in Threads : Ends(t, {"password", "setup"}, u)
<1>1. IInv /\ [Next]_vars => [Kept]_vars
  <2> SUFFICES ASSUME IInv, Next PROVE Kept
    OBVIOUS
  <2>1. CASE row' = row
    BY <2>1
  <2>2. ASSUME NEW t \in Threads, CommitInvite(t)  PROVE Kept
    <3>1. ~Exists(thread[t].user) /\ row' = [row EXCEPT ![thread[t].user] = thread[t].writes]
      BY <2>2 DEF CommitInvite
    <3> QED BY <3>1 DEF IInv, TypeOK
  <2>3. ASSUME NEW t \in Threads, Commit(t)  PROVE Kept
    <3> DEFINE v == thread[t].user  new == Stored(v, thread[t])
    <3>1. /\ thread[t].op \in Operations \ {"invite"} /\ row' = [row EXCEPT ![v] = new]
          /\ thread' = [thread EXCEPT ![t] = Idle]
      BY <2>3 DEF Commit
    <3>2. /\ v \in Users
          /\ thread[t].op \notin {"setup", "password"} => new.password = row[v].password
          /\ thread[t].op \notin {"setup", "activation"} => new.active = row[v].active
          /\ thread[t].op # "role" => new.role = row[v].role
      BY <3>1, StoredRow
    <3> HIDE DEF new
    <3>3. \A x \in Users : row'[x] = IF x = v THEN new ELSE row[x]
      BY <3>1 DEF IInv, TypeOK
    <3>4. thread'[t] = Idle
      BY <3>1 DEF IInv, TypeOK
    <3> QED BY <3>2, <3>3, <3>4 DEF Ends
  <2> QED BY <2>1, <2>2, <2>3 DEF Next, UserCall, Login, Invite, UpdateUserRole, SetupPassword,
            UpdatePassword, SetUserActive, RotateAgentToken, RevokeAgentToken, Begin, SendMail,
            Abandon, Refresh, Logout, InvitationExpires, AccessExpires
<1>2. Spec => [][Kept]_vars
  BY <1>1, Invariant, PTL DEF Spec
<1> QED BY <1>2 DEF ColumnsSurvive
-----------------------------------------------------------------------------
(* Each call takes effect at one moment.                                   *)

(* What a call that is going to commit relies on: what it read is decided  *)
(* for good, or the columns that depend on it are written anyway.          *)
PendingInv(call) ==
  /\ call.op = "invite" =>
       /\ ~call.writes.active
       /\ IF call.user = Owner THEN call.writes.role = "owner" ELSE Exists(Owner)
  /\ call.op \in Operations \ {"invite"} => Exists(call.user)
  /\ call.op = "setup" =>
       /\ ~call.seen.active /\ call.writes.active
       /\ "token" \in DOMAIN call.writes => call.writes.token \in Threads
  /\ call.op \in {"rotate", "revoke"} => call.user = Owner

(* The owner comes first, and who is not invited is not active.            *)
CompanyInv ==
  /\ \A u \in Users : Exists(u) => Exists(Owner)
  /\ \A u \in Users : ~Exists(u) => ~row[u].active
  /\ \A t \in Threads : PendingInv(thread[t])

(* The users who hold a usable token.                                      *)
Holders == access \cup {session[s] : s \in {z \in Sessions : session[z] # "none"}}

(* A step that loses no user keeps what the other calls rely on.           *)
LEMMA PendingKept ==
  ASSUME TypeOK, CompanyInv, NEW t \in Threads, NEW end,
         thread' = [thread EXCEPT ![t] = end], PendingInv(thread[t])',
         \A u \in Users : Exists(u) => Exists(u)'
  PROVE  \A x \in Threads : PendingInv(thread[x])'
<1>. SUFFICES ASSUME NEW x \in Threads, x # t
              PROVE  PendingInv(thread[x])'
  OBVIOUS
<1>1. PendingInv(thread[x]) /\ thread'[x] = thread[x] /\ CallOK(thread[x])
  BY DEF CompanyInv, TypeOK
<1>2. thread[x].op \in Operations => thread[x].user \in Users
  BY <1>1 DEF CallOK, Operations, Idle
<1>. QED
  BY <1>1, <1>2, AccountsAssumption DEF PendingInv, Operations

(* A call begins: it relies on what it has just read.                      *)
LEMMA BeginPending ==
  ASSUME IInv, CompanyInv, NEW t \in Threads,
         NEW op \in Operations, NEW u \in Users, NEW writes, Begin(t, op, u, writes),
         PendingInv([op |-> op, user |-> u, seen |-> View(u), writes |-> writes])
  PROVE  CompanyInv' /\ UNCHANGED <<row, agentToken, session, access>>
<1> DEFINE call == [op |-> op, user |-> u, seen |-> View(u), writes |-> writes]
<1>1. /\ UNCHANGED <<row, agentToken, session, access>>
      /\ thread' = [thread EXCEPT ![t] = call]
  BY DEF Begin
<1>2. \A x \in Users : Exists(x) <=> Exists(x)'
  BY <1>1 DEF Exists
<1>3. PendingInv(thread[t])'
  <2>. HIDE DEF call
  <2>1. PendingInv(call) /\ thread'[t] = call
    BY <1>1 DEF call, IInv, TypeOK
  <2>. QED
    BY <1>1, <2>1 DEF PendingInv, Exists
<1>4. \A x \in Threads : PendingInv(thread[x])'
  <2>. HIDE DEF call
  <2>. QED
    BY <1>1, <1>2, <1>3, PendingKept DEF IInv
<1>. QED
  BY <1>1, <1>2, <1>4, AccountsAssumption DEF CompanyInv

LEMMA UserCallPending ==
  ASSUME IInv, CompanyInv, NEW t \in Threads, NEW u \in Users, UserCall(t, u)
  PROVE  CompanyInv' /\ UNCHANGED <<row, agentToken, session, access>>
<1>1. CASE Login(t, u)
  <2>1. Exists(u)
    BY <1>1, AccountsAssumption DEF Login, Exists, IInv, SetUpTogether, SetUp
  <2>. QED
    BY <1>1, <2>1, BeginPending DEF Login, Operations, PendingInv
<1>2. ASSUME NEW r \in Roles, Invite(t, u, r)
      PROVE  CompanyInv' /\ UNCHANGED <<row, agentToken, session, access>>
  BY <1>2, BeginPending DEF Invite, Operations, PendingInv
<1>3. ASSUME NEW r \in Roles, UpdateUserRole(t, u, r)
      PROVE  CompanyInv' /\ UNCHANGED <<row, agentToken, session, access>>
  BY <1>3, BeginPending DEF UpdateUserRole, Operations, PendingInv
<1>4. ASSUME NEW p \in Passwords, SetupPassword(t, u, p)
      PROVE  CompanyInv' /\ UNCHANGED <<row, agentToken, session, access>>
  <2> DEFINE columns == (UserColumns \ {"role"})
                          \cup IF row[u].role = "owner" THEN {"token"} ELSE {}
             w == [c \in columns |-> CASE c \in {"active", "used"} -> TRUE
                                       [] c = "status" -> "active"
                                       [] c = "password" -> p
                                       [] c = "token" -> t]
  <2>1. w.active /\ ("token" \in DOMAIN w => w.token = t)
    BY DEF UserColumns
  <2>2. ~View(u).active
    BY <1>4, Columns DEF SetupPassword, View, UserColumns
  <2>3. Exists(u) /\ Begin(t, "setup", u, w)
    BY <1>4 DEF SetupPassword, Exists
  <2> HIDE DEF w
  <2>4. PendingInv([op |-> "setup", user |-> u, seen |-> View(u), writes |-> w])
    BY <2>1, <2>2, <2>3 DEF PendingInv, Operations
  <2>. QED
    BY <2>3, <2>4, BeginPending DEF Operations
<1>5. ASSUME NEW p \in Passwords, UpdatePassword(t, u, p)
      PROVE  CompanyInv' /\ UNCHANGED <<row, agentToken, session, access>>
  <2>1. Exists(u)
    BY <1>5, AccountsAssumption DEF UpdatePassword, Exists, IInv, SetUpTogether, SetUp
  <2>. QED
    BY <1>5, <2>1, BeginPending DEF UpdatePassword, Operations, PendingInv
<1>6. ASSUME NEW a \in BOOLEAN, SetUserActive(t, u, a)
      PROVE  CompanyInv' /\ UNCHANGED <<row, agentToken, session, access>>
  BY <1>6, BeginPending DEF SetUserActive, Operations, PendingInv
<1>. QED
  BY <1>1, <1>2, <1>3, <1>4, <1>5, <1>6 DEF UserCall

LEMMA TokenCallPending ==
  ASSUME IInv, CompanyInv, NEW t \in Threads, RotateAgentToken(t) \/ RevokeAgentToken(t)
  PROVE  CompanyInv' /\ UNCHANGED <<row, agentToken, session, access>>
<1>1. CASE RotateAgentToken(t)
  BY <1>1, AccountsAssumption, BeginPending DEF RotateAgentToken, Operations, PendingInv
<1>2. CASE RevokeAgentToken(t)
  BY <1>2, AccountsAssumption, BeginPending DEF RevokeAgentToken, Operations, PendingInv
<1>. QED
  BY <1>1, <1>2

LEMMA DirectorySame ==
  ASSUME UNCHANGED <<row, agentToken>>, Holders' = Holders
  PROVE  UNCHANGED Directory!vars
BY DEF Directory!vars, Holders

-----------------------------------------------------------------------------

(* An invitation is committed for a user who is not in the directory.      *)
LEMMA InviteTakesEffect ==
  ASSUME IInv, CompanyInv, NEW t \in Threads, CommitInvite(t),
         NEW u, u = thread[t].user, NEW w, w = thread[t].writes
  PROVE  CompanyInv' /\ Directory!Next
<1>1. /\ thread[t].op = "invite" /\ ~Exists(u) /\ row' = [row EXCEPT ![u] = w]
      /\ thread' = [thread EXCEPT ![t] = [op |-> "mail", user |-> u]]
      /\ UNCHANGED <<agentToken, session, access>>
  BY DEF CommitInvite
<1>2. u \in Users /\ Typed(w)
  BY <1>1 DEF IInv, TypeOK, CallOK, Idle
<1>3. /\ DOMAIN w = UserColumns
      /\ w.status = "pending_activation" /\ w.password = "placeholder"
      /\ ~w.active /\ IF u = Owner THEN w.role = "owner" ELSE Exists(Owner)
  BY <1>1 DEF IInv, ThreadInv, CallInv, CompanyInv, PendingInv
<1>4. w.active = FALSE /\ w.role \in Roles
  BY <1>2, <1>3, Columns DEF Typed, UserColumns
<1>5. \A x \in Users : row'[x] = IF x = u THEN w ELSE row[x]
  BY <1>1 DEF IInv, TypeOK
<1>6. \A x \in Users : Exists(x)' <=> (x = u \/ Exists(x))
  BY <1>3, <1>5 DEF Exists
<1>7. CompanyInv'
  <2>1. \A x \in Threads : PendingInv(thread[x])'
    <3>1. thread'[t].op = "mail"
      BY <1>1 DEF IInv, TypeOK
    <3>2. PendingInv(thread[t])'
      BY <3>1 DEF PendingInv, Operations
    <3>. QED
      BY <1>1, <1>6, <3>2, PendingKept DEF IInv
  <2>2. \A x \in Users : Exists(x)' => Exists(Owner)'
    BY <1>3, <1>6, AccountsAssumption DEF CompanyInv
  <2>3. \A x \in Users : ~Exists(x)' => ~row'[x].active
    BY <1>5, <1>6 DEF CompanyInv
  <2>. QED
    BY <2>1, <2>2, <2>3 DEF CompanyInv
<1>8. row[u].active = FALSE /\ row[u].password = "placeholder"
  <2>1. row[u].active \in BOOLEAN /\ row[u].password \in Passwords \cup {"placeholder"}
    BY <1>2, Columns DEF IInv, TypeOK, Typed, UserColumns
  <2>2. ~row[u].active
    BY <1>1, <1>2 DEF CompanyInv
  <2>3. row[u].password \notin Passwords
    BY <1>1, <1>2 DEF IInv, SetUpTogether, SetUp, Exists
  <2>. QED
    BY <2>1, <2>2, <2>3
<1>9. Directory!Invite(u, w.role)
  <2>1. ~Directory!Exists(u) /\ (Exists(Owner) => Directory!Exists(Owner))
    BY <1>1, <1>2, AccountsAssumption DEF Directory!Exists, Exists
  <2>2. /\ [x \in Users |-> row'[x].status] =
             [[x \in Users |-> row[x].status] EXCEPT ![u] = "pending_activation"]
        /\ [x \in Users |-> row'[x].role] =
             [[x \in Users |-> row[x].role] EXCEPT ![u] = w.role]
        /\ [x \in Users |-> row'[x].active] = [x \in Users |-> row[x].active]
        /\ [x \in Users |-> row'[x].password] = [x \in Users |-> row[x].password]
    BY <1>2, <1>3, <1>4, <1>5, <1>8
  <2>. QED
    BY <1>1, <1>3, <2>1, <2>2 DEF Directory!Invite
<1>. QED
  BY <1>2, <1>4, <1>7, <1>9 DEF Directory!Next

(* Who holds a token after a commit: whoever it opens a session for, too.  *)
LEMMA CommitHolders ==
  ASSUME IInv, NEW t \in Threads, Commit(t)
  PROVE  Holders' = IF OpensSession(thread[t]) THEN Holders \cup {thread[t].user} ELSE Holders
<1>1. CASE OpensSession(thread[t])
  <2>1. PICK s \in Sessions : /\ session[s] = "none"
                              /\ session' = [session EXCEPT ![s] = thread[t].user]
    BY <1>1 DEF Commit
  <2>2. access' = access \cup {thread[t].user} /\ thread[t].user # "none"
    <3>1. thread[t].user \in Users
      BY DEF Commit, IInv, TypeOK, CallOK, Operations, Idle
    <3>. QED
      BY <1>1, <3>1, AccountsAssumption DEF Commit
  <2>3. \A z \in Sessions : session'[z] = IF z = s THEN thread[t].user ELSE session[z]
    BY <2>1 DEF IInv, TypeOK
  <2>. QED
    BY <1>1, <2>1, <2>2, <2>3 DEF Holders
<1>2. CASE ~OpensSession(thread[t])
  BY <1>2 DEF Commit, Holders
<1>. QED
  BY <1>1, <1>2

(* A commit is one operation of the directory, on its current columns.     *)
LEMMA CommitTakesEffect ==
  ASSUME IInv, CompanyInv, NEW t \in Threads, Commit(t),
         NEW call, call = thread[t], NEW u, u = call.user, NEW new, new = Stored(u, call)
  PROVE  CompanyInv' /\ [Directory!Next]_(Directory!vars)
<1>1. call.op \in Operations \ {"invite"} /\ row' = [row EXCEPT ![u] = new]
      /\ thread' = [thread EXCEPT ![t] = Idle]
  BY DEF Commit
<1>2. /\ u \in Users /\ DOMAIN new = UserColumns /\ Typed(new)
      /\ call.op = "setup" => new.status = "active" /\ new.used /\ new.password \in Passwords
      /\ call.op # "setup" => new.status = row[u].status /\ new.used = row[u].used
      /\ call.op \notin {"setup", "password"} => new.password = row[u].password
      /\ call.op = "password" => new.password \in Passwords /\ SetUp(u)
      /\ call.op \notin {"setup", "activation"} => new.active = row[u].active
      /\ call.op # "role" => new.role = row[u].role
  BY <1>1, StoredRow
<1>3. call.op = "setup" => new.active = TRUE
  <2>. SUFFICES ASSUME call.op = "setup"
                PROVE  new.active = TRUE
    OBVIOUS
  <2>1. ~call.seen.active /\ call.writes.active /\ "active" \in DOMAIN call.writes
    BY DEF IInv, ThreadInv, CallInv, CompanyInv, PendingInv, UserColumns
  <2>2. Typed(call.writes) /\ DOMAIN call.writes \subseteq DOMAIN Values
    BY <1>1 DEF IInv, TypeOK, CallOK, Idle, Operations
  <2>3. call.writes.active = TRUE
    BY <2>1, <2>2, Columns DEF Typed
  <2>4. "active" \in Flushed(call)
    BY <2>1, <2>3 DEF Flushed
  <2>. QED
    BY <2>3, <2>4 DEF Stored, UserColumns
<1>4. new.role \in Roles /\ new.active \in BOOLEAN
  BY <1>2, Columns DEF Typed, UserColumns
<1>5. Exists(u) /\ call.op \in {"setup", "login", "password", "role", "activation", "rotate", "revoke"}
  BY <1>1 DEF CompanyInv, PendingInv, Operations
<1>6. agentToken' \in {agentToken, call.writes.token} /\ (agentToken' = agentToken \/ "token" \in DOMAIN call.writes)
  BY DEF Commit, Flushed
<1>7. /\ call.op = "setup" => agentToken' \in {agentToken} \cup Threads
      /\ call.op \in {"rotate", "revoke"} => agentToken' \in Threads \cup {"none"}
      /\ call.op \notin {"setup", "rotate", "revoke"} => agentToken' = agentToken
  <2>1. call.op = "setup" => agentToken' \in {agentToken} \cup Threads
    BY <1>6 DEF CompanyInv, PendingInv
  <2>2. agentToken' \in Threads \cup {"none"}
    <3>1. IInv'
      BY CommitKeeps
    <3>. QED
      BY <3>1 DEF IInv, TypeOK
  <2>3. call.op \notin {"setup", "rotate", "revoke"} => "token" \notin DOMAIN call.writes
    BY <1>5 DEF IInv, ThreadInv, CallInv
  <2>. QED
    BY <1>6, <2>1, <2>2, <2>3
<1>8. Holders' = IF call.op \in {"setup", "login"} THEN Holders \cup {u} ELSE Holders
  BY CommitHolders DEF OpensSession
<1>9. call.op \in {"login", "password"} => SetUp(u)
  BY DEF IInv, ThreadInv, RelyInv
<1>10. call.op \in {"rotate", "revoke"} => u = Owner
  BY DEF CompanyInv, PendingInv
<1>11. \A x \in Users : row'[x] = IF x = u THEN new ELSE row[x]
  BY <1>1 DEF IInv, TypeOK
<1>12. \A x \in Users : Exists(x)' <=> Exists(x)
  BY <1>2, <1>5, <1>11 DEF Exists
<1>13. CompanyInv'
  <2>1. \A x \in Threads : PendingInv(thread[x])'
    <3>1. thread'[t] = Idle
      BY <1>1 DEF IInv, TypeOK
    <3>2. PendingInv(thread[t])'
      BY <3>1 DEF PendingInv, Idle, Operations
    <3>. QED
      BY <1>1, <1>12, <3>2, PendingKept DEF IInv
  <2>2. \A x \in Users : ~Exists(x)' => ~row'[x].active
    BY <1>5, <1>11, <1>12 DEF CompanyInv
  <2>. QED
    BY <1>12, <2>1, <2>2, AccountsAssumption DEF CompanyInv
<1>14. Directory!Exists(u) /\ (SetUp(u) => Directory!Member(u))
  BY <1>2, <1>5 DEF Directory!Exists, Directory!Member, Exists, SetUp
<1>15. /\ call.op # "setup" =>
            [x \in Users |-> row[x].status]' = [x \in Users |-> row[x].status]
       /\ call.op # "role" =>
            [x \in Users |-> row[x].role]' = [x \in Users |-> row[x].role]
       /\ call.op \notin {"setup", "activation"} =>
            [x \in Users |-> row[x].active]' = [x \in Users |-> row[x].active]
       /\ call.op \notin {"setup", "password"} =>
            [x \in Users |-> row[x].password]' = [x \in Users |-> row[x].password]
  BY <1>2, <1>11
<1>16. CASE call.op = "setup"
  <2>1. Directory!SetUp(u, new.password)
    BY <1>2, <1>3, <1>7, <1>8, <1>11, <1>14, <1>16 DEF Directory!SetUp, Holders
  <2>. QED
    BY <1>2, <1>13, <1>16, <2>1 DEF Directory!Next
<1>17. CASE call.op = "login"
  <2>1. Directory!Login(u)
    BY <1>7, <1>8, <1>9, <1>14, <1>15, <1>17 DEF Directory!Login, Holders
  <2>. QED
    BY <1>2, <1>13, <2>1 DEF Directory!Next
<1>18. CASE call.op = "password"
  <2>1. [x \in Users |-> row[x].password]' =
          [[x \in Users |-> row[x].password] EXCEPT ![u] = new.password]
    BY <1>11
  <2>2. Directory!ChangePassword(u, new.password)
    BY <1>7, <1>8, <1>9, <1>14, <1>15, <1>18, <2>1 DEF Directory!ChangePassword, Holders
  <2>. QED
    BY <1>2, <1>13, <1>18, <2>2 DEF Directory!Next
<1>19. CASE call.op = "role"
  <2>1. [x \in Users |-> row[x].role]' =
          [[x \in Users |-> row[x].role] EXCEPT ![u] = new.role]
    BY <1>11
  <2>2. Directory!ChangeRole(u, new.role)
    BY <1>7, <1>8, <1>14, <1>15, <1>19, <2>1 DEF Directory!ChangeRole, Holders
  <2>. QED
    BY <1>2, <1>4, <1>13, <2>2 DEF Directory!Next
<1>20. CASE call.op = "activation"
  <2>1. [x \in Users |-> row[x].active]' =
          [[x \in Users |-> row[x].active] EXCEPT ![u] = new.active]
    BY <1>11
  <2>2. Directory!SetActive(u, new.active)
    BY <1>7, <1>8, <1>14, <1>15, <1>20, <2>1 DEF Directory!SetActive, Holders
  <2>. QED
    BY <1>2, <1>4, <1>13, <2>2 DEF Directory!Next
<1>21. CASE call.op \in {"rotate", "revoke"}
  <2>1. Directory!ChangeToken
    BY <1>7, <1>8, <1>10, <1>14, <1>15, <1>21 DEF Directory!ChangeToken, Holders
  <2>. QED
    BY <1>13, <2>1 DEF Directory!Next
<1>. QED
  BY <1>5, <1>16, <1>17, <1>18, <1>19, <1>20, <1>21

(* The other steps: somebody's last token ends, or the directory stays.    *)
LEMMA OthersTakeEffect ==
  ASSUME IInv, CompanyInv,
         \/ \E t \in Threads : SendMail(t) \/ Abandon(t)
         \/ \E s \in Sessions : Refresh(s) \/ Logout(s)
         \/ \E u \in Users : InvitationExpires(u) \/ AccessExpires(u)
  PROVE  CompanyInv' /\ [Directory!Next]_(Directory!vars)
<1>1. UNCHANGED <<row, agentToken>>
  BY DEF SendMail, Abandon, Refresh, Logout, InvitationExpires, AccessExpires
<1>2. CompanyInv'
  <2>1. \A x \in Users : Exists(x)' <=> Exists(x)
    BY <1>1 DEF Exists
  <2>2. CASE \E t \in Threads : SendMail(t) \/ Abandon(t)
    <3>1. PICK t \in Threads : thread' = [thread EXCEPT ![t] = Idle]
      BY <2>2 DEF SendMail, Abandon
    <3>2. thread'[t] = Idle
      BY <3>1 DEF IInv, TypeOK
    <3>3. PendingInv(thread[t])'
      BY <3>2 DEF PendingInv, Idle, Operations
    <3>4. \A x \in Threads : PendingInv(thread[x])'
      BY <2>1, <3>1, <3>3, PendingKept DEF IInv
    <3>. QED
      BY <1>1, <2>1, <3>4, AccountsAssumption DEF CompanyInv
  <2>3. CASE thread' = thread
    BY <1>1, <2>1, <2>3 DEF CompanyInv, PendingInv, Exists
  <2>. QED
    BY <2>2, <2>3 DEF Refresh, Logout, InvitationExpires, AccessExpires
<1>3. \E u \in Users : Holders' \in {Holders, Holders \ {u}}
  <2>1. CASE UNCHANGED <<session, access>>
    BY <2>1, AccountsAssumption DEF Holders
  <2>2. ASSUME NEW s \in Sessions, Refresh(s)
        PROVE  \E u \in Users : Holders' \in {Holders, Holders \ {u}}
    BY <2>2, AccountsAssumption DEF Refresh, Holders
  <2>3. ASSUME NEW s \in Sessions, Logout(s)
        PROVE  \E u \in Users : Holders' \in {Holders, Holders \ {u}}
    <3>1. session[s] \in Users /\ access' = access
      BY <2>3 DEF Logout, IInv, TypeOK
    <3>2. \A z \in Sessions : session'[z] = IF z = s THEN "none" ELSE session[z]
      BY <2>3 DEF Logout, IInv, TypeOK
    <3>3. Holders \ {session[s]} \subseteq Holders' /\ Holders' \subseteq Holders
      BY <3>1, <3>2 DEF Holders
    <3>. QED
      BY <3>1, <3>3
  <2>4. ASSUME NEW u \in Users, AccessExpires(u)
        PROVE  \E x \in Users : Holders' \in {Holders, Holders \ {x}}
    <3>1. Holders \ {u} \subseteq Holders' /\ Holders' \subseteq Holders
      BY <2>4 DEF AccessExpires, Holders
    <3>. QED
      BY <3>1
  <2>. QED
    BY <2>1, <2>2, <2>3, <2>4 DEF SendMail, Abandon, InvitationExpires
<1>4. PICK u \in Users : Holders' \in {Holders, Holders \ {u}}
  BY <1>3
<1>5. CASE Holders' = Holders
  BY <1>1, <1>2, <1>5, DirectorySame
<1>6. CASE Holders' = Holders \ {u}
  <2>1. Directory!Leave(u)
    BY <1>1, <1>6 DEF Directory!Leave, Holders
  <2>. QED
    BY <1>2, <2>1 DEF Directory!Next
<1>. QED
  BY <1>4, <1>5, <1>6

LEMMA DirectoryStep ==
  IInv /\ CompanyInv /\ [Next]_vars => CompanyInv' /\ [Directory!Next]_(Directory!vars)
<1>. SUFFICES ASSUME IInv, CompanyInv, [Next]_vars
              PROVE  CompanyInv' /\ [Directory!Next]_(Directory!vars)
  OBVIOUS
<1>1. CASE \E t \in Threads : \/ \E u \in Users : UserCall(t, u)
                              \/ RotateAgentToken(t) \/ RevokeAgentToken(t)
  <2>1. CompanyInv' /\ UNCHANGED <<row, agentToken, session, access>>
    BY <1>1, UserCallPending, TokenCallPending
  <2>. QED
    BY <2>1, DirectorySame DEF Holders
<1>2. CASE \E t \in Threads : CommitInvite(t)
  BY <1>2, InviteTakesEffect
<1>3. CASE \E t \in Threads : Commit(t)
  BY <1>3, CommitTakesEffect
<1>4. CASE \/ \E t \in Threads : SendMail(t) \/ Abandon(t)
           \/ \E s \in Sessions : Refresh(s) \/ Logout(s)
           \/ \E u \in Users : InvitationExpires(u) \/ AccessExpires(u)
  BY <1>4, OthersTakeEffect
<1>5. CASE UNCHANGED vars
  <2>1. CompanyInv'
    BY <1>5 DEF vars, CompanyInv, PendingInv, Exists
  <2>2. UNCHANGED <<row, agentToken>> /\ Holders' = Holders
    BY <1>5 DEF vars, Holders
  <2>. QED
    BY <2>1, <2>2, DirectorySame
<1>. QED
  BY <1>1, <1>2, <1>3, <1>4, <1>5 DEF Next

(* However the calls of the two services interleave, and although none     *)
(* locks what it read, the accounts change as if each call ran alone at    *)
(* the moment of its commit.                                               *)
THEOREM DirectoryRefinement == Spec => TakesEffectAtOnce
<1>1. Init => CompanyInv /\ Directory!Init
  BY DEF Init, CompanyInv, PendingInv, Idle, Operations, Exists, Directory!Init
<1>2. IInv /\ CompanyInv /\ [Next]_vars
        => CompanyInv' /\ [Directory!Next]_(Directory!vars)
  BY DirectoryStep
<1>. QED
  BY <1>1, <1>2, Invariant, PTL DEF Spec, TakesEffectAtOnce, Directory!Spec
=============================================================================
