------------------------------- MODULE Accounts -------------------------------
(***************************************************************************)
(* The accounts of one company: invitations, passwords, sessions, roles,   *)
(* activation and the agent token (auth.py and company.py).  Each call     *)
(* runs in a worker thread: it reads the rows it is about, hashes or       *)
(* verifies passwords, and commits.  Nothing is locked in between, and the *)
(* ORM writes only the columns that differ from what the call had read.    *)
(*                                                                         *)
(* Requests that are refused whatever the rows hold (roles of the caller,  *)
(* malformed values, the caller's own account) change nothing and are not  *)
(* steps.                                                                  *)
(***************************************************************************)

CONSTANTS
  Users,       \* the users of the company, as told apart by email
  Owner,       \* the user OnboardCompany creates with the company
  Roles, Passwords,
  Threads,     \* bound on the calls at work at a time
  Sessions     \* bound on the refresh tokens that are neither revoked nor expired

ASSUME AccountsAssumption ==
  /\ Owner \in Users
  /\ "owner" \in Roles
  /\ "placeholder" \notin Passwords
  /\ "none" \notin Users \cup Threads

VARIABLES
  row,          \* columns of users, and used_at of the invitation
  invitation,   \* what happened to the clear invitation token
  agentToken,   \* the thread that generated companies.deployment_token
  session,      \* the users of the usable refresh tokens
  access,       \* the users for whom somebody holds an access token
  thread

vars == <<row, invitation, agentToken, session, access, thread>>

(* The values of the columns; token is companies.deployment_token.         *)
Values ==
  [ active |-> BOOLEAN, status |-> {"absent", "pending_activation", "active"},
    password |-> Passwords \cup {"placeholder"}, role |-> Roles, used |-> BOOLEAN,
    token |-> Threads \cup {"none"} ]

Typed(f) == \A c \in DOMAIN f : f[c] \in Values[c]

UserColumns == {"active", "status", "password", "role", "used"}

-----------------------------------------------------------------------------
(* Threads and the unit of work of the ORM.                                *)

Operations ==
  {"invite", "setup", "login", "password", "role", "activation", "rotate", "revoke"}

Idle == [op |-> "idle"]

(* What a call reads: the row of the user and the token of the company.    *)
View(u) ==
  [c \in DOMAIN Values |-> IF c = "token" THEN agentToken ELSE row[u][c]]

NoWrites == [c \in {} |-> "none"]

Begin(t, op, u, writes) ==
  /\ thread[t] = Idle
  /\ thread' = [thread EXCEPT ![t] =
                  [op |-> op, user |-> u, seen |-> View(u), writes |-> writes]]
  /\ UNCHANGED <<row, invitation, agentToken, session, access>>

(* A hash is new each time: it always differs from the one that was read.  *)
Hashed(call) == {"password"} \cup IF call.op = "revoke" THEN {} ELSE {"token"}

Flushed(call) ==
  {c \in DOMAIN call.writes : c \in Hashed(call) \/ call.writes[c] # call.seen[c]}

(* A plausible bug: the whole row is written back.                         *)
BrokenStored(u, call) ==
  [c \in UserColumns |-> IF c \in Flushed(call) THEN call.writes[c] ELSE call.seen[c]]

Stored(u, call) ==
  [c \in UserColumns |-> IF c \in Flushed(call) THEN call.writes[c] ELSE row[u][c]]

-----------------------------------------------------------------------------

CallOK(call) ==
  \/ call = Idle
  \/ /\ call.op \in Operations \cup {"mail"} /\ call.user \in Users
     /\ call.op # "mail" =>
          /\ DOMAIN call.seen = DOMAIN Values /\ DOMAIN call.writes \subseteq DOMAIN Values
          /\ Typed(call.seen) /\ Typed(call.writes)

TypeOK ==
  /\ \A u \in Users : DOMAIN row[u] = UserColumns /\ Typed(row[u])
  /\ DOMAIN row = Users
  /\ invitation \in [Users -> {"unsent", "sent", "expired"}]
  /\ agentToken \in Threads \cup {"none"}
  /\ session \in [Sessions -> Users \cup {"none"}]
  /\ access \subseteq Users
  /\ DOMAIN thread = Threads
  /\ \A t \in Threads : CallOK(thread[t])

Init ==
  /\ row = [u \in Users |->
              [ active |-> FALSE, status |-> "absent", password |-> "placeholder",
                role |-> "owner", used |-> FALSE ]]
  /\ invitation = [u \in Users |-> "unsent"]
  /\ agentToken = "none"
  /\ session = [s \in Sessions |-> "none"]
  /\ access = {}
  /\ thread = [t \in Threads |-> Idle]

-----------------------------------------------------------------------------
(* What calls read, and what they are going to write.                      *)

Exists(u) == row[u].status # "absent"

(* OnboardCompany for the owner, "create-user" for the others.             *)
Invite(t, u, role) ==
  /\ ~Exists(u)
  /\ IF u = Owner THEN role = "owner" ELSE Exists(Owner)
  /\ Begin(t, "invite", u, [ active |-> FALSE, status |-> "pending_activation",
                             password |-> "placeholder", role |-> role, used |-> FALSE ])

SetupPassword(t, u, password) ==
  /\ invitation[u] = "sent" /\ ~row[u].used
  /\ row[u].status = "pending_activation" /\ ~row[u].active
  /\ LET columns == (UserColumns \ {"role"})
                      \cup IF row[u].role = "owner" THEN {"token"} ELSE {}
     IN  Begin(t, "setup", u,
               [c \in columns |-> CASE c \in {"active", "used"} -> TRUE
                                    [] c = "status" -> "active"
                                    [] c = "password" -> password
                                    [] c = "token" -> t])

(* A plausible bug: the password is not verified.                          *)
BrokenLogin(t, u) ==
  /\ Exists(u) /\ row[u].active
  /\ Begin(t, "login", u, NoWrites)

(* The password given is verified; nobody knows a placeholder.             *)
Login(t, u) ==
  /\ row[u].password \in Passwords
  /\ row[u].active
  /\ Begin(t, "login", u, NoWrites)

UpdatePassword(t, u, password) ==
  /\ u \in access
  /\ row[u].password \in Passwords
  /\ Begin(t, "password", u, [password |-> password])

UpdateUserRole(t, u, role) ==
  /\ Exists(u)
  /\ Begin(t, "role", u, [role |-> role])

(* A plausible bug: an activation completes the set-up as well.            *)
BrokenSetUserActive(t, u, active) ==
  /\ Exists(u)
  /\ Begin(t, "activation", u, IF active THEN [active |-> TRUE, status |-> "active"]
                               ELSE [active |-> FALSE])

SetUserActive(t, u, active) ==
  /\ Exists(u)
  /\ Begin(t, "activation", u, [active |-> active])

RotateAgentToken(t) == Exists(Owner) /\ Begin(t, "rotate", Owner, [token |-> t])

(* A plausible bug: an empty token is stored, where NULL means none.       *)
BrokenRevokeAgentToken(t) == Exists(Owner) /\ Begin(t, "revoke", Owner, [token |-> ""])

RevokeAgentToken(t) == Exists(Owner) /\ Begin(t, "revoke", Owner, [token |-> "none"])

-----------------------------------------------------------------------------
(* How calls end.                                                          *)

OpensSession(call) == call.op \in {"setup", "login"}

(* A plausible bug: the insert updates the row of the same email instead   *)
(* of raising.                                                             *)
BrokenCommitInvite(t) ==
  LET u == thread[t].user IN
  /\ thread[t].op = "invite"
  /\ row' = [row EXCEPT ![u] = thread[t].writes]
  /\ thread' = [thread EXCEPT ![t] = [op |-> "mail", user |-> u]]
  /\ UNCHANGED <<invitation, agentToken, session, access>>

(* users.email is unique: of two inserts the second raises.  The mail is   *)
(* sent after the commit.                                                  *)
CommitInvite(t) ==
  LET u == thread[t].user IN
  /\ thread[t].op = "invite"
  /\ ~Exists(u)
  /\ row' = [row EXCEPT ![u] = thread[t].writes]
  /\ thread' = [thread EXCEPT ![t] = [op |-> "mail", user |-> u]]
  /\ UNCHANGED <<invitation, agentToken, session, access>>

SendMail(t) ==
  /\ thread[t].op = "mail"
  /\ invitation' = [invitation EXCEPT ![thread[t].user] = "sent"]
  /\ thread' = [thread EXCEPT ![t] = Idle]
  /\ UNCHANGED <<row, agentToken, session, access>>

Commit(t) ==
  LET call == thread[t]  u == call.user IN
  /\ call.op \in Operations \ {"invite"}
  /\ row' = [row EXCEPT ![u] = Stored(u, call)]
  /\ agentToken' = IF "token" \in Flushed(call) THEN call.writes.token ELSE agentToken
  /\ IF OpensSession(call)
       THEN /\ \E s \in Sessions : session[s] = "none" /\ session' = [session EXCEPT ![s] = u]
            /\ access' = access \cup {u}
       ELSE UNCHANGED <<session, access>>
  /\ thread' = [thread EXCEPT ![t] = Idle]
  /\ UNCHANGED invitation

(* The call raises or its process dies; its transaction is rolled back.    *)
(* After the commit of an invitation, the broadcast or the mail may fail.  *)
Abandon(t) ==
  /\ thread[t] # Idle
  /\ thread' = [thread EXCEPT ![t] = Idle]
  /\ UNCHANGED <<row, invitation, agentToken, session, access>>

-----------------------------------------------------------------------------
(* Calls of a single statement, and time.                                  *)

Refresh(s) ==
  /\ session[s] # "none"
  /\ access' = access \cup {session[s]}
  /\ UNCHANGED <<row, invitation, agentToken, session, thread>>

(* revoked is never reset: a token that is logged out, or that expires, is *)
(* of no use any more.                                                     *)
Logout(s) ==
  /\ session[s] # "none"
  /\ session' = [session EXCEPT ![s] = "none"]
  /\ UNCHANGED <<row, invitation, agentToken, access, thread>>

InvitationExpires(u) ==
  /\ invitation[u] = "sent"
  /\ invitation' = [invitation EXCEPT ![u] = "expired"]
  /\ UNCHANGED <<row, agentToken, session, access, thread>>

AccessExpires(u) ==
  /\ u \in access
  /\ access' = access \ {u}
  /\ UNCHANGED <<row, invitation, agentToken, session, thread>>

UserCall(t, u) ==
  \/ Login(t, u)
  \/ \E role \in Roles : Invite(t, u, role) \/ UpdateUserRole(t, u, role)
  \/ \E password \in Passwords : SetupPassword(t, u, password) \/ UpdatePassword(t, u, password)
  \/ \E active \in BOOLEAN : SetUserActive(t, u, active)

Next ==
  \/ \E t \in Threads :
       \/ \E u \in Users : UserCall(t, u)
       \/ RotateAgentToken(t) \/ RevokeAgentToken(t)
       \/ CommitInvite(t) \/ SendMail(t) \/ Commit(t) \/ Abandon(t)
  \/ \E s \in Sessions : Refresh(s) \/ Logout(s)
  \/ \E u \in Users : InvitationExpires(u) \/ AccessExpires(u)

Spec == Init /\ [][Next]_vars

-----------------------------------------------------------------------------

SetUp(u) == row[u].status = "active"

(* A set-up is one transaction: whatever runs next to it, a user has left  *)
(* pending_activation exactly when the invitation is used, and exactly     *)
(* when the placeholder password is replaced.                              *)
SetUpTogether ==
  \A u \in Users : /\ row[u].used <=> SetUp(u)
                   /\ row[u].password \in Passwords <=> SetUp(u)

(* Nobody holds a token of a user who has not redeemed the invitation,     *)
(* even if an administrator activated the account meanwhile.               *)
SessionsFollowSetUp ==
  /\ access \subseteq {u \in Users : row[u].used}
  /\ \A s \in Sessions : session[s] # "none" => row[session[s]].used

Ends(t, ops, u) ==
  thread[t].op \in ops /\ thread[t].user = u /\ thread'[t] = Idle

(* No call overwrites what another one wrote to a column it is not about:  *)
(* a login, a password change or a set-up that had read the row earlier    *)
(* does not undo a change of role or an activation.                        *)
ColumnsSurvive ==
  [][\A u \in Users : Exists(u) =>
       /\ row'[u].role # row[u].role => \E t \in Threads : Ends(t, {"role"}, u)
       /\ row'[u].active # row[u].active =>
            \E t \in Threads : Ends(t, {"activation", "setup"}, u)
       /\ row'[u].password # row[u].password =>
            \E t \in Threads : Ends(t, {"password", "setup"}, u)]_vars

(* Each call takes effect at one moment, on the row as it is then, although *)
(* it had read the row earlier and locks nothing.                          *)
Directory == INSTANCE UserDirectory WITH
  Tokens <- Threads,
  status <- [u \in Users |-> row[u].status],
  role <- [u \in Users |-> row[u].role],
  active <- [u \in Users |-> row[u].active],
  password <- [u \in Users |-> row[u].password],
  holders <- access \cup {session[s] : s \in {z \in Sessions : session[z] # "none"}}

TakesEffectAtOnce == Directory!Spec

(* "A one-time first-login invitation token" (docs/en/workflows.md:28):    *)
(* once an invitation is used it does not set a password any more.         *)
InvitationIsOneTime ==
  [][\A u \in Users : row[u].used /\ row'[u].password # row[u].password =>
       \E t \in Threads : Ends(t, {"password"}, u)]_vars
=============================================================================
