---------------------------- MODULE UserDirectory -----------------------------
(***************************************************************************)
(* What the services on accounts promise of one company: every call takes  *)
(* effect in one step, on the columns it is about, as they are at that     *)
(* moment.  The owner comes first; a user is invited, once, before setting *)
(* up, and only members, who have set up, change their password or hold a  *)
(* token.                                                                  *)
(***************************************************************************)

CONSTANTS Users, Owner, Roles, Passwords, Tokens

VARIABLES
  status,     \* "absent", "pending_activation" (invited) or "active" (a member)
  role, active, password,   \* of each user
  agentToken, \* the token agents enrol with, or "none"
  holders     \* the users for whom a refresh or access token is usable

vars == <<status, role, active, password, agentToken, holders>>

Exists(u) == status[u] # "absent"
Member(u) == status[u] = "active"

Init ==
  /\ status = [u \in Users |-> "absent"]
  /\ role = [u \in Users |-> "owner"]
  /\ active = [u \in Users |-> FALSE]
  /\ password = [u \in Users |-> "placeholder"]
  /\ agentToken = "none"
  /\ holders = {}

Invite(u, r) ==
  /\ ~Exists(u)
  /\ IF u = Owner THEN r = "owner" ELSE Exists(Owner)
  /\ status' = [status EXCEPT ![u] = "pending_activation"]
  /\ role' = [role EXCEPT ![u] = r]
  /\ UNCHANGED <<active, password, agentToken, holders>>

(* The invitation is redeemed: password, activation and session together,  *)
(* and a new agent token if the user is an owner.  A call that read the    *)
(* invitation before another one redeemed it redeems it again.             *)
SetUp(u, p) ==
  /\ Exists(u)
  /\ status' = [status EXCEPT ![u] = "active"]
  /\ active' = [active EXCEPT ![u] = TRUE]
  /\ password' = [password EXCEPT ![u] = p]
  /\ agentToken' \in {agentToken} \cup Tokens
  /\ holders' = holders \cup {u}
  /\ UNCHANGED role

Login(u) ==
  /\ Member(u)
  /\ holders' = holders \cup {u}
  /\ UNCHANGED <<status, role, active, password, agentToken>>

(* The last token of the user expires or is revoked.                       *)
Leave(u) ==
  /\ holders' = holders \ {u}
  /\ UNCHANGED <<status, role, active, password, agentToken>>

ChangePassword(u, p) ==
  /\ Member(u)
  /\ password' = [password EXCEPT ![u] = p]
  /\ UNCHANGED <<status, role, active, agentToken, holders>>

ChangeRole(u, r) ==
  /\ Exists(u)
  /\ role' = [role EXCEPT ![u] = r]
  /\ UNCHANGED <<status, active, password, agentToken, holders>>

SetActive(u, a) ==
  /\ Exists(u)
  /\ active' = [active EXCEPT ![u] = a]
  /\ UNCHANGED <<status, role, password, agentToken, holders>>

ChangeToken ==
  /\ Exists(Owner)
  /\ agentToken' \in Tokens \cup {"none"}
  /\ UNCHANGED <<status, role, active, password, holders>>

Next ==
  \/ \E u \in Users :
       \/ \E r \in Roles : Invite(u, r) \/ ChangeRole(u, r)
       \/ \E p \in Passwords : SetUp(u, p) \/ ChangePassword(u, p)
       \/ Login(u) \/ Leave(u)
       \/ \E a \in BOOLEAN : SetActive(u, a)
  \/ ChangeToken

Spec == Init /\ [][Next]_vars
=============================================================================
