------------------------------ MODULE Identity ------------------------------
(***************************************************************************)
(* Signing in (backend/src/auth.rs, passkeys.rs), the admin's credential   *)
(* reset (admin.rs), bin/issue_recovery_codes.rs and the erasure of an     *)
(* account (account.rs), for the accounts of one email.  A ceremony is a   *)
(* row of auth_flows between two requests; a request runs its statements   *)
(* one by one, and any may be its last.  The authenticator is external: it *)
(* answers a challenge correctly, or the request ends there.               *)
(***************************************************************************)
EXTENDS FiniteSets

CONSTANTS Ids,        \* user ids
          Flows,      \* flow ids
          Workers,    \* requests
          Batches,    \* issues of recovery codes
          Slots,      \* the codes of a batch (10, unless configured)
          None

Rps == {"app", "admin"}
Codes == Batches \X Slots

IdentityAssumption ==
  /\ None \notin Ids \union Codes \union Workers \union [user : Ids, used : BOOLEAN]
  /\ \E s, t \in Slots : s # t

VARIABLES user,      \* the id of the email's row of users, or None
          used_ids,  \* ids that have been generated
          creds,     \* webauthn_credentials, by the ceremony that made them
          code,      \* recovery_codes: None, or whose and whether used
          flow,      \* auth_flows
          opened,    \* flow ids that have been generated
          issued,    \* batches that have been generated
          sessions,  \* the users with a session
          req        \* the requests under way

tables == <<user, creds, code, flow, sessions>>
ids == <<used_ids, opened, issued>>
vars == <<tables, ids, req>>

Idle == [at |-> "idle"]
Kinds == {"register", "login", "recovery", "delete"}
Ceremonies == [kind : Kinds, user : Ids, rp : Rps, code : Codes \union {None}]
Stages == {"user", "credential", "codes", "mark", "consume", "session", "erase"}

TypeOK ==
  /\ user \in Ids \union {None} /\ used_ids \subseteq Ids
  /\ creds \subseteq [user : Ids, rp : Rps, by : Flows]
  /\ code \in [Codes -> {None} \union [user : Ids, used : BOOLEAN]]
  /\ flow \in [Flows -> Ceremonies \union {None}] /\ opened \subseteq Flows /\ issued \subseteq Batches
  /\ sessions \subseteq Ids
  /\ req \in [Workers -> {Idle} \union [at : {"open"}, as : Ceremonies]
                \union [at : Stages, flow : Flows, as : Ceremonies]
                \union [at : {"clear", "rotate", "issue"}, user : Ids]]

Init ==
  /\ user = None /\ used_ids = {} /\ creds = {}
  /\ code = [c \in Codes |-> None]
  /\ flow = [f \in Flows |-> None] /\ opened = {} /\ issued = {}
  /\ sessions = {}
  /\ req = [w \in Workers |-> Idle]

Put(w, state) == req' = [req EXCEPT ![w] = state]
To(w, stage) == Put(w, [req[w] EXCEPT !.at = stage])

CredsOf(u, rp) == {k \in creds : k.user = u /\ k.rp = rp}
Unused(u) == {c \in Codes : code[c] # None /\ code[c].user = u /\ ~ code[c].used}

-----------------------------------------------------------------------------
(* The start of a ceremony: what it reads, then INSERT INTO auth_flows *)

Start(w, ceremony) == req[w] = Idle /\ Put(w, [at |-> "open", as |-> ceremony]) /\ UNCHANGED tables

Challenge(kind, u, rp, c) == [kind |-> kind, user |-> u, rp |-> rp, code |-> c]

register_start(w, u, rp) ==
  /\ user = None
  /\ u \notin used_ids /\ used_ids' = used_ids \union {u}
  /\ Start(w, Challenge("register", u, rp, None))
  /\ UNCHANGED <<opened, issued>>

login_start(w, rp) ==
  /\ user # None /\ CredsOf(user, rp) # {}
  /\ Start(w, Challenge("login", user, rp, None))
  /\ UNCHANGED ids

\* A code is not for a spare device: the account has no passkey for this rp.
recovery_start(w, rp, c) ==
  /\ user # None /\ c \in Unused(user)
  /\ CredsOf(user, rp) = {}
  /\ Start(w, Challenge("recovery", user, rp, c))
  /\ UNCHANGED ids

\* delete_challenge, by a session of the account.
delete_challenge(w, rp) ==
  /\ user \in sessions
  /\ CredsOf(user, rp) # {}
  /\ Start(w, Challenge("delete", user, rp, None))
  /\ UNCHANGED ids

\* auth_flows has no foreign key: the user may be gone.
OpenFlow(w, f) ==
  /\ req[w].at = "open"
  /\ f \notin opened /\ opened' = opened \union {f}
  /\ flow' = [flow EXCEPT ![f] = req[w].as]
  /\ Put(w, Idle)
  /\ UNCHANGED <<user, used_ids, issued, creds, code, sessions>>

-----------------------------------------------------------------------------
(* The end of a ceremony *)

FirstStage(kind) ==
  CASE kind = "register" -> "user"
    [] kind = "recovery" -> "credential"
    [] OTHER -> "consume"

\* The row is read and the answer verified against it; the row stays, so that a
\* failed ceremony can be retried, and a code is not looked at again.
Finish(w, f) ==
  /\ req[w] = Idle /\ flow[f] # None
  /\ Put(w, [at |-> FirstStage(flow[f].kind), flow |-> f, as |-> flow[f]])
  /\ UNCHANGED <<tables, ids>>

As(w) == req[w].as

\* The transaction of register_finish; id and email are unique.
InsertUser(w) ==
  /\ req[w].at = "user"
  /\ IF user = None
       THEN user' = As(w).user /\ To(w, "credential")
       ELSE Put(w, Idle) /\ UNCHANGED user
  /\ UNCHANGED <<creds, code, flow, sessions, ids>>

\* store_new_credential: unique, and of a user that exists.
store_new_credential(w) ==
  LET k == [user |-> As(w).user, rp |-> As(w).rp, by |-> req[w].flow]
  IN /\ req[w].at = "credential"
     /\ IF user = As(w).user /\ k \notin creds
          THEN /\ creds' = creds \union {k}
               /\ To(w, IF As(w).kind = "register" THEN "codes" ELSE "mark")
          ELSE Put(w, Idle) /\ UNCHANGED creds
     /\ UNCHANGED <<user, code, flow, sessions, ids>>

\* A fresh batch, in one transaction.
Issue(u, b) ==
  /\ b \notin issued /\ issued' = issued \union {b}
  /\ code' = [c \in Codes |-> IF c[1] = b THEN [user |-> u, used |-> FALSE] ELSE code[c]]

issue_recovery_codes(w, b) ==
  /\ req[w].at = "codes"
  /\ IF user = As(w).user THEN Issue(user, b) /\ To(w, "consume")
     ELSE Put(w, Idle) /\ UNCHANGED <<code, issued>>
  /\ UNCHANGED <<user, used_ids, creds, flow, opened, sessions>>

\* By id: no row, if the batch was rotated or the user is gone.
mark_code_used(w) ==
  LET c == As(w).code
  IN /\ req[w].at = "mark"
     /\ code' = IF code[c] = None THEN code ELSE [code EXCEPT ![c].used = TRUE]
     /\ To(w, "consume")
     /\ UNCHANGED <<user, creds, flow, sessions, ids>>

\* An error of the DELETE is ignored.
ConsumeFlow(w) ==
  /\ req[w].at = "consume"
  /\ flow' = [flow EXCEPT ![req[w].flow] = None] \/ UNCHANGED flow
  /\ To(w, IF As(w).kind = "delete" THEN "erase" ELSE "session")
  /\ UNCHANGED <<user, creds, code, sessions, ids>>

\* The session names a user that exists, or the request fails.
create_session(w) ==
  /\ req[w].at = "session"
  /\ sessions' = sessions \union ({As(w).user} \intersect {user})
  /\ Put(w, Idle)
  /\ UNCHANGED <<user, creds, code, flow, ids>>

\* Of the last session; or it expires.
logout(u) ==
  /\ u \in sessions /\ sessions' = sessions \ {u}
  /\ UNCHANGED <<user, creds, code, flow, req, ids>>

\* Bug to catch: the flows, which no foreign key ties to the user, are left.
KeepFlows(u) == flow

FlowsWithout(u) == [f \in Flows |-> IF flow[f] # None /\ flow[f].user = u THEN None ELSE flow[f]]

\* delete_user_data, after finish_account_deletion cancelled the subscription and
\* disconnected the banks (or gave up): the user with all that cascades.
delete_user_data(w) ==
  LET u == As(w).user
  IN /\ req[w].at = "erase"
     /\ user' = IF user = u THEN None ELSE user
     /\ flow' = FlowsWithout(u)
     /\ creds' = {k \in creds : k.user # u}
     /\ sessions' = sessions \ {u}
     /\ code' = [c \in Codes |-> IF code[c] # None /\ code[c].user = u THEN None ELSE code[c]]
     /\ Put(w, Idle)
     /\ UNCHANGED ids

\* purge_expired_auth_state: a flow lives ten minutes and a session thirty days,
\* and neither counts once it has expired.
ExpireFlow(f) ==
  /\ flow[f] # None /\ flow' = [flow EXCEPT ![f] = None]
  /\ UNCHANGED <<user, creds, code, sessions, req, ids>>

-----------------------------------------------------------------------------
(* Fresh codes: reset_credentials, and the operator's issue_recovery_codes *)

reset_credentials(w) ==
  /\ user # None /\ req[w] = Idle
  /\ Put(w, [at |-> "clear", user |-> user])
  /\ UNCHANGED <<tables, ids>>

\* Bug to catch: the reset clears the passkeys of the app alone.
ClearApp(u) == creds \ CredsOf(u, "app")

Cleared(u) == {k \in creds : k.user # u}

delete_all_credentials(w) ==
  /\ req[w].at = "clear"
  /\ creds' = Cleared(req[w].user)
  /\ To(w, "rotate")
  /\ UNCHANGED <<user, code, flow, sessions, ids>>

\* Bug to catch: a rotation also drops what it is about to hand out.
NothingIssued(u, b) == UNCHANGED <<code, issued>>

\* rotate_recovery_codes deletes what is unused in a statement of its own ...
ForgetUnused(w) ==
  LET unused == Unused(req[w].user)
  IN /\ req[w].at = "rotate"
     /\ code' = [c \in Codes |-> IF c \in unused THEN None ELSE code[c]]
     /\ To(w, "issue")
     /\ UNCHANGED <<user, creds, flow, sessions, ids>>

Reissue(u, b) == Issue(u, b)

\* ... and issues a fresh batch.
RotateIssue(w, b) ==
  /\ req[w].at = "issue"
  /\ IF user = req[w].user THEN Reissue(user, b) ELSE UNCHANGED <<code, issued>>
  /\ Put(w, Idle)
  /\ UNCHANGED <<user, used_ids, creds, flow, opened, sessions>>

\* The operator's tool refuses while an unused code is left.
OperatorIssue(b) ==
  /\ user # None /\ Unused(user) = {}
  /\ Issue(user, b)
  /\ UNCHANGED <<user, used_ids, creds, flow, opened, sessions, req>>

\* A statement fails, or the request is cut off.
Fails(w) == req[w] # Idle /\ Put(w, Idle) /\ UNCHANGED <<tables, ids>>

Starting(w) ==
  \/ \E rp \in Rps :
       \/ \E u \in Ids : register_start(w, u, rp)
       \/ login_start(w, rp) \/ delete_challenge(w, rp)
       \/ \E c \in Codes : recovery_start(w, rp, c)
  \/ \E f \in Flows : OpenFlow(w, f) \/ Finish(w, f)
  \/ reset_credentials(w)

Advancing(w) ==
  \/ InsertUser(w) \/ store_new_credential(w) \/ mark_code_used(w) \/ ConsumeFlow(w)
  \/ create_session(w) \/ delete_user_data(w)
  \/ delete_all_credentials(w) \/ ForgetUnused(w)
  \/ \E b \in Batches : issue_recovery_codes(w, b) \/ RotateIssue(w, b)

Next ==
  \/ \E w \in Workers : Starting(w) \/ Advancing(w) \/ Fails(w)
  \/ \E u \in sessions : logout(u)
  \/ \E f \in Flows : ExpireFlow(f)
  \/ \E b \in Batches : OperatorIssue(b)

Spec == Init /\ [][Next]_vars

=============================================================================
