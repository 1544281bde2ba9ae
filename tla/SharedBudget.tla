---------------------------- MODULE SharedBudget ----------------------------
(***************************************************************************)
(* Who may change a budget (backend/src/budget.rs, access.rs, goals.rs,    *)
(* and the gates of rag.rs's chat_endpoint).  A REST handler reads the     *)
(* caller's permission, then whether the owner is paid up, then whether    *)
(* the budget is closed, then writes; a chat turn first works out which    *)
(* budget it is about, reads the permission, asks the language model what  *)
(* to do - for up to half a minute - and only then passes the gates with   *)
(* the permission it read at the start.  Each read and write is a step,    *)
(* and the requests of every member interleave.  A permission is itself    *)
(* read in several statements: the budget's row, the caller's share of it, *)
(* and the share of the parent that row named.  A query of what never      *)
(* changes here (an owner, an email) is part of the read beside it.        *)
(*                                                                         *)
(* Abstractions.  "record" is any change that needs Edit on an open budget *)
(* (transactions, categories, fields), "goal" a goal or a contribution.    *)
(* Budgets are neither made nor deleted here (BudgetLifecycle does that,   *)
(* and the two writes of a default).  A bank action is BankLink's.         *)
(* Enforcement (BILLING_WRITE_ENFORCEMENT) is on.                          *)
(***************************************************************************)
EXTENDS Integers, FiniteSets, FiniteSetsExt

CONSTANTS Users, Budgets, Workers,
          Owner,     \* owner_id
          Projects,  \* the budgets of type "project"
          None

SharedBudgetAssumption ==
  Owner \in [Budgets -> Users] /\ Projects \subseteq Budgets /\ None \notin Budgets

VARIABLES share,    \* budget_shares: the level each user was given
          parent,   \* rollup_parent_id
          closed,   \* the budgets with closed_at
          lapsed,   \* the users whose own subscription entitles them to nothing
          active,   \* users.active_budget_id
          default,  \* each owner's is_default budget
          ledger,   \* who changed each budget's records
          goals,    \* who changed its goals
          req       \* the request each worker is in the middle of

grants == <<share, parent>>
contents == <<ledger, goals>>
vars == <<share, parent, closed, lapsed, active, default, ledger, goals, req>>

\* enum Permission, in its order.
NoAccess == 0
View == 1
Edit == 2
Full == 3

Idle == [at |-> "idle"]
Ops == {"record", "goal", "share", "revoke", "close", "switch", "read"}
\* What a permission is read for: an operation, or a chat turn, which reads it of the
\* preferred budget and then of the one it is about, named by the tab or resolved.
Asks == (Ops \ {"read"}) \union {"prefer", "named", "resolved"}
Requests ==
  [at : {"look", "direct", "inherited"}, user : Users, budget : Budgets, ask : Asks,
   link : Budgets \union {None}, direct : NoAccess .. Edit]
    \union [at : {"default"}, user : Users, budget : {None}]
    \union [at : {"ask"}, user : Users, budget : Budgets \union {None}, perm : NoAccess .. Full]
    \union [at : {"gate", "closed", "write"}, user : Users, budget : Budgets, op : Ops]

TypeOK ==
  /\ share \in [Budgets \X Users -> NoAccess .. Edit]
  /\ parent \in [Budgets -> Budgets \union {None}]
  /\ closed \subseteq Projects
  /\ lapsed \subseteq Users
  /\ active \in [Users -> Budgets \union {None}]
  /\ default \in [Users -> Budgets \union {None}]
  /\ ledger \in [Budgets -> SUBSET Users] /\ goals \in [Budgets -> SUBSET Users]
  /\ req \in [Workers -> {Idle} \union Requests]

OwnedBy(u) == {b \in Budgets : Owner[b] = u}

Init ==
  /\ share \in [Budgets \X Users -> NoAccess .. Edit]
  /\ \A b \in Budgets : share[<<b, Owner[b]>>] = NoAccess
  /\ parent \in [Budgets -> Budgets \union {None}]
  /\ \A b \in Budgets : parent[b] # None =>
       /\ parent[b] # b /\ parent[parent[b]] = None
       /\ Owner[parent[b]] = Owner[b]
  /\ closed = {} /\ lapsed = {}
  /\ active = [u \in Users |-> None]
  /\ default \in [Users -> Budgets \union {None}]
  /\ \A u \in Users : default[u] \in (IF OwnedBy(u) = {} THEN {None} ELSE OwnedBy(u))
  /\ ledger = [b \in Budgets |-> {}] /\ goals = [b \in Budgets |-> {}]
  /\ req = [w \in Workers |-> Idle]

Busy(w, r) == req' = [req EXCEPT ![w] = r]
Done(w) == Busy(w, Idle)
Advance(w, stage) == Busy(w, [req[w] EXCEPT !.at = stage])

-----------------------------------------------------------------------------
(* What a permission allows *)

\* required_perm_for_action, and what the REST handlers ask.
required_perm(op) ==
  IF op \in {"share", "revoke", "close"} THEN Full
  ELSE IF op \in {"record", "goal"} THEN Edit ELSE NoAccess

\* Bug to catch: seeing a budget is enough to change it.
AnyAccess(op, perm) == perm >= Min({required_perm(op), View})

\* is_chat_action_authorized, and require_edit and its likes.
Authorized(op, perm) == perm >= required_perm(op)

-----------------------------------------------------------------------------
(* check_permission, statement by statement *)

\* share_level
DirectLevel(u, b) == share[<<b, u>>]

check_permission(w, u, b, ask) ==
  Busy(w, [at |-> "look", user |-> u, budget |-> b, ask |-> ask, link |-> None, direct |-> NoAccess])

\* What is done with the answer: a preference that cannot be seen gives way to the default;
\* a turn is refused without any permission, an operation without enough.
Answered(w, perm) ==
  LET r == req[w] IN
    \/ /\ r.ask = "prefer"
       /\ IF perm # NoAccess THEN check_permission(w, r.user, r.budget, "resolved")
          ELSE Busy(w, [at |-> "default", user |-> r.user, budget |-> None])
    \/ /\ r.ask \in {"named", "resolved"}
       /\ IF perm = NoAccess THEN Done(w)
          ELSE Busy(w, [at |-> "ask", user |-> r.user, budget |-> r.budget, perm |-> perm])
    \/ /\ r.ask \in Ops
       /\ IF perm = NoAccess \/ ~ Authorized(r.ask, perm) THEN Done(w)
          ELSE Busy(w, [at |-> IF r.ask = "switch" THEN "write" ELSE "gate",
                        user |-> r.user, budget |-> r.budget, op |-> r.ask])

\* The budget's row: its owner, and the parent it is rolled up into.
ReadBudget(w) ==
  /\ req[w].at = "look"
  /\ LET r == req[w] IN
       IF Owner[r.budget] = r.user THEN Answered(w, Full)
       ELSE Busy(w, [r EXCEPT !.at = "direct", !.link = parent[r.budget]])
  /\ UNCHANGED <<grants, closed, lapsed, active, default, contents>>

\* The caller's own share, and, of a parent, its owner.
ReadDirect(w) ==
  /\ req[w].at = "direct"
  /\ LET r == req[w]
         level == DirectLevel(r.user, r.budget) IN
       IF r.link = None THEN Answered(w, level)
       ELSE IF Owner[r.link] = r.user THEN Answered(w, Max({level, Edit}))
       ELSE Busy(w, [r EXCEPT !.at = "inherited", !.direct = level])
  /\ UNCHANGED <<grants, closed, lapsed, active, default, contents>>

\* The share of the parent that the row named when it was read; the higher level counts.
ReadInherited(w) ==
  /\ req[w].at = "inherited"
  /\ Answered(w, Max({req[w].direct, DirectLevel(req[w].user, req[w].link)}))
  /\ UNCHANGED <<grants, closed, lapsed, active, default, contents>>

-----------------------------------------------------------------------------
(* A chat turn up to its gates *)

\* chat_endpoint begins: with the budget the tab named, or with the preference.
ChatResolve(w, u) ==
  /\ req[w] = Idle
  /\ \/ \E b \in Budgets : check_permission(w, u, b, "named")
     \/ active[u] # None /\ check_permission(w, u, active[u], "prefer")
     \/ active[u] = None /\ Busy(w, [at |-> "default", user |-> u, budget |-> None])
  /\ UNCHANGED <<grants, closed, lapsed, active, default, contents>>

\* Without one that can be seen: the default, any budget of one's own, or none.
Fallback(u) ==
  IF default[u] # None THEN {default[u]} ELSE IF OwnedBy(u) # {} THEN OwnedBy(u) ELSE {None}

ReadDefault(w) ==
  /\ req[w].at = "default"
  /\ LET u == req[w].user IN
       \E b \in Fallback(u) :
         IF b = None THEN Busy(w, [at |-> "ask", user |-> u, budget |-> None, perm |-> NoAccess])
         ELSE check_permission(w, u, b, "resolved")
  /\ UNCHANGED <<grants, closed, lapsed, active, default, contents>>

\* The model has answered with an action: authorised by the permission of then.
\* SWITCH_BUDGET checks its target again, in case a share went in the meantime.
ChatAnswer(w, op) ==
  /\ req[w].at = "ask" /\ op # "revoke"
  /\ LET r == req[w] IN
       IF op = "read" \/ ~ Authorized(op, r.perm) THEN Done(w)
       ELSE IF op = "switch" THEN \E b \in Budgets : check_permission(w, r.user, b, op)
       ELSE \E b \in (IF op = "close" THEN OwnedBy(r.user) ELSE {r.budget}) :
              Busy(w, [at |-> "gate", user |-> r.user, budget |-> b, op |-> op])
  /\ UNCHANGED <<grants, closed, lapsed, active, default, contents>>

-----------------------------------------------------------------------------
(* A REST handler up to its gates *)

RestCheck(w, u, b, op) ==
  /\ req[w] = Idle /\ op # "read"
  /\ check_permission(w, u, b, op)
  /\ UNCHANGED <<grants, closed, lapsed, active, default, contents>>

-----------------------------------------------------------------------------
(* The gates, and the write *)

\* require_owner_entitled_enforced: a budget is as paid up as its owner.
Entitled(b, u) == Owner[b] \notin lapsed

\* require_owner_entitled, at each write site and once for every chat action.
Gate(w) ==
  /\ req[w].at = "gate"
  /\ LET r == req[w] IN
       IF ~ Entitled(r.budget, r.user) THEN Done(w)
       ELSE Advance(w, IF r.op = "record" THEN "closed" ELSE "write")
  /\ UNCHANGED <<grants, closed, lapsed, active, default, contents>>

\* ensure_not_closed: goals.rs and the goal arms do not call it.
EnsureNotClosed(w) ==
  /\ req[w].at = "closed"
  /\ IF req[w].budget \in closed THEN Done(w) ELSE Advance(w, "write")
  /\ UNCHANGED <<grants, closed, lapsed, active, default, contents>>

Writing(w, op) == req[w].at = "write" /\ req[w].op = op /\ Done(w)

WriteRecord(w) ==
  /\ Writing(w, "record")
  /\ ledger' = [ledger EXCEPT ![req[w].budget] = @ \union {req[w].user}]
  /\ UNCHANGED <<grants, closed, lapsed, active, default, goals>>

WriteGoal(w) ==
  /\ Writing(w, "goal")
  /\ goals' = [goals EXCEPT ![req[w].budget] = @ \union {req[w].user}]
  /\ UNCHANGED <<grants, closed, lapsed, active, default, ledger>>

\* share_budget and chat_share_budget: an upsert, never for oneself.
WriteShare(w) ==
  /\ Writing(w, "share")
  /\ \E u \in Users \ {req[w].user}, level \in {View, Edit} :
       share' = [share EXCEPT ![<<req[w].budget, u>>] = level]
  /\ UNCHANGED <<parent, closed, lapsed, active, default, contents>>

\* revoke_share; a row that is gone by now is a 404.
WriteRevoke(w) ==
  /\ Writing(w, "revoke")
  /\ \E u \in Users \ {req[w].user} : share' = [share EXCEPT ![<<req[w].budget, u>>] = NoAccess]
  /\ UNCHANGED <<parent, closed, lapsed, active, default, contents>>

\* close_budget and CLOSE_BUDGET: projects only.
WriteClose(w) ==
  /\ Writing(w, "close")
  /\ closed' = closed \union ({req[w].budget} \intersect Projects)
  /\ UNCHANGED <<grants, lapsed, active, default, contents>>

\* SWITCH_BUDGET and set_active_budget; only an owner's switch moves the default.
WriteSwitch(w) ==
  /\ Writing(w, "switch")
  /\ LET r == req[w] IN
       /\ active' = [active EXCEPT ![r.user] = r.budget]
       /\ default' \in {default, IF Owner[r.budget] = r.user THEN [default EXCEPT ![r.user] = r.budget]
                                                               ELSE default}
  /\ UNCHANGED <<grants, closed, lapsed, contents>>

Write(w) ==
  WriteRecord(w) \/ WriteGoal(w) \/ WriteShare(w) \/ WriteRevoke(w) \/ WriteClose(w) \/ WriteSwitch(w)

-----------------------------------------------------------------------------
(* What happens meanwhile *)

\* The owner's subscription lapses or is taken up again (Billing).
ToggleLapsed(u) ==
  /\ lapsed' = IF u \in lapsed THEN lapsed \ {u} ELSE lapsed \union {u}
  /\ UNCHANGED <<grants, closed, active, default, contents, req>>

\* The owner of both rolls a budget up into another, or stops (BudgetLifecycle).
Rollup(b, p) ==
  /\ p # b /\ Owner[p] = Owner[b]
  /\ parent[b] = None /\ parent[p] = None /\ \A c \in Budgets : parent[c] # b
  /\ parent' = [parent EXCEPT ![b] = p]
  /\ UNCHANGED <<share, closed, lapsed, active, default, contents, req>>

Unrollup(b) ==
  /\ parent[b] # None
  /\ parent' = [parent EXCEPT ![b] = None]
  /\ UNCHANGED <<share, closed, lapsed, active, default, contents, req>>

Step(w) ==
  \/ ReadBudget(w) \/ ReadDirect(w) \/ ReadInherited(w)
  \/ ReadDefault(w) \/ \E op \in Ops : ChatAnswer(w, op)
  \/ Gate(w) \/ EnsureNotClosed(w) \/ Write(w)

Next ==
  \/ \E w \in Workers, u \in Users : ChatResolve(w, u) \/ \E b \in Budgets, op \in Ops : RestCheck(w, u, b, op)
  \/ \E w \in Workers : Step(w)
  \/ \E u \in Users : ToggleLapsed(u)
  \/ \E b \in Budgets : Unrollup(b) \/ \E p \in Budgets : Rollup(b, p)

Spec == Init /\ [][Next]_vars
=============================================================================
