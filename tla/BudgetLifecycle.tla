--------------------------- MODULE BudgetLifecycle ---------------------------
(***************************************************************************)
(* One owner's budgets (backend/src/budget.rs, and the chat twins of the   *)
(* same operations in backend/src/rag.rs): creation, retyping, closing,    *)
(* deletion with promotion of a replacement default, the per-viewer active *)
(* budget, and single-level rollup with its mirror categories.             *)
(*                                                                         *)
(* A request runs on the server with no lock of its own: a handler that    *)
(* reads in one statement and writes in another is a CHECK step followed   *)
(* by a WRITE step, and other requests may run between the two.  A         *)
(* handler that is one statement, or one transaction whose outcome is the  *)
(* same wherever it is cut, is one step.                                   *)
(*                                                                         *)
(* Abstractions.  A budget is its rank in creation order, which is what    *)
(* "most recently created" compares.  kind stands for the pair of fields   *)
(* the rollup rules compare (budget_type, budget_strategy), of which only  *)
(* "project" may be closed.  archived_at is read by nothing here.  The     *)
(* caller owns every budget: the permission checks succeed as long as the  *)
(* budget exists.                                                          *)
(***************************************************************************)
EXTENDS Integers, FiniteSets, FiniteSetsExt

CONSTANTS Workers,     \* requests that can be in progress at once
          MaxBudgets,  \* how many budgets are ever created
          None         \* SQL NULL

ASSUME MaxBudgetsAssumption == MaxBudgets \in Nat \ {0}
ASSUME NoneAssumption == None \notin Nat

Budgets == 1 .. MaxBudgets
Kinds == {"time_based", "project"}

VARIABLES live,     \* the rows of budgets
          born,     \* how many budgets have been created
          kind, closed,
          parent,   \* rollup_parent_id
          mirrors,  \* <<parent, child>> for each category with linked_budget_id
          default,  \* the budget with is_default (a partial unique index allows one)
          active,   \* users.active_budget_id
          req       \* the request each worker is in the middle of

rows == <<live, born, kind, closed>>
rollups == <<parent, mirrors>>
views == <<default, active>>
vars == <<live, born, kind, closed, parent, mirrors, default, active, req>>

Idle == [op |-> "idle"]
Requests ==
  {Idle}
    \union [op : {"update"}, b : Budgets, kind : Kinds]
    \union [op : {"delete"}, b : Budgets, wasDefault : BOOLEAN]
    \union [op : {"promote"}]
    \union [op : {"set_default", "repair"}, b : Budgets]
    \union [op : {"switch", "activate"}, b : Budgets]
    \union [op : {"link"}, p : Budgets, c : Budgets]
    \union [op : {"unlink"}, p : Budgets, c : Budgets, found : BOOLEAN]

TypeOK ==
  /\ live \subseteq 1 .. born
  /\ born \in 0 .. MaxBudgets
  /\ kind \in [Budgets -> Kinds]
  /\ closed \in SUBSET live /\ \A b \in closed : kind[b] = "project"
  /\ parent \in [Budgets -> live \union {None}]
  /\ mirrors \subseteq live \X live
  /\ default \in live \union {None}
  /\ active \in live \union {None}
  /\ req \in [Workers -> Requests]

Init ==
  /\ live = {} /\ born = 0
  /\ kind = [b \in Budgets |-> "time_based"]
  /\ closed = {}
  /\ parent = [b \in Budgets |-> None]
  /\ mirrors = {}
  /\ default = None /\ active = None
  /\ req = [w \in Workers |-> Idle]

Busy(w, r) == req' = [req EXCEPT ![w] = r]
Done(w) == Busy(w, Idle)

-----------------------------------------------------------------------------
(* Creation and fields *)

\* create_budget and chat CREATE_BUDGET: insert, clear the old default, make
\* the new budget the default and the active one, in one transaction.
CreateBudget(k) ==
  /\ born < MaxBudgets
  /\ born' = born + 1
  /\ live' = live \union {born'}
  /\ kind' = [kind EXCEPT ![born'] = k]
  /\ default' = born' /\ active' = born'
  /\ UNCHANGED <<closed, parent, mirrors, req>>

IsChild(b) == parent[b] # None
IsRollupParent(b) == \E c \in live : parent[c] = b

\* ensure_rollup_type_or_strategy_unchanged: only a real change is refused.
KindChangeAllowed(b, k) == k = kind[b] \/ ~ (IsChild(b) \/ IsRollupParent(b))

\* update_budget up to the UPDATE: not closed, exists, and the change allowed.
UpdateCheck(w, b, k) ==
  /\ req[w] = Idle
  /\ b \in live \ closed
  /\ KindChangeAllowed(b, k)
  /\ Busy(w, [op |-> "update", b |-> b, kind |-> k])
  /\ UNCHANGED <<rows, rollups, views>>

\* The UPDATE by id: it fails when the row is gone, or when the table's CHECK
\* (closed_at only on a project) refuses the new type.
UpdateWrite(w) ==
  /\ req[w].op = "update"
  /\ LET r == req[w] IN
       IF r.b \in live /\ (r.b \in closed => r.kind = "project")
         THEN kind' = [kind EXCEPT ![r.b] = r.kind]
         ELSE kind' = kind
  /\ Done(w)
  /\ UNCHANGED <<live, born, closed, rollups, views>>

\* close_budget: project only; closing again keeps the first timestamp.
CloseBudget(b) ==
  /\ b \in live
  /\ kind[b] = "project"
  /\ closed' = closed \union {b}
  /\ UNCHANGED <<live, born, kind, rollups, views, req>>

-----------------------------------------------------------------------------
(* Deletion, and the default it may have to replace *)

\* delete_budget reads is_default, then deletes, then promotes.
DeleteRead(w, b) ==
  /\ req[w] = Idle
  /\ b \in live
  /\ Busy(w, [op |-> "delete", b |-> b, wasDefault |-> default = b])
  /\ UNCHANGED <<rows, rollups, views>>

ClearOf(x, b) == IF x = b THEN None ELSE x

\* The DELETE and its foreign keys: children become standalone, mirrors on
\* either side go, the preference is cleared.  A row already gone is a 404.
DeleteRow(w) ==
  /\ req[w].op = "delete"
  /\ LET b == req[w].b IN
       /\ live' = live \ {b}
       /\ closed' = closed \ {b}
       /\ parent' = [c \in Budgets |-> IF c = b THEN None ELSE ClearOf(parent[c], b)]
       /\ mirrors' = {m \in mirrors : b \notin {m[1], m[2]}}
       /\ default' = ClearOf(default, b)
       /\ active' = ClearOf(active, b)
       /\ kind' = [kind EXCEPT ![b] = "time_based"]  \* no row, no kind
       /\ IF b \in live /\ req[w].wasDefault THEN Busy(w, [op |-> "promote"]) ELSE Done(w)
  /\ UNCHANGED born

\* The replacement is the newest budget that remains, if any does.
PickReplacement(w) ==
  /\ req[w].op = "promote"
  /\ IF live = {} THEN Done(w)
     ELSE Busy(w, [op |-> "set_default", b |-> Max(live)])
  /\ UNCHANGED <<rows, rollups, views>>

\* UPDATE ... SET is_default = TRUE WHERE id = b.  The unique index refuses a
\* second default (an error ends the request); a vanished row is zero rows.
PromoteReplacement(w) ==
  /\ req[w].op = "set_default"
  /\ LET b == req[w].b IN
       IF default \notin {None, b}
         THEN Done(w) /\ UNCHANGED default
         ELSE /\ default' = IF b \in live THEN b ELSE default
              /\ Busy(w, [op |-> "repair", b |-> b])
  /\ UNCHANGED <<rows, rollups, active>>

\* Repairs the preference only where the deletion cleared it.
RepairActive(w) ==
  /\ req[w].op = "repair"
  /\ active' = IF active = None /\ req[w].b \in live THEN req[w].b ELSE active
  /\ Done(w)
  /\ UNCHANGED <<rows, rollups, default>>

-----------------------------------------------------------------------------
(* Which budget is the default and which is active *)

\* set_default_budget and chat SWITCH_BUDGET on an owned budget: clear all ...
SwitchClear(w, b) ==
  /\ req[w] = Idle
  /\ b \in live
  /\ default' = None
  /\ Busy(w, [op |-> "switch", b |-> b])
  /\ UNCHANGED <<rows, rollups, active>>

\* ... then set one; a refusal by the index is ignored by the chat and ends
\* the REST request, so only the chat goes on to the preference.
SwitchSet(w) ==
  /\ req[w].op = "switch"
  /\ LET b == req[w].b IN
       /\ default' = IF b \in live /\ default = None THEN b ELSE default
       /\ Done(w) \/ Busy(w, [op |-> "activate", b |-> b])
  /\ UNCHANGED <<rows, rollups, active>>

\* The preference write of SWITCH_BUDGET; its foreign key refuses a dead budget.
SwitchActivate(w) ==
  /\ req[w].op = "activate"
  /\ active' = IF req[w].b \in live THEN req[w].b ELSE active
  /\ Done(w)
  /\ UNCHANGED <<rows, rollups, default>>

\* set_active_budget touches only the viewer's preference.
SetActiveBudget(b) ==
  /\ b \in live
  /\ active' = b
  /\ UNCHANGED <<rows, rollups, default, req>>

-----------------------------------------------------------------------------
(* Rollup *)

\* validate_rollup_link: one level deep, and both ends of one kind.
RollupAllowed(p, c) ==
  /\ p # c
  /\ ~ IsChild(p) /\ ~ IsRollupParent(c)
  /\ kind[p] = kind[c]

\* The reads of link_rollup, before its transaction.
LinkCheck(w, p, c) ==
  /\ req[w] = Idle
  /\ {p, c} \subseteq live
  /\ parent[c] \in {None, p}
  /\ RollupAllowed(p, c)
  /\ Busy(w, [op |-> "link", p |-> p, c |-> c])
  /\ UNCHANGED <<rows, rollups, views>>

\* An unlink of the pair has deleted the mirror and not committed: the mirror
\* INSERT waits for it on the unique index.
MirrorHeld(p, c) == \E w \in Workers : req[w] = [op |-> "unlink", p |-> p, c |-> c, found |-> TRUE]

\* Bug to catch: the UPDATE trusts the check.
LinkWriteUnguarded(w) ==
  /\ req[w].op = "link"
  /\ LET p == req[w].p  c == req[w].c IN
       IF {p, c} \subseteq live
         THEN parent' = [parent EXCEPT ![c] = p] /\ mirrors' = mirrors \union {<<p, c>>}
         ELSE UNCHANGED rollups
  /\ Done(w)
  /\ UNCHANGED <<rows, views>>

\* The transaction: UPDATE only where the child is free or already this
\* parent's, and INSERT the mirror unless there is one.
LinkWrite(w) ==
  /\ req[w].op = "link"
  /\ LET p == req[w].p  c == req[w].c IN
       IF {p, c} \subseteq live /\ parent[c] \in {None, p}
         THEN /\ ~ MirrorHeld(p, c)
              /\ parent' = [parent EXCEPT ![c] = p]
              /\ mirrors' = mirrors \union {<<p, c>>}
         ELSE UNCHANGED rollups
  /\ Done(w)
  /\ UNCHANGED <<rows, views>>

\* unlink_rollup's DELETE sees only the mirrors committed when it runs ...
UnlinkScan(w, p, c) ==
  /\ req[w] = Idle
  /\ {p, c} \subseteq live
  /\ Busy(w, [op |-> "unlink", p |-> p, c |-> c, found |-> <<p, c>> \in mirrors])
  /\ UNCHANGED <<rows, rollups, views>>

\* Bug to catch: only the link is cleared.
UnlinkOnly(w) ==
  /\ req[w].op = "unlink"
  /\ parent' = [parent EXCEPT ![req[w].c] = ClearOf(@, req[w].p)]
  /\ Done(w)
  /\ UNCHANGED <<rows, mirrors, views>>

\* ... and its UPDATE, the last statement before COMMIT, sees the latest link.
UnlinkWrite(w) ==
  /\ req[w].op = "unlink"
  /\ LET r == req[w] IN
       /\ parent' = [parent EXCEPT ![r.c] = ClearOf(@, r.p)]
       /\ mirrors' = IF r.found THEN mirrors \ {<<r.p, r.c>>} ELSE mirrors
  /\ Done(w)
  /\ UNCHANGED <<rows, views>>

\* delete_category accepts a mirror like any category of an open budget.
DeleteMirror(p, c) ==
  /\ <<p, c>> \in mirrors
  /\ p \notin closed
  /\ mirrors' = mirrors \ {<<p, c>>}
  /\ UNCHANGED <<rows, parent, views, req>>

-----------------------------------------------------------------------------
\* A request stops where it is: the client left, the process died or the
\* database failed.  An open transaction is rolled back.
Cut(w) ==
  /\ req[w] # Idle
  /\ Done(w)
  /\ UNCHANGED <<rows, rollups, views>>

Step(w) ==
  \/ UpdateWrite(w)
  \/ DeleteRow(w) \/ PickReplacement(w) \/ PromoteReplacement(w) \/ RepairActive(w)
  \/ SwitchSet(w) \/ SwitchActivate(w)
  \/ LinkWrite(w) \/ UnlinkWrite(w)

Start(w) ==
  \E b \in Budgets :
    \/ \E k \in Kinds : UpdateCheck(w, b, k)
    \/ DeleteRead(w, b)
    \/ SwitchClear(w, b)
    \/ \E c \in Budgets : LinkCheck(w, b, c) \/ UnlinkScan(w, b, c)

AtOnce ==
  \/ \E k \in Kinds : CreateBudget(k)
  \/ \E b \in Budgets :
       CloseBudget(b) \/ SetActiveBudget(b) \/ \E c \in Budgets : DeleteMirror(b, c)

Next == AtOnce \/ \E w \in Workers : Start(w) \/ Step(w) \/ Cut(w)

Spec == Init /\ [][Next]_vars

-----------------------------------------------------------------------------
(* Properties *)

\* "Without this WHERE clause a concurrent link to a DIFFERENT parent could be
\* silently stolen": whatever the interleaving of two links, an unlink and a
\* deletion, a child's parent never changes to another parent in one write.
NeverStolen ==
  [][\A c \in live : parent[c] # None /\ parent'[c] # None => parent'[c] = parent[c]]_vars

\* Rollup is one level deep, and both ends count the same way: amounts are
\* resolved through exactly one mirror, so a chain would drop money.
RollupSound ==
  \A c \in live :
    parent[c] # None => parent[parent[c]] = None /\ kind[parent[c]] = kind[c]

\* A mirror exists only while its source is rolled up into that budget.
MirrorsFollowLinks == \A m \in mirrors : parent[m[2]] = m[1]

\* Between requests, an owner who has a budget has a default one.
DefaultKept == (\A w \in Workers : req[w] = Idle) /\ live # {} => default # None

=============================================================================
