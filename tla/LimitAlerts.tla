---------------------------- MODULE LimitAlerts ----------------------------
(***************************************************************************)
(* Limit alerts (backend/src/notifications.rs, core/src/notifications.rs). *)
(* A request that changes what was spent then reconciles the alerts of the *)
(* scopes it touched - a category, and always the budget - for the user    *)
(* who made it: read the level, DELETE the keys that are stale, upsert the *)
(* key of the level.  Every statement commits alone and each may fail,     *)
(* which is logged and skipped.  Imports, a new period and changed limits  *)
(* alter the figures and reconcile nothing.                                *)
(***************************************************************************)
EXTENDS Integers, Sequences, FiniteSetsExt

CONSTANTS Users, Categories, Workers,
          Amounts,   \* what the period may have spent in a category
          Limits,    \* the limits a category may have; 0 is none
          Budget,    \* the scope of the whole budget
          None

LimitAlertsAssumption ==
  /\ Amounts \subseteq Nat /\ 0 \in Amounts
  /\ Limits \subseteq Nat
  /\ Users # {} /\ Budget \notin Categories /\ None \notin Nat \union {"approaching", "exceeded", "unknown"}

Scopes == Categories \union {Budget}
Levels == {"approaching", "exceeded"}
Keys == Users \X Scopes \X Levels

VARIABLES spent,   \* counted expense of the period, by category
          limit,   \* category_limit
          alert,   \* the notifications by dedup key: the figure in the message, or None
          check    \* each request's reconciliation under way

vars == <<spent, limit, alert, check>>

Idle == [at |-> "idle"]

Of(f, s) == IF s = Budget THEN MapThenSumSet(LAMBDA c : f[c], Categories) ELSE f[s]

\* What a finite sum is: a natural number, and 0 when nothing was spent.
SumsAssumption ==
  /\ \A f \in [Categories -> Amounts] \union [Categories -> Limits] : Of(f, Budget) \in Nat
  /\ Of([c \in Categories |-> 0], Budget) = 0

\* Spending exactly the limit is not over it (#193).
limit_level(figure, lim) ==
  IF lim <= 0 \/ 10 * figure < 8 * lim THEN None ELSE IF figure > lim THEN "exceeded" ELSE "approaching"

LevelNow(s) == limit_level(Of(spent, s), Of(limit, s))

Checks ==
  [at : {"read"}, user : Users, todo : Seq(Scopes)]
    \union [at : {"spent"}, user : Users, todo : Seq(Scopes), limit : Nat]
    \union [at : {"clear", "raise"}, user : Users, todo : Seq(Scopes),
            level : Levels \union {None}, figure : Nat, downgraded : BOOLEAN]

TypeOK ==
  /\ spent \in [Categories -> Amounts]
  /\ limit \in [Categories -> Limits]
  /\ alert \in [Keys -> Nat \union {None}]
  /\ check \in [Workers -> {Idle} \union Checks]
  /\ \A w \in Workers : check[w] # Idle => check[w].todo # << >>

Init ==
  /\ spent = [c \in Categories |-> 0]
  /\ limit \in [Categories -> Limits]
  /\ alert = [k \in Keys |-> None]
  /\ check = [w \in Workers |-> Idle]

-----------------------------------------------------------------------------
(* What changes the figures *)

Reconcile(w, u, scopes) == check' = [check EXCEPT ![w] = [at |-> "read", user |-> u, todo |-> scopes]]

\* A transaction is logged, deleted, excluded or its amount edited.
Spend(w, u, c) ==
  /\ check[w] = Idle
  /\ \E a \in Amounts \ {spent[c]} : spent' = [spent EXCEPT ![c] = a]
  /\ Reconcile(w, u, <<c, Budget>>)
  /\ UNCHANGED <<limit, alert>>

ScopesOfMove(c, d) == <<d, Budget, c, Budget>>

\* An edit moves all that c has spent to d: both are reconciled, the new one first.
Move(w, u, c, d) ==
  /\ check[w] = Idle
  /\ c # d /\ spent[c] # 0 /\ spent[c] + spent[d] \in Amounts
  /\ spent' = [spent EXCEPT ![c] = 0, ![d] = @ + spent[c]]
  /\ Reconcile(w, u, ScopesOfMove(c, d))
  /\ UNCHANGED <<limit, alert>>

\* An import, a new period or a new limit.
ChangeQuietly(c) ==
  /\ \/ \E a \in Amounts \ {spent[c]} : spent' = [spent EXCEPT ![c] = a] /\ UNCHANGED limit
     \/ \E l \in Limits \ {limit[c]} : limit' = [limit EXCEPT ![c] = l] /\ UNCHANGED spent
  /\ UNCHANGED <<alert, check>>

-----------------------------------------------------------------------------
(* check_and_notify_limits *)

Scope(w) == Head(check[w].todo)

\* On to the next scope of the request.
Done(w) ==
  check' = [check EXCEPT ![w] =
    IF Len(@.todo) = 1 THEN Idle ELSE [at |-> "read", user |-> @.user, todo |-> Tail(@.todo)]]

Found(w, lev, figure) ==
  check' = [check EXCEPT ![w] =
    [at |-> "clear", user |-> @.user, todo |-> @.todo, level |-> lev, figure |-> figure, downgraded |-> FALSE]]

\* One query has both figures of a category ...
ReadCategory(w) ==
  /\ check[w].at = "read" /\ Scope(w) # Budget
  /\ Found(w, LevelNow(Scope(w)), spent[Scope(w)])
  /\ UNCHANGED <<spent, limit, alert>>

\* ... and two have those of the budget.
ReadBudgetLimit(w) ==
  /\ check[w].at = "read" /\ Scope(w) = Budget
  /\ check' = [check EXCEPT ![w] =
       [at |-> "spent", user |-> @.user, todo |-> @.todo, limit |-> Of(limit, Budget)]]
  /\ UNCHANGED <<spent, limit, alert>>

ReadBudgetSpent(w) ==
  /\ check[w].at = "spent"
  /\ Found(w, limit_level(Of(spent, Budget), check[w].limit), Of(spent, Budget))
  /\ UNCHANGED <<spent, limit, alert>>

\* A failed query skips the scope.
ReadFails(w) == check[w].at \in {"read", "spent"} /\ Done(w) /\ UNCHANGED <<spent, limit, alert>>

\* Bug to catch: only the level above is stale, so an escalation keeps both.
StaleAbove(lev) == {l \in Levels : lev # l /\ l = "exceeded"}

stale_limit_keys(lev) == Levels \ {lev}

\* delete_limit_notifications: an error counts as a possible downgrade.
ClearStale(w) ==
  LET u == check[w].user
      stale == {<<u, Scope(w), l>> : l \in stale_limit_keys(check[w].level)}
  IN /\ check[w].at = "clear"
     /\ \/ /\ alert' = [k \in Keys |-> IF k \in stale THEN None ELSE alert[k]]
           /\ IF check[w].level = None THEN Done(w)
              ELSE check' = [check EXCEPT ![w].at = "raise",
                                          ![w].downgraded = \E k \in stale : alert[k] # None]
        \/ /\ UNCHANGED alert
           /\ IF check[w].level = None THEN Done(w)
              ELSE check' = [check EXCEPT ![w].at = "raise", ![w].downgraded = TRUE]
     /\ UNCHANGED <<spent, limit>>

KeyOf(w) == <<check[w].user, Scope(w), check[w].level>>

\* ON CONFLICT DO UPDATE SET message.
Refreshed(w) == check[w].figure

\* Bug to catch: whatever is inserted is surfaced, an improvement included.
SurfacesInserted(w) == alert[KeyOf(w)] = None

\* The message goes to the user when the alert is new, and no improvement.
Surfaces(w) ==
  alert[KeyOf(w)] = None /\ (check[w].level = "approaching" => ~ check[w].downgraded)

\* upsert_limit_notification, or its failure.
RaiseAlert(w) ==
  /\ check[w].at = "raise"
  /\ \/ alert' = [alert EXCEPT ![KeyOf(w)] = Refreshed(w)]
     \/ UNCHANGED alert
  /\ Done(w)
  /\ UNCHANGED <<spent, limit>>

\* The user dismisses an alert, or the purge removes an old one.
Dismiss(k) ==
  /\ alert[k] # None
  /\ alert' = [alert EXCEPT ![k] = None]
  /\ UNCHANGED <<spent, limit, check>>

\* The request is cut off.
CutOff(w) ==
  /\ check[w] # Idle
  /\ check' = [check EXCEPT ![w] = Idle]
  /\ UNCHANGED <<spent, limit, alert>>

Reconciling(w) ==
  \/ ReadCategory(w) \/ ReadBudgetLimit(w) \/ ReadBudgetSpent(w) \/ ReadFails(w)
  \/ ClearStale(w) \/ RaiseAlert(w) \/ CutOff(w)

Next ==
  \/ \E w \in Workers, u \in Users, c \in Categories :
       Spend(w, u, c) \/ \E d \in Categories : Move(w, u, c, d)
  \/ \E w \in Workers : Reconciling(w)
  \/ \E c \in Categories : ChangeQuietly(c)
  \/ \E k \in Keys : Dismiss(k)

Spec == Init /\ [][Next]_vars

=============================================================================
