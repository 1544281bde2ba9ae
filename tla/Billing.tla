------------------------------- MODULE Billing -------------------------------
(***************************************************************************)
(* Subscriptions (backend/src/billing.rs): Stripe owns the subscriptions   *)
(* of a user, and the webhook alone writes what the subscriptions table    *)
(* says of them.  Three requests act on Stripe from what the table says:   *)
(* creating a first budget starts a trial, checkout opens a hosted         *)
(* session, and deleting the account cancels the subscription.             *)
(*                                                                         *)
(* One user, whose customer is the row's: ensure_customer reuses it.       *)
(* Stripe delivers its events late, reordered and more than once; created  *)
(* has a resolution of a second, so several events may share one.  Prices  *)
(* and period ends do not decide anything here and are left out.           *)
(***************************************************************************)
EXTENDS Integers, Sequences, FiniteSets

CONSTANTS Requests,     \* requests of the user that may overlap
          MaxSubs,      \* subscriptions Stripe ever creates
          MaxEvents,    \* events Stripe ever sends
          MaxSecond,    \* Stripe's clock stops here
          MaxSessions,  \* checkout sessions open at once
          MaxOwned,     \* budgets owned at once
          None          \* SQL NULL, or no row

BoundsAssumption ==
  {MaxSubs, MaxEvents, MaxSecond, MaxSessions, MaxOwned} \subseteq Nat

Statuses == {"trialing", "active", "past_due", "canceled"}
SubIds == 1 .. MaxSubs
Seconds == 0 .. MaxSecond
Kinds == {"created", "updated", "deleted", "payment_failed", "checkout_completed"}
Events == [kind : Kinds, sub : SubIds, status : Statuses, at : Seconds]
Rows == [sub : SubIds \union {None}, status : Statuses \union {None}, at : Seconds \union {None}]

NoneAssumption == None \notin Int \union STRING \union Rows

VARIABLES now,       \* the second on Stripe's clock
          subs,      \* the status of each subscription, at Stripe
          sent,      \* events Stripe has sent
          acked,     \* events answered with 200 at least once
          sessions,  \* open checkout sessions
          row,       \* the user's row of subscriptions
          owned,     \* budgets the user owns
          gone,      \* the account is deleted
          req        \* where each request is

stripe == <<now, subs, sent, acked, sessions>>
local == <<row, owned, gone>>
vars == <<now, subs, sent, acked, sessions, row, owned, gone, req>>

Idle == "idle"

TypeOK ==
  /\ now \in Seconds
  /\ subs \in Seq(Statuses) /\ Len(subs) <= MaxSubs
  /\ sent \subseteq Events
  /\ acked \subseteq sent
  /\ sessions \in 0 .. MaxSessions
  /\ row \in {None} \union Rows
  /\ owned \in 0 .. MaxOwned
  /\ gone \in BOOLEAN /\ (gone => row = None /\ owned = 0)
  /\ req \in [Requests -> {Idle, "trial", "insert", "session", "erase"}]

Init ==
  /\ now = 0 /\ subs = << >> /\ sent = {} /\ acked = {} /\ sessions = 0
  /\ row = None /\ owned = 0 /\ gone = FALSE
  /\ req = [r \in Requests |-> Idle]

-----------------------------------------------------------------------------
(* Stripe *)

Live(s) == subs[s] # "canceled"

Event(kind, s, status, at) == [kind |-> kind, sub |-> s, status |-> status, at |-> at]

Send(events) ==
  /\ Cardinality(sent \union events) <= MaxEvents
  /\ sent' = sent \union events

Tick ==
  /\ now < MaxSecond
  /\ now' = now + 1
  /\ UNCHANGED <<subs, sent, acked, sessions, local, req>>

\* A trial lasts longer than a second.
TrialOver(s) == \A e \in sent : e.sub = s /\ e.kind = "created" => e.at < now

\* A subscription changes: the trial ends, a card is charged again, it is
\* canceled in the portal or for lack of a card.
Move(s, status) ==
  /\ <<subs[s], status>> \in {<<"trialing", "active">>, <<"past_due", "active">>}
                              \union {<<st, "canceled">> : st \in Statuses \ {"canceled"}}
  /\ subs[s] = "trialing" /\ status = "active" => TrialOver(s)
  /\ subs' = [subs EXCEPT ![s] = status]
  /\ Send({Event(IF status = "canceled" THEN "deleted" ELSE "updated", s, status, now)})
  /\ UNCHANGED <<now, acked, sessions, local, req>>

\* A charge fails: the invoice's event goes with the subscription's own, which
\* is an update, or after the last retry the deletion.
PaymentFails(s, status) ==
  /\ subs[s] \in {"active", "past_due"} /\ status \in {"past_due", "canceled"}
  /\ subs' = [subs EXCEPT ![s] = status]
  /\ Send({Event("payment_failed", s, "past_due", now),
           Event(IF status = "canceled" THEN "deleted" ELSE "updated", s, status, now)})
  /\ UNCHANGED <<now, acked, sessions, local, req>>

\* The user completes a hosted session, with or without a trial.  The session's
\* event may be a second younger than the subscription's.
CompleteSession(status, at) ==
  /\ sessions > 0 /\ Len(subs) < MaxSubs
  /\ status \in {"trialing", "active"} /\ at \in {now, now - 1} \intersect Seconds
  /\ subs' = Append(subs, status)
  /\ Send({Event("created", Len(subs'), status, at),
           Event("checkout_completed", Len(subs'), status, now)})
  /\ sessions' = sessions - 1
  /\ UNCHANGED <<now, acked, local, req>>

ExpireSession ==
  /\ sessions > 0
  /\ sessions' = sessions - 1
  /\ UNCHANGED <<now, subs, sent, acked, local, req>>

-----------------------------------------------------------------------------
(* The webhook *)

\* Bug to catch: the session's event is persisted too.
AppliesEvery(e) == TRUE

\* apply_subscription_event: checkout.session.completed is ignored, for it would
\* move the watermark without carrying a status.
Applies(e) == e.kind # "checkout_completed"

Carried(e, status) == IF e.kind = "checkout_completed" THEN status ELSE e.status

Fresher(e) == row.at = None \/ row.at <= e.at

\* persist_upsert: onto the customer's row, unless a younger event has been.
Deliver(e) ==
  /\ row' = IF Applies(e) /\ row # None /\ Fresher(e)
              THEN [sub |-> e.sub, status |-> Carried(e, row.status), at |-> e.at]
              ELSE row
  /\ acked' = acked \union {e}
  /\ UNCHANGED <<now, subs, sent, sessions, owned, gone, req>>

-----------------------------------------------------------------------------
(* Requests *)

user_is_pro(status) == status \in {"trialing", "active"}

\* resolve: a tier other than None, past_due being a grace period.
Entitled(status) == status \in {"trialing", "active", "past_due"}

\* The row ensure_customer leaves until the first event.
Placeholder == [sub |-> None, status |-> None, at |-> None]

Known == IF row = None THEN Placeholder ELSE row

At(r, step) == req' = [req EXCEPT ![r] = step]

\* Bug to catch: a lapsed user counts as one who never subscribed.
NeverSubscribedOrLapsed == ~ Entitled(Known.status)

NeverSubscribed == Known.status = None /\ Known.sub = None

\* ensure_ready_to_own_budget: an owner goes on, a first budget starts a trial,
\* and a lapsed user is refused.
CreateBudget(r) ==
  /\ req[r] = Idle /\ ~ gone
  /\ IF owned > 0 THEN At(r, "insert")
     ELSE \/ NeverSubscribed /\ At(r, "trial")
          \/ ~ NeverSubscribed /\ Entitled(Known.status) /\ At(r, "insert")
  /\ UNCHANGED <<stripe, local>>

\* start_trial_subscription, after ensure_customer.  Stripe fails, or its answer
\* is lost, or the budget is inserted next.
StartTrial(r) ==
  /\ req[r] = "trial"
  /\ IF gone
       THEN At(r, Idle) /\ UNCHANGED <<subs, sent, row>>
       ELSE /\ row' = Known
            /\ \/ At(r, Idle) /\ UNCHANGED <<subs, sent>>
               \/ /\ Len(subs) < MaxSubs
                  /\ subs' = Append(subs, "trialing")
                  /\ Send({Event("created", Len(subs'), "trialing", now)})
                  /\ At(r, "insert") \/ At(r, Idle)
  /\ UNCHANGED <<now, acked, sessions, owned, gone>>

\* The transaction of create_budget.
InsertBudget(r) ==
  /\ req[r] = "insert"
  /\ owned' = IF gone \/ owned = MaxOwned THEN owned ELSE owned + 1
  /\ At(r, Idle)
  /\ UNCHANGED <<stripe, row, gone>>

DeleteBudget ==
  /\ owned > 0
  /\ owned' = owned - 1
  /\ UNCHANGED <<stripe, row, gone, req>>

\* checkout refuses a user whose row says trialing or active ...
Checkout(r) ==
  /\ req[r] = Idle /\ ~ gone
  /\ ~ user_is_pro(Known.status)
  /\ At(r, "session")
  /\ UNCHANGED <<stripe, local>>

\* ... and opens a session, unless Stripe fails.
OpenSession(r) ==
  /\ req[r] = "session"
  /\ row' = IF gone THEN row ELSE Known
  /\ \/ sessions' = sessions
     \/ ~ gone /\ sessions < MaxSessions /\ sessions' = sessions + 1
  /\ At(r, Idle)
  /\ UNCHANGED <<now, subs, sent, acked, owned, gone>>

\* Bug to catch: the deletion goes on although Stripe refused to cancel.
CancelOrGoOn(r) ==
  At(r, "erase") /\ UNCHANGED <<subs, sent>>

\* cancel_subscription, of the subscription the row names: Stripe cancels it, or
\* it already was; any other answer aborts the deletion.
Cancel(r) ==
  \/ At(r, Idle) /\ UNCHANGED <<subs, sent>>
  \/ /\ At(r, "erase")
     /\ IF Known.sub # None /\ Live(Known.sub)
          THEN /\ subs' = [subs EXCEPT ![Known.sub] = "canceled"]
               /\ Send({Event("deleted", Known.sub, "canceled", now)})
          ELSE UNCHANGED <<subs, sent>>

\* finish_account_deletion cancels first ...
DeleteAccount(r) ==
  /\ req[r] = Idle /\ ~ gone
  /\ Cancel(r)
  /\ UNCHANGED <<now, acked, sessions, local>>

\* Bug to catch: the user's row of subscriptions is not erased with them.
EraseUserOnly(r) ==
  /\ req[r] = "erase"
  /\ gone' = TRUE /\ owned' = 0
  /\ At(r, Idle)
  /\ UNCHANGED <<stripe, row>>

\* ... and erases the user and everything of theirs in one transaction.
Erase(r) ==
  /\ req[r] = "erase"
  /\ gone' = TRUE /\ row' = None /\ owned' = 0
  /\ At(r, Idle)
  /\ UNCHANGED stripe

\* ... unless a bank refuses to disconnect or the transaction fails: the account
\* stays, without its subscription.
EraseFails(r) ==
  /\ req[r] = "erase"
  /\ At(r, Idle)
  /\ UNCHANGED <<stripe, local>>

-----------------------------------------------------------------------------
Next ==
  \/ Tick \/ ExpireSession \/ DeleteBudget
  \/ \E s \in DOMAIN subs, status \in Statuses : Move(s, status) \/ PaymentFails(s, status)
  \/ \E status \in Statuses, at \in Seconds : CompleteSession(status, at)
  \/ \E e \in sent : Deliver(e)
  \/ \E r \in Requests :
       \/ CreateBudget(r) \/ StartTrial(r) \/ InsertBudget(r)
       \/ Checkout(r) \/ OpenSession(r)
       \/ DeleteAccount(r) \/ Erase(r) \/ EraseFails(r)

Spec == Init /\ [][Next]_vars

-----------------------------------------------------------------------------
(* Properties *)

Applied == {e \in sent : Applies(e)}
Newest == {e \in Applied : \A f \in Applied : f.at <= e.at}

\* "Webhooks are the ONLY source of entitlement truth": once every event has
\* arrived, in whatever order and however often, the row says of the newest
\* subscription what Stripe says, unless the newest second is contradictory.
RowFollowsStripe ==
  ~ gone /\ sent = acked =>
    \A e \in Newest :
      (\A f \in Newest : f.sub = e.sub /\ f.status = e.status) =>
        row # None /\ row.sub = e.sub /\ row.status = subs[e.sub]

\* "never delete the account while a paid subscription lives on"
\* (account.rs, finish_account_deletion).
NoPaidOrphan == gone => \A s \in DOMAIN subs : subs[s] \notin {"active", "past_due"}

=============================================================================
