---------------------------- MODULE BudgetsProofs ----------------------------
(***************************************************************************)
(* Proofs about the budgets of MCBudgets, for any number of requests,      *)
(* users, budgets, subscriptions and events: what the webhook leaves in    *)
(* the subscriptions table and what creation and deletion make of it       *)
(* (Billing), who may write (SharedBudget), and the tree of budgets        *)
(* (BudgetLifecycle).                                                      *)
(***************************************************************************)
EXTENDS MCBudgets, SequenceTheorems, WellFoundedInduction, TLAPS

-----------------------------------------------------------------------------
(* Billing: what Stripe sends *)

Subs == DOMAIN subs
Applied(e) == e.kind # "checkout_completed"

\* Stripe sends nothing of a subscription it has not created, nor of the future.
SentOfSubs == \A e \in sent : e.sub \in Subs /\ e.at <= now

\* Of each subscription, an event no older than any other says its status of now.
StatusSent ==
  \A s \in Subs :
    \E f \in sent :
      /\ Applied(f) /\ f.sub = s /\ f.status = subs[s]
      /\ \A e \in sent : e.sub = s /\ Applied(e) => e.at <= f.at

\* The row of a user who is not gone is what the youngest event answered made it,
\* or the placeholder; it is there as soon as anything may be sold.
RowIsYoungest ==
  ~ gone =>
    /\ sessions > 0 \/ Subs # {} => row # None
    /\ \/ /\ row \in {None, Paying!Placeholder}
          /\ \A e \in acked : ~ Applied(e)
       \/ \E f \in acked :
            /\ Applied(f) /\ row = [sub |-> f.sub, status |-> f.status, at |-> f.at]
            /\ \A e \in acked : Applied(e) => e.at <= f.at

\* While an account is being erased that knew of everything, and once it is gone,
\* nothing is alive at Stripe, nothing can be sold and nothing else goes on.
Erasing == gone \/ \E r \in Workers : req[r] = "erase"
NothingAlive ==
  Erasing /\ ~ exposed =>
    /\ sessions = 0 /\ \A s \in Subs : subs[s] = "canceled"
    /\ gone => \A r \in Workers : req[r] = "idle"
    /\ \A q, r \in Workers : q # r /\ req[r] = "erase" => req[q] = "idle"

PayingSound ==
  /\ Paying!TypeOK /\ SentOfSubs /\ StatusSent /\ RowIsYoungest
  /\ informed = {} /\ exposed \in BOOLEAN /\ NothingAlive

LEMMA PayingBounds ==
  /\ MaxSubs \in Nat /\ MaxSecond \in Nat /\ MaxSessions \in Nat /\ MaxOwned \in Nat
  /\ None \notin Int /\ None \notin STRING /\ None \notin Paying!Rows
BY BudgetsAssumption DEF Paying!BoundsAssumption, Paying!NoneAssumption

\* The table's row, and what is read of it.
LEMMA RowTypes ==
    ASSUME Paying!TypeOK
    PROVE  /\ row # None => row \in Paying!Rows /\ Paying!Known = row
           /\ row = None => Paying!Known = Paying!Placeholder
           /\ Paying!Placeholder \in Paying!Rows /\ Paying!Placeholder # None
           /\ Paying!Placeholder.status = None /\ Paying!Placeholder.sub = None
           /\ Paying!Placeholder.at = None
<1>1. /\ Paying!Placeholder \in Paying!Rows
      /\ Paying!Placeholder.status = None /\ Paying!Placeholder.sub = None
      /\ Paying!Placeholder.at = None
  BY DEF Paying!Placeholder, Paying!Rows
<1>2. None \notin Paying!Rows
  BY BudgetsAssumption DEF Paying!NoneAssumption
<1> QED BY <1>1, <1>2 DEF Paying!TypeOK, Paying!Known

LEMMA EventTypes ==
    ASSUME NEW what \in Paying!Kinds, NEW s \in Paying!SubIds, NEW status \in Paying!Statuses,
           NEW at \in Paying!Seconds
    PROVE  LET e == Paying!Event(what, s, status, at)
           IN e \in Paying!Events /\ e.kind = what /\ e.sub = s /\ e.status = status /\ e.at = at
BY DEF Paying!Event, Paying!Events

\* The subscriptions, a new one, and one that changes.
LEMMA SubTypes ==
    ASSUME Paying!TypeOK
    PROVE  /\ Len(subs) \in Nat /\ Subs = 1 .. Len(subs) /\ Subs \subseteq Paying!SubIds
           /\ \A s \in Subs : subs[s] \in Paying!Statuses
<1>1. /\ subs \in Seq(Paying!Statuses) /\ Len(subs) \in Nat /\ Len(subs) <= MaxSubs /\ MaxSubs \in Nat
  BY PayingBounds DEF Paying!TypeOK
<1> QED BY <1>1 DEF Subs, Paying!SubIds

\* What a step leaves of the subscriptions when only one of them is written.
OnlySub(s) ==
  /\ subs' \in Seq(Paying!Statuses) /\ Len(subs') <= MaxSubs
  /\ s \in Paying!SubIds
  /\ DOMAIN subs' = Subs \union {s} /\ \A t \in Subs \ {s} : subs'[t] = subs[t]

LEMMA SubAppended ==
    ASSUME Paying!TypeOK, NEW st \in Paying!Statuses, Len(subs) < MaxSubs, subs' = Append(subs, st)
    PROVE  OnlySub(Len(subs')) /\ Len(subs') \notin Subs /\ subs'[Len(subs')] = st
<1>1. /\ subs \in Seq(Paying!Statuses) /\ Len(subs) \in Nat /\ MaxSubs \in Nat /\ Subs = 1 .. Len(subs)
  BY PayingBounds DEF Paying!TypeOK, Subs
<1>2. /\ subs' \in Seq(Paying!Statuses) /\ Len(subs') = Len(subs) + 1
      /\ DOMAIN subs' = 1 .. (Len(subs) + 1) /\ subs'[Len(subs) + 1] = st
      /\ \A s \in 1 .. Len(subs) : subs'[s] = subs[s]
  BY <1>1, AppendProperties
<1> QED BY <1>1, <1>2 DEF OnlySub, Paying!SubIds

LEMMA SubChanged ==
    ASSUME Paying!TypeOK, NEW st \in Paying!Statuses, NEW s \in Subs, subs' = [subs EXCEPT ![s] = st]
    PROVE  OnlySub(s) /\ subs'[s] = st
<1>1. /\ subs \in Seq(Paying!Statuses) /\ Len(subs) \in Nat /\ Len(subs) <= MaxSubs
      /\ MaxSubs \in Nat /\ Subs = 1 .. Len(subs) /\ s \in 1 .. Len(subs)
  BY PayingBounds DEF Paying!TypeOK, Subs
<1>2. /\ subs' \in Seq(Paying!Statuses) /\ Len(subs') = Len(subs)
      /\ \A t \in 1 .. Len(subs) : subs'[t] = IF t = s THEN st ELSE subs[t]
  BY <1>1, ExceptSeq
<1> QED BY <1>1, <1>2 DEF OnlySub, Paying!SubIds

\* What Stripe sends when a subscription appears or changes tells its status.
Tells(s, news, f) ==
  /\ news \subseteq Paying!Events /\ f \in news /\ Applied(f) /\ f.status = subs'[s]
  /\ \A e \in news : e.sub = s /\ e.at <= now /\ (Applied(e) => e.at <= f.at)
  /\ f.at = now \/ s \notin Subs

LEMMA SendingKeeps ==
    ASSUME Paying!TypeOK, SentOfSubs, StatusSent, now' = now,
           NEW s, OnlySub(s), NEW news, NEW f, Tells(s, news, f), sent' = sent \union news
    PROVE  SentOfSubs' /\ StatusSent'
<1> USE DEF OnlySub, Tells
<1>1. now \in Int /\ (\A e \in sent : e.at \in Int) /\ \A e \in news : e.at \in Int
  BY PayingBounds DEF Paying!TypeOK, Paying!Events, Paying!Seconds
<1>2. Subs' = Subs \union {s}
  BY DEF Subs
<1>3. SentOfSubs'
  BY <1>2 DEF SentOfSubs
<1>4. ASSUME NEW t \in Subs'
      PROVE  \E g \in sent' :
               /\ Applied(g) /\ g.sub = t /\ g.status = subs'[t]
               /\ \A e \in sent' : e.sub = t /\ Applied(e) => e.at <= g.at
  <2>1. CASE t = s
    BY <1>1, <2>1 DEF SentOfSubs
  <2>2. CASE t # s
    <3>1. t \in Subs /\ subs'[t] = subs[t]
      BY <1>2, <2>2
    <3>2. PICK g \in sent : /\ Applied(g) /\ g.sub = t /\ g.status = subs[t]
                            /\ \A e \in sent : e.sub = t /\ Applied(e) => e.at <= g.at
      BY <3>1 DEF StatusSent
    <3> QED BY <2>2, <3>1, <3>2
  <2> QED BY <2>1, <2>2
<1> QED BY <1>3, <1>4 DEF StatusSent, Applied

\* What each step sends, and its types.
LEMMA StripeStep ==
    ASSUME Paying!TypeOK, SentOfSubs, StatusSent, RowIsYoungest, Paying!Next
    PROVE  Paying!TypeOK' /\ SentOfSubs' /\ StatusSent'
<1> DEFINE Stages == {"idle", "trial", "insert", "session", "erase"}
           Sound == Paying!TypeOK' /\ SentOfSubs' /\ StatusSent'
<1>1. /\ now \in Paying!Seconds /\ now \in Nat /\ MaxSecond \in Nat /\ Paying!Seconds = 0 .. MaxSecond
      /\ subs \in Seq(Paying!Statuses) /\ Len(subs) <= MaxSubs
      /\ sent \subseteq Paying!Events /\ acked \subseteq sent
      /\ sessions \in 0 .. MaxSessions /\ MaxSessions \in Nat
      /\ row \in {None} \union Paying!Rows
      /\ owned \in 0 .. MaxOwned /\ MaxOwned \in Nat
      /\ gone \in BOOLEAN /\ (gone => row = None /\ owned = 0)
      /\ req \in [Workers -> Stages]
  BY PayingBounds DEF Paying!TypeOK, Paying!Seconds, Paying!Idle
<1>2. /\ Paying!Known \in Paying!Rows /\ Paying!Known # None
      /\ row # None => Paying!Known = row
  BY RowTypes, <1>1, PayingBounds
<1>3. ASSUME now' \in Paying!Seconds, now <= now', UNCHANGED <<subs, sent>>
      PROVE  SentOfSubs' /\ StatusSent'
  <2>1. \A e \in sent : e.at \in Int
    BY <1>1 DEF Paying!Events
  <2> QED BY <1>1, <1>3, <2>1 DEF SentOfSubs, StatusSent, Subs
\* Steps that send nothing, and leave Stripe's subscriptions.
<1>4. ASSUME now' \in Paying!Seconds, now <= now', UNCHANGED <<subs, sent>>,
             acked' \subseteq sent, sessions' \in 0 .. MaxSessions,
             row' \in {None} \union Paying!Rows, owned' \in 0 .. MaxOwned,
             gone' \in BOOLEAN, gone' => row' = None /\ owned' = 0,
             req' \in [Workers -> Stages]
      PROVE  Sound
  BY <1>1, <1>3, <1>4 DEF Paying!TypeOK, Paying!Idle
\* Steps that change one subscription, or create it.
<1>5. ASSUME now' = now, NEW s, OnlySub(s), NEW news, NEW f, Tells(s, news, f),
             sent' = sent \union news, acked' = acked,
             sessions' \in 0 .. MaxSessions, row' \in {None} \union Paying!Rows,
             UNCHANGED <<owned, gone>>, gone => row' = None, req' \in [Workers -> Stages]
      PROVE  Sound
  <2>1. SentOfSubs' /\ StatusSent'
    BY <1>5, SendingKeeps
  <2>2. Paying!TypeOK'
    BY <1>1, <1>5 DEF Paying!TypeOK, Paying!Idle, OnlySub, Tells
  <2> QED BY <2>1, <2>2
<1>6. CASE Paying!Tick
  BY <1>1, <1>4, <1>6 DEF Paying!Tick, Paying!local
<1>7. CASE Paying!ExpireSession
  BY <1>1, <1>4, <1>7 DEF Paying!ExpireSession, Paying!local
<1>8. CASE Paying!DeleteBudget
  BY <1>1, <1>4, <1>8 DEF Paying!DeleteBudget, Paying!stripe
<1>9. ASSUME NEW s \in Subs, NEW status \in Paying!Statuses, Paying!Move(s, status) PROVE Sound
  <2> DEFINE what == IF status = "canceled" THEN "deleted" ELSE "updated"
             e == Paying!Event(what, s, status, now)
             news == {e}
  <2>1. /\ UNCHANGED <<now, acked, sessions, row, owned, gone, req>>
        /\ subs' = [subs EXCEPT ![s] = status] /\ sent' = sent \union news
    BY <1>9 DEF Paying!Move, Paying!Send, Paying!local
  <2>2. OnlySub(s) /\ subs'[s] = status
    BY <2>1, SubChanged
  <2>3. what \in Paying!Kinds /\ what # "checkout_completed" /\ s \in Paying!SubIds
    BY SubTypes DEF Paying!Kinds
  <2>4. e \in Paying!Events /\ e.kind = what /\ e.sub = s /\ e.status = status /\ e.at = now
    BY <1>1, <2>3, EventTypes
  <2> HIDE DEF e
  <2>5. Tells(s, news, e)
    BY <1>1, <2>2, <2>3, <2>4 DEF Tells, Applied
  <2> HIDE DEF news
  <2> QED BY <1>1, <1>5, <2>1, <2>2, <2>5
<1>10. ASSUME NEW s \in Subs, NEW status \in Paying!Statuses, Paying!PaymentFails(s, status)
       PROVE  Sound
  <2> DEFINE what == IF status = "canceled" THEN "deleted" ELSE "updated"
             d == Paying!Event("payment_failed", s, "past_due", now)
             e == Paying!Event(what, s, status, now)
             news == {d, e}
  <2>1. /\ UNCHANGED <<now, acked, sessions, row, owned, gone, req>>
        /\ subs' = [subs EXCEPT ![s] = status] /\ sent' = sent \union news
    BY <1>10 DEF Paying!PaymentFails, Paying!Send, Paying!local
  <2>2. OnlySub(s) /\ subs'[s] = status
    BY <2>1, SubChanged
  <2>3. /\ what \in Paying!Kinds /\ what # "checkout_completed" /\ s \in Paying!SubIds
        /\ "payment_failed" \in Paying!Kinds /\ "past_due" \in Paying!Statuses
    BY SubTypes DEF Paying!Kinds, Paying!Statuses
  <2>4. e \in Paying!Events /\ e.kind = what /\ e.sub = s /\ e.status = status /\ e.at = now
    BY <1>1, <2>3, EventTypes
  <2>5. d \in Paying!Events /\ d.sub = s /\ d.at = now
    BY <1>1, <2>3, EventTypes
  <2> HIDE DEF d, e
  <2>6. Tells(s, news, e)
    BY <1>1, <2>2, <2>3, <2>4, <2>5 DEF Tells, Applied
  <2> HIDE DEF news
  <2> QED BY <1>1, <1>5, <2>1, <2>2, <2>6
<1>11. ASSUME NEW status \in Paying!Statuses, NEW at \in Paying!Seconds,
              Paying!CompleteSession(status, at)
       PROVE  Sound
  <2> DEFINE s == Len(subs')
             d == Paying!Event("checkout_completed", s, status, now)
             e == Paying!Event("created", s, status, at)
             news == {e, d}
  <2>1. /\ UNCHANGED <<now, acked, row, owned, gone, req>> /\ Len(subs) < MaxSubs
        /\ subs' = Append(subs, status) /\ sent' = sent \union news
        /\ sessions > 0 /\ sessions' = sessions - 1 /\ at \in {now, now - 1}
    BY <1>11 DEF Paying!CompleteSession, Paying!Send, Paying!local
  <2>2. OnlySub(s) /\ s \notin Subs /\ subs'[s] = status
    BY <2>1, SubAppended
  <2>3. s \in Paying!SubIds /\ "checkout_completed" \in Paying!Kinds /\ "created" \in Paying!Kinds
    BY <2>2 DEF OnlySub, Paying!Kinds
  <2> HIDE DEF s
  <2>4. e \in Paying!Events /\ e.kind = "created" /\ e.sub = s /\ e.status = status /\ e.at = at
    BY <2>3, EventTypes
  <2>5. d \in Paying!Events /\ d.kind = "checkout_completed" /\ d.sub = s /\ d.at = now
    BY <1>1, <2>3, EventTypes
  <2> HIDE DEF d, e
  <2>6. Tells(s, news, e)
    BY <1>1, <2>1, <2>2, <2>4, <2>5 DEF Tells, Applied
  <2> HIDE DEF news
  <2>7. sessions' \in 0 .. MaxSessions
    BY <1>1, <2>1
  <2> QED BY <1>1, <1>5, <2>1, <2>2, <2>6, <2>7
<1>12. ASSUME NEW e \in sent, Paying!Deliver(e) PROVE Sound
  <2>1. [sub |-> e.sub, status |-> Paying!Carried(e, row.status), at |-> e.at] \in Paying!Rows
           \/ ~ Paying!Applies(e)
    <3>1. e \in Paying!Events
      BY <1>1
    <3> QED BY <3>1 DEF Paying!Applies, Paying!Carried, Paying!Events, Paying!Rows
  <2> QED BY <1>1, <1>4, <1>12, <2>1 DEF Paying!Deliver
<1>13. ASSUME NEW r \in Workers PROVE Paying!At(r, "idle") \/ Paying!At(r, "trial")
              \/ Paying!At(r, "insert") \/ Paying!At(r, "session") \/ Paying!At(r, "erase")
                => req' \in [Workers -> Stages]
  BY <1>1 DEF Paying!At
<1>14. ASSUME NEW r \in Workers, Paying!CreateBudget(r) PROVE Sound
  BY <1>1, <1>4, <1>13, <1>14 DEF Paying!CreateBudget, Paying!stripe, Paying!local
<1>15. ASSUME NEW r \in Workers, Paying!StartTrial(r) PROVE Sound
  <2>1. /\ UNCHANGED <<now, acked, sessions, owned, gone>> /\ req' \in [Workers -> Stages]
        /\ row' = IF gone THEN row ELSE Paying!Known
    BY <1>13, <1>15 DEF Paying!StartTrial, Paying!Idle
  <2>2. row' \in {None} \union Paying!Rows /\ (gone => row' = None)
    BY <1>1, <1>2, <2>1
  <2>3. CASE UNCHANGED <<subs, sent>>
    BY <1>1, <1>4, <2>1, <2>2, <2>3
  <2>4. CASE ~ UNCHANGED <<subs, sent>>
    <3> DEFINE s == Len(subs')
               e == Paying!Event("created", s, "trialing", now)
               news == {e}
    <3>1. Len(subs) < MaxSubs /\ subs' = Append(subs, "trialing") /\ sent' = sent \union news
      BY <1>15, <2>4 DEF Paying!StartTrial, Paying!Send
    <3>2. /\ OnlySub(s) /\ s \notin Subs /\ subs'[s] = "trialing"
          /\ "trialing" \in Paying!Statuses /\ "created" \in Paying!Kinds
      BY <3>1, SubAppended DEF Paying!Statuses, Paying!Kinds
    <3>3. s \in Paying!SubIds
      BY <3>2 DEF OnlySub
    <3> HIDE DEF s
    <3>4. e \in Paying!Events /\ e.kind = "created" /\ e.sub = s /\ e.status = "trialing" /\ e.at = now
      BY <1>1, <3>2, <3>3, EventTypes
    <3> HIDE DEF e
    <3>5. Tells(s, news, e)
      BY <1>1, <3>2, <3>4 DEF Tells, Applied
    <3> HIDE DEF news
    <3> QED BY <1>1, <1>5, <2>1, <2>2, <3>1, <3>2, <3>5
  <2> QED BY <2>3, <2>4
<1>16. ASSUME NEW r \in Workers, Paying!InsertBudget(r) PROVE Sound
  BY <1>1, <1>4, <1>13, <1>16 DEF Paying!InsertBudget, Paying!stripe, Paying!Idle
<1>17. ASSUME NEW r \in Workers, Paying!Checkout(r) PROVE Sound
  BY <1>1, <1>4, <1>13, <1>17 DEF Paying!Checkout, Paying!stripe, Paying!local
<1>18. ASSUME NEW r \in Workers, Paying!OpenSession(r) PROVE Sound
  BY <1>1, <1>2, <1>4, <1>13, <1>18 DEF Paying!OpenSession, Paying!Idle
<1>19. ASSUME NEW r \in Workers, Paying!DeleteAccount(r) PROVE Sound
  <2>1. UNCHANGED <<now, acked, sessions, row, owned, gone>> /\ req' \in [Workers -> Stages]
    BY <1>13, <1>19 DEF Paying!DeleteAccount, Paying!local, Paying!Cancel, Paying!Idle
  <2>2. CASE UNCHANGED <<subs, sent>>
    BY <1>1, <1>4, <2>1, <2>2
  <2>3. CASE ~ UNCHANGED <<subs, sent>>
    <3> DEFINE s == Paying!Known.sub
               e == Paying!Event("deleted", s, "canceled", now)
               news == {e}
    <3>1. /\ s # None /\ ~ gone
          /\ subs' = [subs EXCEPT ![s] = "canceled"] /\ sent' = sent \union news
      BY <1>19, <2>3 DEF Paying!DeleteAccount, Paying!Cancel, Paying!Send
    <3>2. s \in Subs
      <4>1. row # None /\ row # Paying!Placeholder /\ Paying!Known = row
        BY <3>1, RowTypes
      <4>2. PICK f \in acked : row = [sub |-> f.sub, status |-> f.status, at |-> f.at]
        BY <3>1, <4>1 DEF RowIsYoungest
      <4> QED BY <1>1, <4>1, <4>2 DEF SentOfSubs
    <3>3. /\ s \in Paying!SubIds /\ "deleted" \in Paying!Kinds /\ "canceled" \in Paying!Statuses
      BY <3>2, SubTypes DEF Paying!Kinds, Paying!Statuses
    <3> HIDE DEF s
    <3>4. OnlySub(s) /\ subs'[s] = "canceled"
      BY <3>1, <3>2, <3>3, SubChanged
    <3>5. e \in Paying!Events /\ e.kind = "deleted" /\ e.sub = s /\ e.status = "canceled" /\ e.at = now
      BY <1>1, <3>3, EventTypes
    <3> HIDE DEF e
    <3>6. Tells(s, news, e)
      BY <1>1, <3>4, <3>5 DEF Tells, Applied
    <3> HIDE DEF news
    <3> QED BY <1>1, <1>5, <2>1, <3>1, <3>4, <3>6
  <2> QED BY <2>2, <2>3
<1>20. ASSUME NEW r \in Workers, Paying!Erase(r) PROVE Sound
  BY <1>1, <1>4, <1>13, <1>20 DEF Paying!Erase, Paying!stripe, Paying!Idle
<1>21. ASSUME NEW r \in Workers, Paying!EraseFails(r) PROVE Sound
  BY <1>1, <1>4, <1>13, <1>21 DEF Paying!EraseFails, Paying!stripe, Paying!local, Paying!Idle
<1> QED
  BY <1>6, <1>7, <1>8, <1>9, <1>10, <1>11, <1>12, <1>14, <1>15, <1>16, <1>17, <1>18, <1>19, <1>20,
     <1>21
     DEF Paying!Next, Subs

\* The webhook keeps the row at the youngest event it has answered, and a request
\* writes it only to leave a placeholder.
LEMMA RowStep ==
    ASSUME Paying!TypeOK, SentOfSubs, RowIsYoungest, Paying!Next
    PROVE  RowIsYoungest'
<1> SUFFICES ASSUME ~ gone' PROVE RowIsYoungest'
  BY DEF RowIsYoungest
<1> DEFINE Young(x, answered) ==
             \/ /\ x \in {None, Paying!Placeholder}
                /\ \A e \in answered : ~ Applied(e)
             \/ \E f \in answered :
                  /\ Applied(f) /\ x = [sub |-> f.sub, status |-> f.status, at |-> f.at]
                  /\ \A e \in answered : Applied(e) => e.at <= f.at
           Sold == sessions > 0 \/ Subs # {}
<1>1. ~ gone
  BY DEF Paying!Next, Paying!Tick, Paying!Move, Paying!PaymentFails, Paying!CompleteSession,
     Paying!ExpireSession, Paying!Deliver, Paying!CreateBudget, Paying!StartTrial,
     Paying!InsertBudget, Paying!DeleteBudget, Paying!Checkout, Paying!OpenSession,
     Paying!DeleteAccount, Paying!Erase, Paying!EraseFails, Paying!local, Paying!stripe
<1>2. Young(row, acked) /\ (Sold => row # None)
  BY <1>1 DEF RowIsYoungest
<1>3. /\ row # None => Paying!Known = row
      /\ row = None => Paying!Known = Paying!Placeholder
      /\ Paying!Placeholder # None /\ Paying!Placeholder.at = None
      /\ sessions \in Int /\ subs \in Seq(Paying!Statuses) /\ Len(subs) \in Nat
      /\ acked \subseteq Paying!Events
  BY RowTypes, PayingBounds DEF Paying!TypeOK
<1>4. /\ \A f \in Paying!Events : [sub |-> f.sub, status |-> f.status, at |-> f.at] # None
      /\ \A f \in Paying!Events : f.at # None
      /\ row = None \/ row = Paying!Placeholder => \A e \in acked : ~ Applied(e)
  <2>1. \A f \in Paying!Events :
           /\ [sub |-> f.sub, status |-> f.status, at |-> f.at] \in Paying!Rows
           /\ f.at \in Int
    BY PayingBounds DEF Paying!Rows, Paying!Events, Paying!Seconds
  <2>2. \A f \in Paying!Events : [sub |-> f.sub, status |-> f.status, at |-> f.at].at # None
    BY <2>1, PayingBounds
  <2> QED BY <1>2, <1>3, <2>1, <2>2, PayingBounds
<1> HIDE DEF Young
\* Steps that answer nothing, and sell nothing to a user without a row.
<1>5. ASSUME acked' = acked, row' \in {row, Paying!Known}, Sold' => row' # None
      PROVE  RowIsYoungest'
  <2>1. Young(row', acked)
    <3>1. CASE row' = row
      BY <1>2, <3>1
    <3>2. CASE row' # row
      <4>1. row = None /\ row' = Paying!Placeholder
        BY <1>3, <1>5, <3>2
      <4>2. \A e \in acked : ~ Applied(e)
        BY <1>4, <4>1
      <4> QED BY <4>1, <4>2 DEF Young
    <3> QED BY <3>1, <3>2
  <2> QED BY <1>5, <2>1 DEF Young, RowIsYoungest, Applied
<1>6. ASSUME UNCHANGED <<acked, row>>, Sold' => Sold PROVE RowIsYoungest'
  BY <1>2, <1>5, <1>6
<1>7. ASSUME NEW e \in sent, Paying!Deliver(e) PROVE RowIsYoungest'
  <2>1. /\ UNCHANGED <<subs, sessions>> /\ acked' = acked \union {e} /\ e \in Paying!Events
        /\ row' = IF Applied(e) /\ row # None /\ Paying!Fresher(e)
                    THEN [sub |-> e.sub, status |-> Paying!Carried(e, row.status), at |-> e.at]
                    ELSE row
    BY <1>7 DEF Paying!Deliver, Applied, Paying!Applies, Paying!TypeOK
  <2>2. \A f \in acked \union {e} : f.at \in Int
    BY <1>3, <2>1, PayingBounds DEF Paying!Events, Paying!Seconds
  <2>3. Young(row', acked') /\ (Sold' => row' # None)
    <3>1. CASE ~ Applied(e)
      <4>1. row' = row
        BY <2>1, <3>1
      <4>2. Young(row, acked')
        BY <1>2, <2>1, <3>1 DEF Young
      <4> QED BY <1>2, <2>1, <4>1, <4>2 DEF Subs
    <3>2. CASE Applied(e)
      <4>1. row # None
        <5>1. Subs # {}
          BY DEF SentOfSubs
        <5> QED BY <1>2, <5>1
      <4>2. CASE row = Paying!Placeholder
        <5>1. row' = [sub |-> e.sub, status |-> e.status, at |-> e.at]
          BY <1>3, <2>1, <3>2, <4>1, <4>2 DEF Paying!Carried, Paying!Fresher, Applied
        <5>2. \A g \in acked : ~ Applied(g)
          BY <1>4, <4>2
        <5>3. Young(row', acked')
          BY <2>1, <2>2, <3>2, <5>1, <5>2 DEF Young
        <5> QED BY <1>4, <2>1, <5>1, <5>3
      <4>3. CASE row # Paying!Placeholder
        <5>1. PICK f \in acked :
                /\ Applied(f) /\ row = [sub |-> f.sub, status |-> f.status, at |-> f.at]
                /\ \A g \in acked : Applied(g) => g.at <= f.at
          BY <1>2, <4>1, <4>3 DEF Young
        <5>2. row.at = f.at /\ f.at \in Int /\ f.at # None
          BY <2>2, <5>1, PayingBounds
        <5>3. CASE f.at <= e.at
          <6>1. row' = [sub |-> e.sub, status |-> e.status, at |-> e.at]
            BY <2>1, <3>2, <4>1, <5>2, <5>3 DEF Paying!Carried, Paying!Fresher, Applied
          <6>2. \A g \in acked' : Applied(g) => g.at <= e.at
            BY <2>1, <2>2, <5>1, <5>2, <5>3
          <6> QED BY <2>1, <3>2, <6>1, <6>2, <1>4 DEF Young
        <5>4. CASE ~ (f.at <= e.at)
          <6>1. row' = row
            BY <2>1, <5>2, <5>4 DEF Paying!Fresher
          <6>2. \A g \in acked' : Applied(g) => g.at <= f.at
            BY <2>1, <2>2, <5>1, <5>2, <5>4
          <6> QED BY <2>1, <4>1, <5>1, <6>1, <6>2 DEF Young
        <5> QED BY <5>3, <5>4
      <4> QED BY <4>2, <4>3
    <3> QED BY <3>1, <3>2
  <2> QED BY <2>3 DEF Young, RowIsYoungest, Applied
\* The other steps.
<1>8. ASSUME NEW s \in Subs, NEW status \in Paying!Statuses, Paying!Move(s, status) \/ Paying!PaymentFails(s, status)
      PROVE  RowIsYoungest'
  BY <1>2, <1>6, <1>8 DEF Paying!Move, Paying!PaymentFails, Paying!local, Subs
<1>9. ASSUME NEW status, NEW at, Paying!CompleteSession(status, at) PROVE RowIsYoungest'
  BY <1>6, <1>9 DEF Paying!CompleteSession, Paying!local
<1>10. CASE Paying!Tick \/ Paying!ExpireSession \/ Paying!DeleteBudget
  BY <1>6, <1>10 DEF Paying!Tick, Paying!ExpireSession, Paying!DeleteBudget, Paying!local, Paying!stripe, Subs
<1>11. ASSUME NEW r \in Workers,
              \/ Paying!CreateBudget(r) \/ Paying!InsertBudget(r) \/ Paying!Checkout(r) \/ Paying!EraseFails(r)
       PROVE  RowIsYoungest'
  BY <1>6, <1>11
     DEF Paying!CreateBudget, Paying!InsertBudget, Paying!Checkout, Paying!EraseFails, Paying!local, Paying!stripe, Subs
<1>12. ASSUME NEW r \in Workers, Paying!StartTrial(r) \/ Paying!OpenSession(r) PROVE RowIsYoungest'
  <2>1. acked' = acked /\ row' = Paying!Known
    BY <1>1, <1>12 DEF Paying!StartTrial, Paying!OpenSession
  <2>2. Paying!Known # None
    BY <1>3
  <2> QED BY <1>5, <2>1, <2>2
<1>13. ASSUME NEW r \in Workers, Paying!DeleteAccount(r) PROVE RowIsYoungest'
  <2>1. UNCHANGED <<acked, row, sessions>> /\ (subs' = subs \/ \E s : subs' = [subs EXCEPT ![s] = "canceled"])
    BY <1>13 DEF Paying!DeleteAccount, Paying!Cancel, Paying!local
  <2>2. Subs' = Subs
    BY <2>1 DEF Subs
  <2> QED BY <1>6, <2>1, <2>2
<1>14. ASSUME NEW r \in Workers, Paying!Erase(r) PROVE RowIsYoungest'
  BY <1>14 DEF Paying!Erase
<1> QED
  BY <1>7, <1>8, <1>9, <1>10, <1>11, <1>12, <1>13, <1>14 DEF Paying!Next, Subs

\* No request that is about to start a trial had anything to know: the table it read
\* said that nothing was ever answered (NeverSubscribed).
LEMMA InformedStep ==
    ASSUME Paying!TypeOK, RowIsYoungest, informed = {}, Paying!MCNext
    PROVE  informed' = {}
<1> SUFFICES ASSUME NEW r \in Workers, req'[r] = "trial", req[r] # "trial",
                    NEW e \in acked, e.kind # "checkout_completed"
             PROVE  FALSE
  BY DEF Paying!MCNext
<1>1. Paying!CreateBudget(r)
  BY DEF Paying!MCNext, Paying!Next, Paying!Tick, Paying!Move, Paying!PaymentFails, Paying!CompleteSession,
     Paying!ExpireSession, Paying!Deliver, Paying!CreateBudget, Paying!StartTrial,
     Paying!InsertBudget, Paying!DeleteBudget, Paying!Checkout, Paying!OpenSession,
     Paying!DeleteAccount, Paying!Cancel, Paying!Erase, Paying!EraseFails, Paying!At, Paying!Idle, Paying!TypeOK
<1>2. ~ gone /\ Paying!NeverSubscribed
  BY <1>1 DEF Paying!CreateBudget, Paying!At, Paying!TypeOK, Paying!Idle
<1>3. PICK f \in acked : row = [sub |-> f.sub, status |-> f.status, at |-> f.at]
  BY <1>2 DEF RowIsYoungest, Applied
<1>4. f.status \in Paying!Statuses /\ f.sub \in Paying!SubIds /\ f.at \in Paying!Seconds
  BY DEF Paying!TypeOK, Paying!Events
<1>5. row \in Paying!Rows /\ row.sub = f.sub
  BY <1>3, <1>4 DEF Paying!Rows
<1>6. f.sub # None
  BY <1>4, PayingBounds DEF Paying!SubIds
<1> QED BY <1>2, <1>5, <1>6, PayingBounds DEF Paying!NeverSubscribed, Paying!Known

\* What a deletion that knew of everything cancels stays cancelled: nothing revives a
\* subscription, and another request beside the deletion spoils its history.
LEMMA AliveStep ==
    ASSUME Paying!TypeOK, RowIsYoungest, SentOfSubs, exposed \in BOOLEAN, NothingAlive, Paying!MCNext
    PROVE  NothingAlive' /\ exposed' \in BOOLEAN
<1>1. /\ Paying!Next /\ exposed' \in BOOLEAN /\ (~ exposed' => ~ exposed)
      /\ \A r \in Workers : ~ exposed' /\ req'[r] = "erase" =>
            /\ ~ Paying!Unknown
            /\ \A q \in Workers \ {r} : req'[q] = "idle"
  BY DEF Paying!MCNext, Paying!Busy, Paying!Idle
<1> SUFFICES ASSUME Erasing', ~ exposed' PROVE NothingAlive'
  BY <1>1 DEF NothingAlive
<1>2. /\ subs \in Seq(Paying!Statuses) /\ Subs = DOMAIN subs /\ sessions \in Nat
      /\ req \in [Workers -> {"idle", "trial", "insert", "session", "erase"}]
      /\ \A s \in Subs : subs[s] \in Paying!Statuses
  BY SubTypes, PayingBounds DEF Paying!TypeOK, Subs, Paying!Idle
<1>3. \A r, w \in Workers : \A st : Paying!At(r, st) => req'[w] = IF w = r THEN st ELSE req[w]
  BY <1>2 DEF Paying!At
\* A step that starts no request and does not begin to erase.
<1>4. ASSUME Erasing, sessions = 0 => sessions' = 0,
             (\A s \in Subs : subs[s] = "canceled") => \A s \in Subs' : subs'[s] = "canceled",
             gone' => \A r \in Workers : req'[r] = "idle"
      PROVE  NothingAlive'
  BY <1>1, <1>4 DEF NothingAlive
<1>5. ASSUME Erasing
      PROVE  /\ sessions = 0 /\ \A s \in Subs : subs[s] = "canceled"
             /\ gone => \A r \in Workers : req[r] = "idle"
             /\ \A q, r \in Workers : q # r /\ req[r] = "erase" => req[q] = "idle"
  BY <1>1, <1>5 DEF NothingAlive
<1>6. ASSUME UNCHANGED <<subs, gone, req>>, sessions = 0 => sessions' = 0 PROVE NothingAlive'
  BY <1>4, <1>5, <1>6 DEF Erasing, Subs
<1>7. CASE Paying!Tick \/ Paying!ExpireSession \/ Paying!DeleteBudget
  BY <1>2, <1>6, <1>7 DEF Paying!Tick, Paying!ExpireSession, Paying!DeleteBudget, Paying!local, Paying!stripe
<1>8. ASSUME NEW s \in Subs, NEW status \in Paying!Statuses, Paying!Move(s, status) \/ Paying!PaymentFails(s, status)
      PROVE  NothingAlive'
  <2>1. UNCHANGED <<gone, req>> /\ subs[s] # "canceled"
    BY <1>8 DEF Paying!Move, Paying!PaymentFails, Paying!local
  <2> QED BY <1>5, <2>1 DEF Erasing
<1>9. ASSUME NEW status, NEW at, Paying!CompleteSession(status, at) PROVE NothingAlive'
  BY <1>2, <1>5, <1>9 DEF Paying!CompleteSession, Paying!local, Erasing
<1>10. ASSUME NEW e \in sent, Paying!Deliver(e) PROVE NothingAlive'
  BY <1>6, <1>10 DEF Paying!Deliver
\* A step of one request: unless it erases, none was erasing beside it.
<1>11. ASSUME NEW r \in Workers, NEW st, Paying!At(r, st), st # "erase", gone' = gone,
              req[r] # "erase", ~ gone \/ req[r] # "idle", st # "idle" \/ req[r] # "idle"
       PROVE  FALSE
  <2>1. PICK q \in Workers : req'[q] = "erase"
    <3>1. CASE gone
      BY <1>5, <1>11, <3>1 DEF Erasing
    <3>2. CASE ~ gone
      BY <1>11, <3>2 DEF Erasing
    <3> QED BY <3>1, <3>2
  <2>2. q # r /\ req[q] = "erase"
    BY <1>3, <1>11, <2>1
  <2>3. req'[r] = "idle" /\ req[r] = "idle"
    BY <1>1, <1>5, <2>1, <2>2 DEF Erasing
  <2> QED BY <1>3, <1>11, <2>3
<1>12. ASSUME NEW r \in Workers, Paying!CreateBudget(r) \/ Paying!Checkout(r) PROVE NothingAlive'
  <2>1. gone' = gone /\ ~ gone /\ req[r] = "idle" /\ \E st \in {"trial", "insert", "session"} : Paying!At(r, st)
    BY <1>12 DEF Paying!CreateBudget, Paying!Checkout, Paying!local, Paying!Idle
  <2> QED BY <1>11, <2>1
<1>13. ASSUME NEW r \in Workers, Paying!StartTrial(r) \/ Paying!InsertBudget(r) \/ Paying!OpenSession(r)
       PROVE  NothingAlive'
  <2>1. /\ gone' = gone /\ req[r] \in {"trial", "insert", "session"}
        /\ \E st \in {"idle", "insert"} : Paying!At(r, st)
    BY <1>13 DEF Paying!StartTrial, Paying!InsertBudget, Paying!OpenSession, Paying!Idle
  <2> QED BY <1>11, <2>1
<1>14. ASSUME NEW r \in Workers, Paying!DeleteAccount(r) PROVE NothingAlive'
  <2>1. ~ gone /\ gone' = gone /\ req[r] = "idle" /\ row' = row /\ sessions' = sessions
    BY <1>14 DEF Paying!DeleteAccount, Paying!Idle, Paying!local
  <2>2. CASE Paying!At(r, "idle") /\ UNCHANGED <<subs, sent>>
    <3>1. req' = req
      BY <1>2, <2>1, <2>2 DEF Paying!At
    <3> QED BY <1>6, <2>1, <2>2, <3>1
  <2>3. CASE Paying!At(r, "erase")
    <3>1. req'[r] = "erase"
      BY <1>3, <2>3
    <3>2. /\ sessions = 0 /\ \A s \in Subs : subs[s] # "canceled" => Paying!Known.sub = s
          /\ \A q \in Workers \ {r} : req'[q] = "idle"
      BY <1>1, <1>2, <3>1 DEF Paying!Unknown, Paying!Live, Subs
    <3>3. /\ \/ Paying!Known.sub # None /\ subs[Paying!Known.sub] # "canceled"
                /\ subs' = [subs EXCEPT ![Paying!Known.sub] = "canceled"]
             \/ ~ (Paying!Known.sub # None /\ subs[Paying!Known.sub] # "canceled") /\ subs' = subs
      <4>1. ~ UNCHANGED <<subs, sent>> \/ ~ Paying!At(r, "idle")
        BY <1>3, <3>1 DEF Paying!At
      <4>2. IF Paying!Known.sub # None /\ subs[Paying!Known.sub] # "canceled"
              THEN subs' = [subs EXCEPT ![Paying!Known.sub] = "canceled"]
              ELSE subs' = subs
        BY <1>3, <1>14, <3>1 DEF Paying!DeleteAccount, Paying!Cancel, Paying!Live, Paying!Idle
      <4> QED BY <4>2
    <3>4. Subs' = Subs /\ \A s \in Subs : subs'[s] = "canceled"
      <4>1. \A s \in Subs : s # None
        BY <1>2, PayingBounds
      <4> QED BY <1>2, <3>2, <3>3, <4>1 DEF Subs
    <3> QED BY <1>1, <2>1, <3>1, <3>2, <3>4 DEF NothingAlive
  <2> QED BY <1>14, <2>2, <2>3 DEF Paying!DeleteAccount, Paying!Cancel, Paying!Idle
<1>15. ASSUME NEW r \in Workers, Paying!Erase(r) \/ Paying!EraseFails(r) PROVE NothingAlive'
  <2>1. /\ req[r] = "erase" /\ Paying!At(r, "idle") /\ UNCHANGED <<subs, sessions>>
    BY <1>15 DEF Paying!Erase, Paying!EraseFails, Paying!stripe, Paying!Idle
  <2>2. \A q \in Workers : req'[q] = "idle"
    BY <1>3, <1>5, <2>1 DEF Erasing
  <2> QED BY <1>4, <2>1, <2>2 DEF Erasing, Subs
<1> QED
  BY <1>1, <1>7, <1>8, <1>9, <1>10, <1>12, <1>13, <1>14, <1>15 DEF Paying!Next, Subs

LEMMA PayingInit == Paying!MCInit => PayingSound
<1> SUFFICES ASSUME Paying!MCInit PROVE PayingSound
  OBVIOUS
<1>1. /\ now = 0 /\ subs = << >> /\ sent = {} /\ acked = {} /\ sessions = 0
      /\ row = None /\ owned = 0 /\ gone = FALSE /\ req = [r \in Workers |-> "idle"]
      /\ informed = {} /\ exposed = FALSE
  BY DEF Paying!MCInit, Paying!Init, Paying!Idle
<1>2. subs \in Seq(Paying!Statuses) /\ Len(subs) = 0 /\ Subs = {}
  BY <1>1 DEF Subs
<1>3. Paying!TypeOK
  <2>1. /\ 0 \in 0 .. MaxSecond /\ 0 \in 0 .. MaxSessions /\ 0 \in 0 .. MaxOwned
        /\ Len(subs) <= MaxSubs
    BY <1>2, PayingBounds
  <2> QED BY <1>1, <1>2, <2>1 DEF Paying!TypeOK, Paying!Seconds, Paying!Idle
<1>4. ~ Erasing
  BY <1>1 DEF Erasing
<1>5. RowIsYoungest
  BY <1>1, <1>2 DEF RowIsYoungest
<1> QED
  BY <1>1, <1>2, <1>3, <1>4, <1>5 DEF PayingSound, SentOfSubs, StatusSent, NothingAlive

LEMMA PayingStep == PayingSound /\ Paying!MCNext => PayingSound'
BY StripeStep, RowStep, InformedStep, AliveStep DEF PayingSound, Paying!MCNext

\* The properties of Billing follow from what is kept.
LEMMA PayingProperties ==
    ASSUME PayingSound
    PROVE  /\ Paying!TypeOK /\ Paying!RowFollowsStripe /\ Paying!DeletionCancelsAlone
           /\ Paying!FirstTrial
<1>1. Paying!DeletionCancelsAlone
  BY DEF PayingSound, NothingAlive, Erasing, Paying!DeletionCancelsAlone, Paying!Live, Subs
<1>2. Paying!FirstTrial
  BY DEF PayingSound, Paying!FirstTrial
<1>3. ASSUME ~ gone, sent = acked, NEW e \in Paying!Newest,
             \A f \in Paying!Newest : f.sub = e.sub /\ f.status = e.status
      PROVE  row # None /\ row.sub = e.sub /\ row.status = subs[e.sub]
  <2>1. /\ e \in sent /\ Applied(e) /\ \A f \in sent : Applied(f) => f.at <= e.at
        /\ \A f \in sent : Applied(f) /\ (\A g \in sent : Applied(g) => g.at <= f.at)
             => f.sub = e.sub /\ f.status = e.status
    BY <1>3 DEF Paying!Newest, Paying!Applied, Paying!Applies, Applied
  <2>2. PICK f \in sent : /\ Applied(f) /\ row = [sub |-> f.sub, status |-> f.status, at |-> f.at]
                          /\ \A g \in sent : Applied(g) => g.at <= f.at
    BY <1>3, <2>1 DEF PayingSound, RowIsYoungest
  <2>3. row.sub = e.sub /\ row.status = e.status
    BY <2>1, <2>2
  <2>4. PICK g \in sent : /\ Applied(g) /\ g.sub = e.sub /\ g.status = subs[e.sub]
                          /\ \A h \in sent : h.sub = e.sub /\ Applied(h) => h.at <= g.at
    BY <2>1 DEF PayingSound, StatusSent, SentOfSubs
  <2>5. \A h \in sent : h.at \in Int
    BY PayingBounds DEF PayingSound, Paying!TypeOK, Paying!Events, Paying!Seconds
  <2>6. g.status = e.status
    BY <2>1, <2>4, <2>5
  <2>7. row # None
    BY <2>2, PayingBounds DEF PayingSound, Paying!TypeOK, Paying!Events, Paying!Rows
  <2> QED BY <2>3, <2>4, <2>6, <2>7
<1> QED BY <1>1, <1>2, <1>3 DEF PayingSound, Paying!RowFollowsStripe

-----------------------------------------------------------------------------
(* Sharing: what a permission is *)

OwnerOf(b) == CHOOSE u \in Users : TRUE

LEMMA SharingConstants ==
  /\ \A b \in Houses : OwnerOf(b) \in Users
  /\ Projects \subseteq Houses /\ None \notin Houses
BY BudgetsAssumption DEF Sharing!SharedBudgetAssumption, OwnerOf

LEMMA MaxProperties ==
    ASSUME NEW a \in Int, NEW b \in Int
    PROVE  /\ Sharing!Max({a, b}) \in {a, b} /\ Sharing!Max({a, b}) >= a /\ Sharing!Max({a, b}) >= b
           /\ Sharing!Max({a} \union {b}) \in {a, b}
           /\ Sharing!Max({a} \union {b}) >= a /\ Sharing!Max({a} \union {b}) >= b
           /\ Sharing!Max({a} \union {}) = a
<1>1. \E x \in {a, b} : \A y \in {a, b} : x >= y
  OBVIOUS
<1>2. Sharing!Max({a, b}) \in {a, b} /\ \A y \in {a, b} : Sharing!Max({a, b}) >= y
  BY <1>1 DEF Sharing!Max
<1>3. {a} \union {b} = {a, b} /\ {a} \union {} = {a}
  OBVIOUS
<1>4. Sharing!Max({a}) = a
  BY DEF Sharing!Max
<1> QED BY <1>2, <1>3, <1>4

Levels == 0 .. 3

\* A member's level on a parent, as its children inherit it.
LevelOn(u, c) == IF OwnerOf(c) = u THEN 2 ELSE share[<<c, u>>]

\* What the sharing rules grant is made of what the statements of a check read.
LEMMA MayDoIs ==
    ASSUME share \in [Houses \X Users -> 0 .. 2], parent \in [Houses -> Houses \union {None}],
           NEW u \in Users, NEW b \in Houses
    PROVE  /\ Sharing!MayDo(u, b) \in Levels
           /\ OwnerOf(b) = u => Sharing!MayDo(u, b) = 3
           /\ Sharing!MayDo(u, b) >= share[<<b, u>>]
           /\ parent[b] # None => Sharing!MayDo(u, b) >= LevelOn(u, parent[b])
           /\ OwnerOf(b) # u =>
                (Sharing!MayDo(u, b) = 0
                   <=> share[<<b, u>>] = 0 /\ (parent[b] # None => LevelOn(u, parent[b]) = 0))
<1> DEFINE direct == share[<<b, u>>]
           inherited == IF parent[b] = None THEN 0 ELSE LevelOn(u, parent[b])
<1>1. direct \in 0 .. 2 /\ inherited \in 0 .. 2
  BY DEF LevelOn
<1>2. Sharing!MayDo(u, b) = IF OwnerOf(b) = u THEN 3
                            ELSE IF direct >= 2 \/ inherited >= 2 THEN 2
                            ELSE IF direct >= 1 \/ inherited >= 1 THEN 1 ELSE 0
  BY <1>1, SharingConstants
     DEF LevelOn, Sharing!MayDo, Sharing!Shares, Sharing!NoAccess, Sharing!View, Sharing!Edit, Sharing!Full, OwnerOf
<1>3. parent[b] # None => inherited = LevelOn(u, parent[b])
  OBVIOUS
<1>4. parent[b] = None => inherited = 0
  OBVIOUS
<1> HIDE DEF inherited
<1> QED BY <1>1, <1>2, <1>3, <1>4 DEF Levels

-----------------------------------------------------------------------------
(* Sharing: what a request under way may still do *)

CheckStages == {"look", "direct", "inherited"}

\* The histories are up to date: the most the caller could do, and was lent.
Watching(w) ==
  /\ Sharing!About(w) => could[w] >= Sharing!MayDo(req[w].user, req[w].budget)
  /\ Sharing!Torn(w) => lent[w] >= Sharing!Borrowed(w)

\* A permission its caller once had, or was lent by a parent cut off under the check.
RestsOn(c, l, perm) == c >= perm \/ l >= perm

\* What a request has been granted rests on the histories: the level a check has read,
\* the permission of a chat turn, the operation that passed a gate, the owner's
\* subscription and the open budget behind it.
Granted(w) ==
  /\ req[w].at = "inherited" =>
       req[w].link \in Houses /\ OwnerOf(req[w].link) # req[w].user /\ could[w] >= req[w].direct
  /\ req[w].at = "ask" => IF req[w].budget = None THEN req[w].perm = 0
                                                  ELSE RestsOn(could[w], lent[w], req[w].perm)
  /\ req[w].at \in {"gate", "closed", "write"} /\ req[w].op # "switch"
       => RestsOn(could[w], lent[w], Sharing!required_perm(req[w].op))
  /\ req[w].at \in {"gate", "closed"} => req[w].op # "switch"
  /\ req[w].at \in {"closed", "write"} /\ req[w].op # "switch" => w \in paid
  /\ req[w].at = "write" /\ req[w].op = "record" => w \in open

\* While no grant changes, a check that chooses a budget reads one moment, and the budget
\* that was resolved can still be seen.
Seen(w) ==
  Sharing!Choosing(w) /\ w \notin shaken =>
    /\ req[w].at \in {"direct", "inherited"} =>
         OwnerOf(req[w].budget) # req[w].user /\ req[w].link = parent[req[w].budget]
    /\ req[w].at = "inherited" => req[w].direct = share[<<req[w].budget, req[w].user>>]
    /\ req[w].ask = "resolved" => Sharing!MayDo(req[w].user, req[w].budget) # 0

\* Everybody's default is a budget of their own.
OwnDefaults == \A u \in Users : default[u] # None => OwnerOf(default[u]) = u

SharingSound ==
  /\ Sharing!TypeOK /\ could \in [Workers -> Levels] /\ lent \in [Workers -> 0 .. 2] /\ OwnDefaults
  /\ \A w \in Workers : Watching(w) /\ Granted(w) /\ Seen(w)

\* The records a request goes through.
Check(st) ==
  [at : {st}, user : Users, budget : Houses, ask : Sharing!Asks, link : Houses \union {None}, direct : 0 .. 2]
Deed(st) == [at : {st}, user : Users, budget : Houses, op : Sharing!Ops]

LEMMA RecordTypes ==
    ASSUME NEW r \in {Sharing!Idle} \union Sharing!Requests
    PROVE  /\ r.at = "idle" <=> r = Sharing!Idle
           /\ r.at \in CheckStages => r \in Check(r.at)
           /\ r.at = "default" => r \in [at : {"default"}, user : Users, budget : {None}]
           /\ r.at = "ask" =>
                r \in [at : {"ask"}, user : Users, budget : Houses \union {None}, perm : Levels]
           /\ r.at \in {"gate", "closed", "write"} => r \in Deed(r.at)
           /\ r.at \in {"idle", "look", "direct", "inherited", "default", "ask", "gate", "closed", "write"}
<1>1. CASE r = Sharing!Idle
  BY <1>1 DEF Sharing!Idle, CheckStages
<1>2. CASE r \in Sharing!Requests
  BY <1>2 DEF Sharing!Requests, Check, Deed, Levels, CheckStages, Sharing!NoAccess, Sharing!Edit, Sharing!Full,
              Sharing!Idle
<1> QED BY <1>1, <1>2

LEMMA RequestTypes ==
    ASSUME Sharing!TypeOK, NEW w \in Workers
    PROVE  /\ req[w] \in {Sharing!Idle} \union Sharing!Requests
           /\ req[w].at = "idle" <=> req[w] = Sharing!Idle
           /\ req[w].at \in CheckStages => req[w] \in Check(req[w].at)
           /\ req[w].at = "default" => req[w] \in [at : {"default"}, user : Users, budget : {None}]
           /\ req[w].at = "ask" =>
                req[w] \in [at : {"ask"}, user : Users, budget : Houses \union {None}, perm : Levels]
           /\ req[w].at \in {"gate", "closed", "write"} => req[w] \in Deed(req[w].at)
           /\ req[w].at \in {"idle", "look", "direct", "inherited", "default", "ask", "gate", "closed", "write"}
<1>1. req[w] \in {Sharing!Idle} \union Sharing!Requests
  BY DEF Sharing!TypeOK
<1> QED BY <1>1, RecordTypes

LEMMA DeedAdvanced ==
    ASSUME NEW from, NEW to, NEW r \in Deed(from)
    PROVE  /\ [r EXCEPT !.at = to] \in Deed(to)
           /\ [r EXCEPT !.at = to].at = to /\ [r EXCEPT !.at = to].user = r.user
           /\ [r EXCEPT !.at = to].budget = r.budget /\ [r EXCEPT !.at = to].op = r.op
BY DEF Deed

LEMMA MaxOfThree ==
    ASSUME NEW a \in Int, NEW b \in Int, NEW c \in Int
    PROVE  /\ Sharing!Max({a, b, c}) \in {a, b, c} /\ Sharing!Max({a, b, c}) >= a
           /\ Sharing!Max({a, b, c}) >= b /\ Sharing!Max({a, b, c}) >= c
<1>1. \E x \in {a, b, c} : \A y \in {a, b, c} : x >= y
  OBVIOUS
<1> QED BY <1>1 DEF Sharing!Max

\* The histories of a request that goes on with the same budget only grow.
LEMMA Watched ==
    ASSUME Sharing!Watch, could \in [Workers -> Levels], lent \in [Workers -> 0 .. 2],
           share' \in [Houses \X Users -> 0 .. 2],
           NEW w \in Workers, req'[w] \in {Sharing!Idle} \union Sharing!Requests
    PROVE  /\ could'[w] \in Levels /\ lent'[w] \in 0 .. 2 /\ Watching(w)'
           /\ Sharing!Kept(w) => could'[w] >= could[w] /\ lent'[w] >= lent[w]
<1> DEFINE may == Sharing!MayDo(req[w].user, req[w].budget)'
           owed == Sharing!Borrowed(w)'
<1>1. may \in Levels
  BY DEF Sharing!MayDo, Sharing!NoAccess, Sharing!View, Sharing!Edit, Sharing!Full, Levels
<1>2. could'[w] = IF ~ Sharing!About(w)' THEN 0
                  ELSE Sharing!Max({may} \union (IF Sharing!Kept(w) THEN {could[w]} ELSE {}))
  BY DEF Sharing!Watch, Sharing!NoAccess
<1>3. Sharing!Torn(w)' => owed \in 0 .. 2
  <2>1. Sharing!Torn(w)' => /\ req'[w].at \in {"direct", "inherited"}
                            /\ req'[w].link \notin {None, parent'[req'[w].budget]}
    BY DEF Sharing!Torn
  <2>2. Sharing!Torn(w)' => req'[w].link \in Houses /\ req'[w].user \in Users
    <3>1. req'[w].at \in CheckStages => req'[w] \in Check(req'[w].at)
      BY RecordTypes
    <3> QED BY <2>1, <3>1 DEF Check, CheckStages
  <2> QED BY <2>2 DEF Sharing!Borrowed, Sharing!DirectLevel, Sharing!Edit
<1>4. lent'[w] = Sharing!Max({0} \union (IF Sharing!Kept(w) THEN {lent[w]} ELSE {})
                                 \union (IF Sharing!Torn(w)' THEN {owed} ELSE {}))
  BY DEF Sharing!Watch, Sharing!NoAccess
<1>5. Sharing!Kept(w) => Sharing!About(w)'
  BY DEF Sharing!Kept
<1> HIDE DEF may, owed
<1>6. /\ could'[w] \in Levels /\ (Sharing!About(w)' => could'[w] >= may)
      /\ Sharing!Kept(w) => could'[w] >= could[w]
  <2>1. may \in Int /\ could[w] \in Int /\ could[w] \in Levels
    BY <1>1 DEF Levels
  <2>2. ASSUME Sharing!Kept(w) PROVE could'[w] \in {may, could[w]} /\ could'[w] >= may /\ could'[w] >= could[w]
    <3>1. could'[w] = Sharing!Max({may} \union {could[w]})
      BY <1>2, <1>5, <2>2
    <3>2. /\ Sharing!Max({may} \union {could[w]}) \in {may, could[w]}
          /\ Sharing!Max({may} \union {could[w]}) >= may
          /\ Sharing!Max({may} \union {could[w]}) >= could[w]
      BY <2>1, MaxProperties
    <3> QED BY <3>1, <3>2
  <2>3. ASSUME ~ Sharing!Kept(w), Sharing!About(w)' PROVE could'[w] = may
    <3>1. could'[w] = Sharing!Max({may} \union {})
      BY <1>2, <2>3
    <3>2. Sharing!Max({may} \union {}) = may
      BY <2>1, MaxProperties
    <3> QED BY <3>1, <3>2
  <2>4. ~ Sharing!About(w)' => could'[w] = 0
    BY <1>2
  <2> QED BY <1>1, <1>5, <2>1, <2>2, <2>3, <2>4 DEF Levels
<1>7. /\ lent'[w] \in 0 .. 2 /\ (Sharing!Torn(w)' => lent'[w] >= owed)
      /\ Sharing!Kept(w) => lent'[w] >= lent[w]
  <2> DEFINE k == IF Sharing!Kept(w) THEN lent[w] ELSE 0
             t == IF Sharing!Torn(w)' THEN owed ELSE 0
  <2>1. k \in 0 .. 2 /\ t \in 0 .. 2
    BY <1>3
  <2>2. {0} \union (IF Sharing!Kept(w) THEN {lent[w]} ELSE {}) \union (IF Sharing!Torn(w)' THEN {owed} ELSE {})
          = {0, k, t}
    OBVIOUS
  <2>3. (Sharing!Kept(w) => k = lent[w]) /\ (Sharing!Torn(w)' => t = owed)
    OBVIOUS
  <2> HIDE DEF k, t
  <2>4. lent'[w] = Sharing!Max({0, k, t})
    BY <1>4, <2>2
  <2>5. 0 \in Int /\ k \in Int /\ t \in Int
    BY <2>1
  <2>6. Sharing!Max({0, k, t}) \in {0, k, t} /\ Sharing!Max({0, k, t}) >= k /\ Sharing!Max({0, k, t}) >= t
    BY <2>5, MaxOfThree
  <2> QED BY <2>1, <2>3, <2>4, <2>6
<1> QED BY <1>6, <1>7 DEF Watching, may, owed

\* What a permission rested on stays with a request that goes on with its budget.
LEMMA StillRests ==
    ASSUME SharingSound, Sharing!Watch, share' \in [Houses \X Users -> 0 .. 2],
           NEW w \in Workers, NEW p \in Int, RestsOn(could[w], lent[w], p), Sharing!Kept(w),
           req'[w] \in {Sharing!Idle} \union Sharing!Requests
    PROVE  RestsOn(could'[w], lent'[w], p)
<1>1. /\ could[w] \in Int /\ lent[w] \in Int /\ could'[w] \in Int /\ lent'[w] \in Int
      /\ could'[w] >= could[w] /\ lent'[w] >= lent[w]
  BY Watched DEF SharingSound, Levels
<1> QED BY <1>1 DEF RestsOn

\* A request left alone keeps what it was granted, and what it can see unless a grant changed.
LEMMA LeftAlone ==
    ASSUME SharingSound, Sharing!Watch, share' \in [Houses \X Users -> 0 .. 2],
           NEW w \in Workers, req'[w] = req[w]
    PROVE  Granted(w)' /\ Seen(w)'
<1>1. Granted(w) /\ Seen(w) /\ req[w] \in {Sharing!Idle} \union Sharing!Requests
  BY RequestTypes DEF SharingSound
<1>2. req[w].at # "idle" /\ req[w].budget # None => Sharing!Kept(w) /\ Sharing!About(w)'
  BY RequestTypes DEF SharingSound, Sharing!Kept, Sharing!About
<1>3. req[w].at \in CheckStages \union {"gate", "closed", "write"} => req[w].budget # None
  BY RequestTypes, SharingConstants DEF SharingSound, Deed, Check
<1>4. /\ could[w] \in Int /\ could'[w] \in Int
      /\ Sharing!Kept(w) => could'[w] >= could[w]
  BY <1>1, Watched DEF SharingSound, Levels
<1>5. ASSUME NEW p \in Int, RestsOn(could[w], lent[w], p), Sharing!Kept(w)
      PROVE  RestsOn(could'[w], lent'[w], p)
  BY <1>1, <1>5, StillRests
<1>6. Granted(w)'
  <2>1. req[w].at = "inherited" => could'[w] >= req[w].direct
    <3>1. req[w].at = "inherited" => req[w].direct \in Int /\ Sharing!Kept(w)
      BY <1>2, <1>3, RequestTypes DEF SharingSound, Check, CheckStages
    <3> QED BY <1>1, <1>4, <3>1 DEF Granted
  <2>2. req[w].at = "ask" /\ req[w].budget # None => RestsOn(could'[w], lent'[w], req[w].perm)
    <3>1. req[w].at = "ask" => req[w].perm \in Int
      BY RequestTypes DEF SharingSound, Levels
    <3> QED BY <1>1, <1>2, <1>5, <3>1 DEF Granted
  <2>3. req[w].at \in {"gate", "closed", "write"} /\ req[w].op # "switch"
          => RestsOn(could'[w], lent'[w], Sharing!required_perm(req[w].op))
    <3>1. Sharing!required_perm(req[w].op) \in Int
      BY DEF Sharing!required_perm, Sharing!NoAccess, Sharing!Edit, Sharing!Full
    <3> QED BY <1>1, <1>2, <1>3, <1>5, <3>1 DEF Granted
  <2>4. req[w].at \in {"gate", "closed", "write"} =>
          /\ w \in paid => w \in paid'
          /\ w \in open => w \in open'
    BY <1>2, <1>3 DEF Sharing!Watch
  <2> QED BY <1>1, <2>1, <2>2, <2>3, <2>4 DEF Granted, Sharing!required_perm
<1>7. Seen(w)'
  <2> SUFFICES ASSUME Sharing!Choosing(w)', w \notin shaken' PROVE Seen(w)'
    BY DEF Seen
  <2>1. Sharing!Choosing(w) /\ w \notin shaken /\ share' = share /\ parent' = parent
    BY DEF Sharing!Watch, Sharing!Choosing, Sharing!grants
  <2>2. Sharing!MayDo(req[w].user, req[w].budget)' = Sharing!MayDo(req[w].user, req[w].budget)
    BY <2>1 DEF Sharing!MayDo, Sharing!Shares
  <2> QED BY <1>1, <2>1, <2>2 DEF Seen
<1> QED BY <1>6, <1>7

-----------------------------------------------------------------------------
(* Sharing: the steps of a request *)

Moved(w) ==
  /\ req'[w] \in {Sharing!Idle} \union Sharing!Requests
  /\ \A v \in Workers \ {w} : req'[v] = req[v]
  /\ Granted(w)' /\ Seen(w)'

\* A step of w to the request r.
LEMMA Stepped ==
    ASSUME Sharing!TypeOK, NEW w \in Workers, NEW r, Sharing!Busy(w, r)
    PROVE  req'[w] = r /\ \A v \in Workers \ {w} : req'[v] = req[v]
BY DEF Sharing!TypeOK, Sharing!Busy

LEMMA Ended ==
    ASSUME Sharing!TypeOK, NEW w \in Workers, Sharing!Done(w)
    PROVE  Moved(w)
<1>1. req'[w] = Sharing!Idle /\ \A v \in Workers \ {w} : req'[v] = req[v]
  BY Stepped DEF Sharing!Done
<1> QED BY <1>1 DEF Moved, Granted, Seen, Sharing!Choosing, Sharing!Idle

\* A step to the start of a check, or to the default.
LEMMA ToCheck ==
    ASSUME SharingSound, Sharing!Watch, NEW w \in Workers, NEW u \in Users, NEW b \in Houses,
           NEW ask \in Sharing!Asks, Sharing!check_permission(w, u, b, ask),
           UNCHANGED <<share, parent>>,
           ask = "resolved" /\ w \notin shaken' => Sharing!MayDo(u, b) # 0
    PROVE  Moved(w)
<1>1. /\ req'[w] = [at |-> "look", user |-> u, budget |-> b, ask |-> ask, link |-> None, direct |-> 0]
      /\ \A v \in Workers \ {w} : req'[v] = req[v]
  BY Stepped DEF SharingSound, Sharing!check_permission, Sharing!NoAccess
<1>2. /\ req'[w].at = "look" /\ req'[w].user = u /\ req'[w].budget = b /\ req'[w].ask = ask
      /\ req'[w] \in Sharing!Requests
  BY <1>1 DEF Sharing!Requests, Sharing!NoAccess, Sharing!Edit
<1>3. Granted(w)'
  BY <1>2 DEF Granted
<1>4. Sharing!MayDo(req[w].user, req[w].budget)' = Sharing!MayDo(u, b)
  BY <1>2 DEF Sharing!MayDo, Sharing!Shares
<1>5. Seen(w)'
  BY <1>2, <1>4 DEF Seen
<1> QED BY <1>1, <1>2, <1>3, <1>5 DEF Moved

LEMMA ToDefault ==
    ASSUME SharingSound, NEW w \in Workers, NEW u \in Users,
           Sharing!Busy(w, [at |-> "default", user |-> u, budget |-> None])
    PROVE  Moved(w)
<1>1. /\ req'[w] = [at |-> "default", user |-> u, budget |-> None]
      /\ \A v \in Workers \ {w} : req'[v] = req[v]
  BY Stepped DEF SharingSound
<1>2. req'[w].at = "default" /\ req'[w] \in Sharing!Requests
  BY <1>1 DEF Sharing!Requests
<1> QED BY <1>1, <1>2 DEF Moved, Granted, Seen, Sharing!Choosing

LEMMA ToAsk ==
    ASSUME SharingSound, NEW w \in Workers, NEW u \in Users, NEW b \in Houses \union {None},
           NEW p \in Levels,
           Sharing!Busy(w, [at |-> "ask", user |-> u, budget |-> b, perm |-> p]),
           IF b = None THEN p = 0 ELSE RestsOn(could'[w], lent'[w], p)
    PROVE  Moved(w)
<1>1. /\ req'[w] = [at |-> "ask", user |-> u, budget |-> b, perm |-> p]
      /\ \A v \in Workers \ {w} : req'[v] = req[v]
  BY Stepped DEF SharingSound
<1>2. /\ req'[w].at = "ask" /\ req'[w].budget = b /\ req'[w].perm = p
      /\ req'[w] \in Sharing!Requests
  BY <1>1 DEF Sharing!Requests, Levels, Sharing!NoAccess, Sharing!Full
<1> QED BY <1>1, <1>2 DEF Moved, Granted, Seen, Sharing!Choosing

\* A step to or past a gate, of one who could do it, was paid for and found it open.
LEMMA ToDeed ==
    ASSUME SharingSound, NEW w \in Workers, NEW st \in {"gate", "closed", "write"},
           NEW r \in Deed(st), Sharing!Busy(w, r),
           r.op = "switch" => st = "write",
           r.op # "switch" =>
             /\ RestsOn(could'[w], lent'[w], Sharing!required_perm(r.op))
             /\ st # "gate" => w \in paid'
             /\ st = "write" /\ r.op = "record" => w \in open'
    PROVE  Moved(w)
<1>1. req'[w] = r /\ \A v \in Workers \ {w} : req'[v] = req[v]
  BY Stepped DEF SharingSound
<1>2. r.at = st /\ req'[w] \in Sharing!Requests
  BY <1>1 DEF Deed, Sharing!Requests
<1>3. Granted(w)'
  BY <1>1, <1>2 DEF Granted, Sharing!required_perm
<1>4. Seen(w)'
  BY <1>1, <1>2 DEF Seen, Sharing!Choosing
<1> QED BY <1>1, <1>2, <1>3, <1>4 DEF Moved

-----------------------------------------------------------------------------
(* Sharing: the statements of a check *)

Reads(w) == Sharing!ReadBudget(w) \/ Sharing!ReadDirect(w) \/ Sharing!ReadInherited(w)

\* An answer rests on the histories; and while no grant changed, it is nothing only to
\* whom the rules grant nothing.
Supported(w, p) ==
  /\ RestsOn(could[w], lent[w], p)
  /\ Sharing!Choosing(w) /\ w \notin shaken =>
       (p = 0 <=> Sharing!MayDo(req[w].user, req[w].budget) = 0)

LEMMA ReadingTypes ==
    ASSUME SharingSound, NEW w \in Workers, Reads(w)
    PROVE  /\ req[w] \in Check(req[w].at) /\ req[w].at \in CheckStages
           /\ req[w].user \in Users /\ req[w].budget \in Houses /\ req[w].budget # None
           /\ req[w].ask \in Sharing!Asks /\ req[w].link \in Houses \union {None}
           /\ req[w].direct \in 0 .. 2 /\ req[w] # Sharing!Idle /\ Sharing!About(w)
           /\ UNCHANGED <<share, parent>>
           /\ could[w] \in Levels /\ could[w] \in Int /\ lent[w] \in Int
           /\ could[w] >= Sharing!MayDo(req[w].user, req[w].budget)
<1>1. req[w].at \in CheckStages /\ UNCHANGED <<share, parent>>
  BY DEF Reads, Sharing!ReadBudget, Sharing!ReadDirect, Sharing!ReadInherited, Sharing!grants, CheckStages
<1>2. req[w] \in Check(req[w].at) /\ req[w] # Sharing!Idle
  BY <1>1, RequestTypes DEF SharingSound, CheckStages, Sharing!Idle
<1>3. /\ req[w].user \in Users /\ req[w].budget \in Houses /\ req[w].budget # None
      /\ req[w].ask \in Sharing!Asks /\ req[w].link \in Houses \union {None} /\ req[w].direct \in 0 .. 2
  BY <1>2, SharingConstants DEF Check
<1>4. Sharing!About(w)
  BY <1>2, <1>3 DEF Sharing!About
<1>5. could[w] \in Levels /\ could[w] \in Int /\ lent[w] \in Int
  BY DEF SharingSound, Levels
<1>6. could[w] >= Sharing!MayDo(req[w].user, req[w].budget)
  BY <1>4 DEF SharingSound, Watching
<1> QED BY <1>1, <1>2, <1>3, <1>4, <1>5, <1>6

\* A level read from the link of a check is the caller's by the rules, or lent.
LEMMA LinkRests ==
    ASSUME SharingSound, NEW w \in Workers, Reads(w), req[w].at \in {"direct", "inherited"},
           req[w].link # None
    PROVE  RestsOn(could[w], lent[w], LevelOn(req[w].user, req[w].link))
<1>1. /\ req[w].user \in Users /\ req[w].budget \in Houses /\ req[w].link \in Houses
      /\ could[w] \in Int /\ could[w] >= Sharing!MayDo(req[w].user, req[w].budget)
  BY ReadingTypes
<1>2. LevelOn(req[w].user, req[w].link) \in 0 .. 2
  BY <1>1 DEF SharingSound, Sharing!TypeOK, Sharing!NoAccess, Sharing!Edit, LevelOn
<1>3. CASE req[w].link = parent[req[w].budget]
  <2>1. /\ Sharing!MayDo(req[w].user, req[w].budget) >= LevelOn(req[w].user, req[w].link)
        /\ Sharing!MayDo(req[w].user, req[w].budget) \in Levels
    BY <1>1, <1>3, MayDoIs DEF SharingSound, Sharing!TypeOK, Sharing!NoAccess, Sharing!Edit
  <2> QED BY <1>1, <1>2, <2>1 DEF RestsOn, Levels
<1>4. CASE req[w].link # parent[req[w].budget]
  <2>1. Sharing!Torn(w)
    BY <1>4 DEF Sharing!Torn
  <2>2. lent[w] >= Sharing!Borrowed(w)
    BY <2>1 DEF SharingSound, Watching
  <2>3. Sharing!Borrowed(w) = LevelOn(req[w].user, req[w].link)
    BY <1>1 DEF Sharing!Borrowed, Sharing!DirectLevel, Sharing!Edit, LevelOn, OwnerOf
  <2> QED BY <2>2, <2>3 DEF RestsOn
<1> QED BY <1>3, <1>4

LEMMA ReadsAnswer ==
    ASSUME SharingSound, NEW w \in Workers, Reads(w)
    PROVE  \/ \E p \in Levels : Sharing!Answered(w, p) /\ Supported(w, p)
           \/ /\ req[w].at = "look" /\ OwnerOf(req[w].budget) # req[w].user
              /\ Sharing!Busy(w, [req[w] EXCEPT !.at = "direct", !.link = parent[req[w].budget]])
           \/ /\ req[w].at = "direct" /\ req[w].link \in Houses /\ OwnerOf(req[w].link) # req[w].user
              /\ Sharing!Busy(w, [req[w] EXCEPT !.at = "inherited",
                                                !.direct = share[<<req[w].budget, req[w].user>>]])
<1> DEFINE u == req[w].user
           b == req[w].budget
           may == Sharing!MayDo(u, b)
           direct == share[<<b, u>>]
<1>1. /\ u \in Users /\ b \in Houses /\ req[w].link \in Houses \union {None}
      /\ req[w].direct \in 0 .. 2 /\ could[w] \in Int /\ lent[w] \in Int /\ could[w] >= may
  BY ReadingTypes
<1>2. /\ may \in Levels /\ (OwnerOf(b) = u => may = 3) /\ may >= direct
      /\ OwnerOf(b) # u =>
           (may = 0 <=> direct = 0 /\ (parent[b] # None => LevelOn(u, parent[b]) = 0))
  BY <1>1, MayDoIs DEF SharingSound, Sharing!TypeOK, Sharing!NoAccess, Sharing!Edit
<1>3. direct \in 0 .. 2 /\ (req[w].link # None => LevelOn(u, req[w].link) \in 0 .. 2)
  BY <1>1 DEF SharingSound, Sharing!TypeOK, Sharing!NoAccess, Sharing!Edit, LevelOn
<1>4. Sharing!Choosing(w) /\ w \notin shaken /\ req[w].at \in {"direct", "inherited"}
        => OwnerOf(b) # u /\ req[w].link = parent[b]
  BY DEF SharingSound, Seen
<1>5. Sharing!Choosing(w) /\ w \notin shaken /\ req[w].at = "inherited" => req[w].direct = direct
  BY DEF SharingSound, Seen
<1>6. req[w].at \in {"direct", "inherited"} /\ req[w].link # None
        => RestsOn(could[w], lent[w], LevelOn(u, req[w].link))
  BY LinkRests
<1>7. req[w].at = "inherited" =>
        req[w].link \in Houses /\ OwnerOf(req[w].link) # u /\ could[w] >= req[w].direct
  BY DEF SharingSound, Granted
<1>8. req[w].at = "direct" /\ req[w].link # None /\ OwnerOf(req[w].link) # u => req[w].link \in Houses
  BY <1>1
<1>9. CASE Sharing!ReadBudget(w)
  <2>1. CASE OwnerOf(b) = u
    <3>1. Sharing!Answered(w, 3)
      BY <1>1, <1>9, <2>1 DEF Sharing!ReadBudget, Sharing!Full, OwnerOf
    <3>2. Supported(w, 3) /\ 3 \in Levels
      BY <1>1, <1>2, <2>1 DEF Supported, RestsOn, Levels
    <3> QED BY <3>1, <3>2
  <2>2. CASE OwnerOf(b) # u
    BY <1>1, <1>9, <2>2 DEF Sharing!ReadBudget, OwnerOf
  <2> QED BY <2>1, <2>2
<1>10. CASE Sharing!ReadDirect(w)
  <2>1. CASE req[w].link = None
    <3>1. Sharing!Answered(w, direct) /\ req[w].at = "direct"
      BY <1>10, <2>1 DEF Sharing!ReadDirect, Sharing!DirectLevel
    <3>2. Supported(w, direct) /\ direct \in Levels
      BY <1>1, <1>2, <1>3, <1>4, <2>1, <3>1 DEF Supported, RestsOn, Levels
    <3> QED BY <3>1, <3>2
  <2>2. CASE req[w].link # None /\ OwnerOf(req[w].link) = u
    <3>1. Sharing!Answered(w, Sharing!Max({direct, 2})) /\ req[w].at = "direct"
      BY <1>1, <1>10, <2>2 DEF Sharing!ReadDirect, Sharing!DirectLevel, Sharing!Edit, OwnerOf
    <3>2. direct \in Int /\ 2 \in Int
      BY <1>3
    <3>3. Sharing!Max({direct, 2}) \in {direct, 2} /\ Sharing!Max({direct, 2}) >= 2
      BY <3>2, MaxProperties
    <3>4. Sharing!Max({direct, 2}) = 2
      BY <1>3, <3>3
    <3>5. LevelOn(u, req[w].link) = 2
      BY <2>2 DEF LevelOn
    <3>6. Supported(w, 2) /\ 2 \in Levels
      <4>1. RestsOn(could[w], lent[w], 2) /\ 2 \in Levels
        BY <1>6, <2>2, <3>1, <3>5 DEF Levels
      <4>2. Sharing!Choosing(w) /\ w \notin shaken => may # 0
        BY <1>2, <1>4, <2>2, <3>1, <3>5
      <4> QED BY <4>1, <4>2 DEF Supported
    <3> QED BY <3>1, <3>4, <3>6
  <2>3. CASE req[w].link # None /\ OwnerOf(req[w].link) # u
    BY <1>1, <1>8, <1>10, <2>3 DEF Sharing!ReadDirect, Sharing!DirectLevel, OwnerOf
  <2> QED BY <2>1, <2>2, <2>3
<1>11. CASE Sharing!ReadInherited(w)
  <2> DEFINE from == share[<<req[w].link, u>>]
             p == Sharing!Max({req[w].direct, from})
  <2>1. /\ Sharing!Answered(w, p) /\ req[w].at = "inherited"
        /\ req[w].link \in Houses /\ req[w].link # None
    BY <1>7, <1>11, SharingConstants DEF Sharing!ReadInherited, Sharing!DirectLevel
  <2>2. from = LevelOn(u, req[w].link) /\ from \in 0 .. 2
    BY <1>3, <1>7, <2>1 DEF LevelOn
  <2> HIDE DEF from
  <2>3. req[w].direct \in Int /\ from \in Int
    BY <1>1, <2>2
  <2>4. p \in {req[w].direct, from} /\ p >= req[w].direct /\ p >= from
    BY <2>3, MaxProperties
  <2> HIDE DEF p
  <2>5. p \in Levels
    BY <1>1, <2>2, <2>4 DEF Levels
  <2>6. RestsOn(could[w], lent[w], p)
    BY <1>6, <1>7, <2>1, <2>2, <2>4 DEF RestsOn
  <2>7. Sharing!Choosing(w) /\ w \notin shaken => (p = 0 <=> may = 0)
    <3> SUFFICES ASSUME Sharing!Choosing(w), w \notin shaken PROVE p = 0 <=> may = 0
      OBVIOUS
    <3>1. /\ req[w].direct = direct /\ from = LevelOn(u, parent[b]) /\ parent[b] # None
          /\ may = 0 <=> direct = 0 /\ from = 0
      BY <1>2, <1>4, <1>5, <2>1, <2>2
    <3> QED BY <1>1, <2>2, <2>4, <3>1
  <2> QED BY <2>1, <2>5, <2>6, <2>7 DEF Supported
<1> QED BY <1>9, <1>10, <1>11 DEF Reads

\* What is done with the answer keeps it to the histories.
LEMMA AnsweredMoves ==
    ASSUME SharingSound, Sharing!Watch, NEW w \in Workers, Reads(w), NEW p \in Levels,
           Sharing!Answered(w, p), Supported(w, p)
    PROVE  Moved(w)
<1>1. /\ req[w].user \in Users /\ req[w].budget \in Houses /\ req[w].ask \in Sharing!Asks
      /\ req[w].at \in CheckStages /\ UNCHANGED <<share, parent>> /\ Sharing!About(w) /\ req[w].budget # None
  BY ReadingTypes
<1>2. share' \in [Houses \X Users -> 0 .. 2]
  BY <1>1 DEF SharingSound, Sharing!TypeOK, Sharing!NoAccess, Sharing!Edit
<1>3. CASE Sharing!Done(w)
  BY <1>3, Ended DEF SharingSound
<1>4. CASE req[w].ask = "prefer" /\ p # 0 /\ Sharing!check_permission(w, req[w].user, req[w].budget, "resolved")
  <2>1. w \notin shaken' => Sharing!MayDo(req[w].user, req[w].budget) # 0
    <3>1. req'[w].at = "look" /\ req'[w].ask = "resolved"
      <4>1. req'[w] = [at |-> "look", user |-> req[w].user, budget |-> req[w].budget, ask |-> "resolved",
                       link |-> None, direct |-> 0]
        BY <1>4, Stepped DEF SharingSound, Sharing!check_permission, Sharing!NoAccess
      <4> QED BY <4>1
    <3>2. Sharing!Choosing(w) /\ Sharing!Choosing(w)'
      BY <1>1, <1>4, <3>1 DEF Sharing!Choosing, CheckStages
    <3>3. w \notin shaken' => w \notin shaken
      BY <3>2 DEF Sharing!Watch
    <3> QED BY <1>4, <3>2, <3>3 DEF Supported
  <2>2. "resolved" \in Sharing!Asks
    BY DEF Sharing!Asks
  <2> QED BY <1>1, <1>4, <2>1, <2>2, ToCheck
<1>5. CASE Sharing!Busy(w, [at |-> "default", user |-> req[w].user, budget |-> None])
  BY <1>1, <1>5, ToDefault
<1>6. ASSUME NEW r \in Sharing!Requests, r.budget = req[w].budget, Sharing!Busy(w, r)
      PROVE  RestsOn(could'[w], lent'[w], p)
  <2>1. req'[w] = r
    BY <1>6, Stepped DEF SharingSound
  <2>2. r # Sharing!Idle
    BY DEF Sharing!Requests, Sharing!Idle
  <2>3. Sharing!Kept(w)
    BY <1>1, <1>6, <2>1, <2>2 DEF Sharing!Kept, Sharing!About
  <2>4. p \in Int /\ RestsOn(could[w], lent[w], p)
    BY DEF Levels, Supported
  <2> QED BY <1>2, <2>1, <2>3, <2>4, StillRests
<1>7. CASE Sharing!Busy(w, [at |-> "ask", user |-> req[w].user, budget |-> req[w].budget, perm |-> p])
  <2>1. [at |-> "ask", user |-> req[w].user, budget |-> req[w].budget, perm |-> p] \in Sharing!Requests
    BY <1>1 DEF Sharing!Requests, Levels, Sharing!NoAccess, Sharing!Full
  <2>2. RestsOn(could'[w], lent'[w], p)
    BY <1>6, <1>7, <2>1
  <2> QED BY <1>1, <1>7, <2>2, ToAsk
<1>8. CASE /\ req[w].ask \in Sharing!Ops /\ Sharing!Authorized(req[w].ask, p)
           /\ Sharing!Busy(w, [at |-> IF req[w].ask = "switch" THEN "write" ELSE "gate",
                               user |-> req[w].user, budget |-> req[w].budget, op |-> req[w].ask])
  <2> DEFINE st == IF req[w].ask = "switch" THEN "write" ELSE "gate"
             r == [at |-> st, user |-> req[w].user, budget |-> req[w].budget, op |-> req[w].ask]
  <2>1. st \in {"gate", "closed", "write"} /\ r \in Deed(st) /\ Sharing!Busy(w, r) /\ r \in Sharing!Requests
    BY <1>1, <1>8 DEF Deed, Sharing!Requests
  <2>2. r.op = req[w].ask /\ r.budget = req[w].budget /\ (r.op = "switch" <=> st = "write")
        /\ (r.op # "switch" => st = "gate")
    OBVIOUS
  <2> HIDE DEF st, r
  <2>3. RestsOn(could'[w], lent'[w], p)
    BY <1>6, <2>1, <2>2
  <2>4. RestsOn(could'[w], lent'[w], Sharing!required_perm(r.op))
    <3>1. p >= Sharing!required_perm(r.op) /\ p \in Int /\ Sharing!required_perm(r.op) \in Int
      BY <1>8, <2>2 DEF Sharing!Authorized, Levels, Sharing!required_perm, Sharing!NoAccess, Sharing!Edit, Sharing!Full
    <3>2. could'[w] \in Int /\ lent'[w] \in Int
      <4>1. req'[w] = r
        BY <2>1, Stepped DEF SharingSound
      <4>2. req'[w] \in {Sharing!Idle} \union Sharing!Requests
        BY <2>1, <4>1
      <4> QED BY <1>2, <4>2, Watched DEF SharingSound, Levels
    <3> QED BY <2>3, <3>1, <3>2 DEF RestsOn
  <2> QED BY <2>1, <2>2, <2>4, ToDeed
<1> QED BY <1>3, <1>4, <1>5, <1>7, <1>8 DEF Sharing!Answered, Sharing!NoAccess

LEMMA ReadMoves ==
    ASSUME SharingSound, Sharing!Watch, NEW w \in Workers, Reads(w)
    PROVE  Moved(w)
<1>1. /\ req[w] \in Check(req[w].at) /\ req[w].budget \in Houses /\ req[w].user \in Users
      /\ req[w].budget # None /\ Sharing!About(w) /\ UNCHANGED <<share, parent>>
      /\ req[w].at \in CheckStages
  BY ReadingTypes
<1>2. share \in [Houses \X Users -> 0 .. 2] /\ share' \in [Houses \X Users -> 0 .. 2]
      /\ parent \in [Houses -> Houses \union {None}]
  BY <1>1 DEF SharingSound, Sharing!TypeOK, Sharing!NoAccess, Sharing!Edit
<1>3. ASSUME NEW r, r.user = req[w].user, r.budget = req[w].budget, r.ask = req[w].ask,
             r.at \in {"direct", "inherited"}, r \in Check(r.at), Sharing!Busy(w, r),
             OwnerOf(r.budget) # r.user \/ req[w].at = "direct",
             IF req[w].at = "look" THEN r.link = parent[req[w].budget] /\ r.at = "direct"
             ELSE r.link = req[w].link /\ r.at = "inherited" /\ req[w].at = "direct",
             r.at = "inherited" =>
               r.link \in Houses /\ OwnerOf(r.link) # r.user /\ r.direct = share[<<r.budget, r.user>>]
      PROVE  Moved(w)
  <2>1. req'[w] = r /\ \A v \in Workers \ {w} : req'[v] = req[v]
    BY <1>3, Stepped DEF SharingSound
  <2>2. r \in Sharing!Requests /\ r # Sharing!Idle
    BY <1>3 DEF Check, Sharing!Requests, Sharing!Idle, Sharing!NoAccess, Sharing!Edit
  <2>3. Sharing!Kept(w)
    BY <1>1, <1>3, <2>1, <2>2 DEF Sharing!Kept, Sharing!About
  <2>4. could'[w] \in Int /\ could[w] \in Int /\ could'[w] >= could[w]
    BY <1>2, <2>1, <2>2, <2>3, Watched DEF SharingSound, Levels
  <2>5. could[w] >= share[<<req[w].budget, req[w].user>>]
    <3>1. could[w] >= Sharing!MayDo(req[w].user, req[w].budget)
      BY ReadingTypes
    <3>2. /\ Sharing!MayDo(req[w].user, req[w].budget) \in Levels
          /\ Sharing!MayDo(req[w].user, req[w].budget) >= share[<<req[w].budget, req[w].user>>]
      BY <1>1, <1>2, MayDoIs
    <3>3. share[<<req[w].budget, req[w].user>>] \in Int
      BY <1>1, <1>2
    <3> QED BY <2>4, <3>1, <3>2, <3>3 DEF Levels
  <2>6. Granted(w)'
    <3>1. share[<<req[w].budget, req[w].user>>] \in Int
      BY <1>1, <1>2
    <3> QED BY <1>3, <2>1, <2>4, <2>5, <3>1 DEF Granted
  <2>7. Seen(w)'
    <3> SUFFICES ASSUME Sharing!Choosing(w)', w \notin shaken' PROVE Seen(w)'
      BY DEF Seen
    <3>1. Sharing!Choosing(w) /\ w \notin shaken
      <4>1. Sharing!Choosing(w)
        BY <1>1, <1>3, <2>1 DEF Sharing!Choosing, CheckStages
      <4> QED BY <4>1 DEF Sharing!Watch
    <3>2. /\ req[w].ask = "resolved" => Sharing!MayDo(req[w].user, req[w].budget) # 0
          /\ req[w].at = "direct" => OwnerOf(req[w].budget) # req[w].user /\ req[w].link = parent[req[w].budget]
      BY <3>1 DEF SharingSound, Seen
    <3>3. Sharing!MayDo(req[w].user, req[w].budget)' = Sharing!MayDo(req[w].user, req[w].budget)
      BY <1>1, <1>3, <2>1 DEF Sharing!MayDo, Sharing!Shares
    <3> QED BY <1>1, <1>3, <2>1, <3>2, <3>3 DEF Seen
  <2> QED BY <2>1, <2>2, <2>6, <2>7 DEF Moved
<1>4. CASE \E p \in Levels : Sharing!Answered(w, p) /\ Supported(w, p)
  BY <1>4, AnsweredMoves
<1>5. CASE /\ req[w].at = "look" /\ OwnerOf(req[w].budget) # req[w].user
           /\ Sharing!Busy(w, [req[w] EXCEPT !.at = "direct", !.link = parent[req[w].budget]])
  <2>1. PICK r : r = [req[w] EXCEPT !.at = "direct", !.link = parent[req[w].budget]]
    OBVIOUS
  <2>2. parent[req[w].budget] \in Houses \union {None}
    BY <1>1, <1>2
  <2>3. /\ r \in Check("direct") /\ r.at = "direct" /\ r.user = req[w].user /\ r.budget = req[w].budget
        /\ r.ask = req[w].ask /\ r.link = parent[req[w].budget]
    BY <1>1, <2>1, <2>2 DEF Check
  <2>4. Sharing!Busy(w, r)
    BY <1>5, <2>1
  <2>5. r \in Check(r.at)
    BY <2>3
  <2> QED BY <1>3, <1>5, <2>3, <2>4, <2>5
<1>6. CASE /\ req[w].at = "direct" /\ req[w].link \in Houses /\ OwnerOf(req[w].link) # req[w].user
           /\ Sharing!Busy(w, [req[w] EXCEPT !.at = "inherited",
                                             !.direct = share[<<req[w].budget, req[w].user>>]])
  <2>1. PICK r : r = [req[w] EXCEPT !.at = "inherited", !.direct = share[<<req[w].budget, req[w].user>>]]
    OBVIOUS
  <2>2. share[<<req[w].budget, req[w].user>>] \in 0 .. 2
    BY <1>1, <1>2
  <2>3. /\ r \in Check("inherited") /\ r.at = "inherited" /\ r.user = req[w].user /\ r.budget = req[w].budget
        /\ r.ask = req[w].ask /\ r.link = req[w].link /\ r.direct = share[<<req[w].budget, req[w].user>>]
    BY <1>1, <2>1, <2>2 DEF Check
  <2>4. Sharing!Busy(w, r)
    BY <1>6, <2>1
  <2>5. r \in Check(r.at)
    BY <2>3
  <2> QED BY <1>3, <1>6, <2>3, <2>4, <2>5
<1> QED BY <1>4, <1>5, <1>6, ReadsAnswer

-----------------------------------------------------------------------------
(* Sharing: the other steps *)

LEMMA ResolveMoves ==
    ASSUME SharingSound, Sharing!Watch, NEW w \in Workers, NEW u \in Users, Sharing!ChatResolve(w, u)
    PROVE  Moved(w)
<1>1. UNCHANGED <<share, parent>> /\ "named" \in Sharing!Asks /\ "prefer" \in Sharing!Asks
  BY DEF Sharing!ChatResolve, Sharing!grants, Sharing!Asks
<1>2. ASSUME NEW b \in Houses, Sharing!check_permission(w, u, b, "named") PROVE Moved(w)
  BY <1>1, <1>2, ToCheck
<1>3. ASSUME active[u] # None, Sharing!check_permission(w, u, active[u], "prefer") PROVE Moved(w)
  <2>1. active[u] \in Houses
    BY <1>3 DEF SharingSound, Sharing!TypeOK
  <2> QED BY <1>1, <1>3, <2>1, ToCheck
<1> QED BY <1>2, <1>3, ToDefault DEF Sharing!ChatResolve

LEMMA DefaultMoves ==
    ASSUME SharingSound, Sharing!Watch, NEW w \in Workers, Sharing!ReadDefault(w)
    PROVE  Moved(w)
<1>1. req[w].user \in Users /\ UNCHANGED <<share, parent>> /\ "resolved" \in Sharing!Asks
  BY RequestTypes DEF SharingSound, Sharing!ReadDefault, Sharing!grants, Sharing!Asks
<1>2. PICK b \in Sharing!Fallback(req[w].user) :
        IF b = None THEN Sharing!Busy(w, [at |-> "ask", user |-> req[w].user, budget |-> None,
                                          perm |-> Sharing!NoAccess])
        ELSE Sharing!check_permission(w, req[w].user, b, "resolved")
  BY DEF Sharing!ReadDefault
<1>3. CASE b = None
  <2>1. Sharing!Busy(w, [at |-> "ask", user |-> req[w].user, budget |-> None, perm |-> 0])
    BY <1>2, <1>3 DEF Sharing!NoAccess
  <2>2. None \in Houses \union {None} /\ 0 \in Levels
    BY DEF Levels
  <2> QED BY <1>1, <2>1, <2>2, ToAsk
<1>4. CASE b # None
  <2>1. b \in Houses /\ OwnerOf(b) = req[w].user
    <3>1. b = default[req[w].user] \/ b \in Sharing!OwnedBy(req[w].user)
      BY <1>4 DEF Sharing!Fallback
    <3> QED BY <1>1, <1>4, <3>1 DEF SharingSound, Sharing!TypeOK, OwnDefaults, Sharing!OwnedBy, OwnerOf
  <2>2. Sharing!MayDo(req[w].user, b) = 3
    BY <2>1 DEF Sharing!MayDo, Sharing!Full, OwnerOf
  <2> QED BY <1>1, <1>2, <1>4, <2>1, <2>2, ToCheck
<1> QED BY <1>3, <1>4

LEMMA AnswerMoves ==
    ASSUME SharingSound, Sharing!Watch, NEW w \in Workers, NEW op \in Sharing!Ops, Sharing!ChatAnswer(w, op)
    PROVE  Moved(w)
<1>1. /\ req[w].at = "ask" /\ req[w].user \in Users /\ req[w].budget \in Houses \union {None}
      /\ req[w].perm \in Levels /\ UNCHANGED <<share, parent>> /\ op # "revoke"
  BY RequestTypes DEF SharingSound, Sharing!ChatAnswer, Sharing!grants
<1>2. share' \in [Houses \X Users -> 0 .. 2]
  BY <1>1 DEF SharingSound, Sharing!TypeOK, Sharing!NoAccess, Sharing!Edit
<1>3. CASE Sharing!Done(w)
  BY <1>3, Ended DEF SharingSound
<1>4. CASE op = "switch" /\ \E b \in Houses : Sharing!check_permission(w, req[w].user, b, op)
  <2>1. op \in Sharing!Asks /\ op # "resolved"
    BY <1>4 DEF Sharing!Asks
  <2> QED BY <1>1, <1>4, <2>1, ToCheck
<1>5. ASSUME op \notin {"read", "switch"}, req[w].perm >= Sharing!required_perm(op),
             NEW b \in (IF op = "close" THEN Sharing!OwnedBy(req[w].user) ELSE {req[w].budget}),
             Sharing!Busy(w, [at |-> "gate", user |-> req[w].user, budget |-> b, op |-> op])
      PROVE  Moved(w)
  <2>1. Sharing!required_perm(op) \in Int /\ Sharing!required_perm(op) >= 2
    BY <1>1, <1>5 DEF Sharing!Ops, Sharing!required_perm, Sharing!NoAccess, Sharing!Edit, Sharing!Full
  <2>2. op # "close" => req[w].budget # None /\ RestsOn(could[w], lent[w], req[w].perm)
    <3>1. req[w].perm # 0
      BY <1>1, <1>5, <2>1 DEF Levels
    <3> QED BY <1>1, <3>1 DEF SharingSound, Granted
  <2>3. b \in Houses
    BY <1>1, <1>5, <2>2 DEF Sharing!OwnedBy
  <2>4. PICK r : r = [at |-> "gate", user |-> req[w].user, budget |-> b, op |-> op]
    OBVIOUS
  <2>5. /\ r \in Deed("gate") /\ Sharing!Busy(w, r) /\ r \in Sharing!Requests /\ r.op = op /\ r.budget = b
        /\ r.user = req[w].user /\ r # Sharing!Idle
    BY <1>1, <1>5, <2>3, <2>4 DEF Deed, Sharing!Requests, Sharing!Idle
  <2>6. req'[w] = r /\ req'[w] \in {Sharing!Idle} \union Sharing!Requests
    BY <2>5, Stepped DEF SharingSound
  <2>7. could'[w] \in Int /\ lent'[w] \in Int /\ Watching(w)'
    BY <1>2, <2>6, Watched DEF SharingSound, Levels
  <2>8. RestsOn(could'[w], lent'[w], Sharing!required_perm(op))
    <3>1. CASE op = "close"
      <4>1. OwnerOf(b) = req[w].user
        BY <1>5, <3>1 DEF Sharing!OwnedBy, OwnerOf
      <4>2. Sharing!About(w)'
        BY <2>3, <2>5, <2>6, SharingConstants DEF Sharing!About
      <4>3. Sharing!MayDo(req[w].user, req[w].budget)' = 3
        BY <2>3, <2>5, <2>6, <4>1 DEF Sharing!MayDo, Sharing!Full, OwnerOf
      <4> QED BY <2>7, <3>1, <4>2, <4>3 DEF Watching, RestsOn, Sharing!required_perm, Sharing!Full
    <3>2. CASE op # "close"
      <4>1. b = req[w].budget /\ b # None /\ req[w] # Sharing!Idle
        BY <1>1, <1>5, <2>2, <3>2 DEF Sharing!Idle
      <4>2. Sharing!Kept(w)
        BY <2>5, <2>6, <4>1 DEF Sharing!Kept, Sharing!About
      <4>3. req[w].perm \in Int
        BY <1>1 DEF Levels
      <4>4. RestsOn(could'[w], lent'[w], req[w].perm)
        BY <1>2, <2>2, <2>6, <3>2, <4>2, <4>3, StillRests
      <4> QED BY <1>5, <2>1, <2>7, <4>3, <4>4 DEF RestsOn
    <3> QED BY <3>1, <3>2
  <2>9. "gate" \in {"gate", "closed", "write"}
    OBVIOUS
  <2> QED BY <1>5, <2>5, <2>8, <2>9, ToDeed
<1> QED BY <1>3, <1>4, <1>5 DEF Sharing!ChatAnswer, Sharing!Authorized

LEMMA RestMoves ==
    ASSUME SharingSound, Sharing!Watch, NEW w \in Workers, NEW u \in Users, NEW b \in Houses,
           NEW op \in Sharing!Ops, Sharing!RestCheck(w, u, b, op)
    PROVE  Moved(w)
<1>1. /\ UNCHANGED <<share, parent>> /\ op \in Sharing!Asks /\ op # "resolved"
      /\ Sharing!check_permission(w, u, b, op)
  BY DEF Sharing!RestCheck, Sharing!grants, Sharing!Asks, Sharing!Ops
<1> QED BY <1>1, ToCheck

\* Past a gate with the same budget: what was granted, paid for and found open stays so.
LEMMA GateMoves ==
    ASSUME SharingSound, Sharing!Watch, NEW w \in Workers, Sharing!Gate(w) \/ Sharing!EnsureNotClosed(w)
    PROVE  Moved(w)
<1>1. req[w].at \in {"gate", "closed"} /\ req[w] \in Deed(req[w].at) /\ req[w].op # "switch"
  BY RequestTypes DEF SharingSound, Granted, Sharing!Gate, Sharing!EnsureNotClosed
<1>2. CASE Sharing!Done(w)
  BY <1>2, Ended DEF SharingSound
<1>3. CASE ~ Sharing!Done(w)
  <2>1. PICK st \in {"closed", "write"} :
          /\ Sharing!Busy(w, [req[w] EXCEPT !.at = st])
          /\ st = "closed" => req[w].at = "gate"
          /\ req[w].at = "gate" => Sharing!Entitled(req[w].budget, req[w].user)
          /\ req[w].op = "record" /\ st = "write" => req[w].at = "closed" /\ req[w].budget \notin closed
          /\ UNCHANGED <<lapsed, closed, share>>
    <3>1. CASE Sharing!Gate(w)
      BY <1>3, <3>1 DEF Sharing!Gate, Sharing!Advance, Sharing!grants
    <3>2. CASE Sharing!EnsureNotClosed(w)
      BY <1>3, <3>2 DEF Sharing!EnsureNotClosed, Sharing!Advance, Sharing!grants
    <3> QED BY <3>1, <3>2
  <2> DEFINE r == [req[w] EXCEPT !.at = st]
  <2>2. /\ r \in Deed(st) /\ r.at = st /\ r.user = req[w].user
        /\ r.budget = req[w].budget /\ r.op = req[w].op
    BY <1>1, DeedAdvanced
  <2>3. req'[w] = r
    BY <2>1, Stepped DEF SharingSound
  <2> HIDE DEF r
  <2>4. /\ req[w].budget \in Houses /\ req[w].budget # None /\ req[w] # Sharing!Idle
        /\ req'[w] # Sharing!Idle /\ req'[w].budget = req[w].budget
        /\ req'[w] \in {Sharing!Idle} \union Sharing!Requests
    BY <1>1, <2>1, <2>2, <2>3, SharingConstants DEF Deed, Sharing!Idle, Sharing!Requests
  <2>5. Sharing!About(w)' /\ Sharing!Kept(w)
    BY <2>4 DEF Sharing!About, Sharing!Kept
  <2>6. Sharing!required_perm(req[w].op) \in Int
    BY DEF Sharing!required_perm, Sharing!NoAccess, Sharing!Edit, Sharing!Full
  <2>7. share' \in [Houses \X Users -> 0 .. 2]
    BY <2>1 DEF SharingSound, Sharing!TypeOK, Sharing!NoAccess, Sharing!Edit
  <2>8. RestsOn(could[w], lent[w], Sharing!required_perm(req[w].op))
    BY <1>1 DEF SharingSound, Granted
  <2>9. RestsOn(could'[w], lent'[w], Sharing!required_perm(req[w].op))
    BY <2>4, <2>5, <2>6, <2>7, <2>8, StillRests
  <2>10. w \in paid'
    <3>1. ASSUME req[w].at = "gate" PROVE w \in paid'
      <4>1. OwnerOf(req[w].budget) \notin lapsed'
        BY <2>1, <2>4, <3>1 DEF Sharing!Entitled, OwnerOf
      <4> QED BY <2>4, <2>5, <4>1 DEF Sharing!Watch, OwnerOf
    <3>2. ASSUME req[w].at = "closed" PROVE w \in paid'
      <4>1. w \in paid
        BY <1>1, <3>2 DEF SharingSound, Granted
      <4> QED BY <2>5, <4>1 DEF Sharing!Watch
    <3> QED BY <1>1, <3>1, <3>2
  <2>11. r.op = "record" /\ st = "write" => w \in open'
    BY <2>1, <2>2, <2>4, <2>5 DEF Sharing!Watch
  <2>12. st \in {"gate", "closed", "write"} /\ Sharing!Busy(w, r)
    BY <2>1 DEF r
  <2> QED BY <1>1, <2>2, <2>9, <2>10, <2>11, <2>12, ToDeed
<1> QED BY <1>2, <1>3

-----------------------------------------------------------------------------
(* Sharing: the invariant *)

Tables ==
  /\ share \in [Houses \X Users -> 0 .. 2] /\ parent \in [Houses -> Houses \union {None}]
  /\ closed \subseteq Projects /\ lapsed \subseteq Users
  /\ active \in [Users -> Houses \union {None}] /\ default \in [Users -> Houses \union {None}]
  /\ ledger \in [Houses -> SUBSET Users] /\ goals \in [Houses -> SUBSET Users]
  /\ OwnDefaults

\* Nothing before the write touches a table but the grants of the owner, and Billing.
UntouchedTables ==
  UNCHANGED <<share, parent, closed, lapsed, active, default, ledger, goals>>

LEMMA WriteKeepsTables ==
    ASSUME SharingSound, NEW w \in Workers, Sharing!Write(w)
    PROVE  Tables'
<1>1. /\ req[w].at = "write" /\ req[w].user \in Users /\ req[w].budget \in Houses /\ Tables
  BY RequestTypes
     DEF SharingSound, Sharing!Write, Sharing!WriteRecord, Sharing!WriteGoal, Sharing!WriteShare,
         Sharing!WriteRevoke, Sharing!WriteClose, Sharing!WriteSwitch, Sharing!Writing, Deed,
         Tables, Sharing!TypeOK, Sharing!NoAccess, Sharing!Edit
<1>2. CASE Sharing!WriteRecord(w)
  BY <1>1, <1>2 DEF Sharing!WriteRecord, Sharing!grants, Tables, OwnDefaults
<1>3. CASE Sharing!WriteGoal(w)
  BY <1>1, <1>3 DEF Sharing!WriteGoal, Sharing!grants, Tables, OwnDefaults
<1>4. CASE Sharing!WriteShare(w) \/ Sharing!WriteRevoke(w)
  <2>1. PICK u \in Users, level \in 0 .. 2 : share' = [share EXCEPT ![<<req[w].budget, u>>] = level]
    <3>1. ASSUME Sharing!WriteShare(w)
          PROVE  \E u \in Users, level \in 0 .. 2 : share' = [share EXCEPT ![<<req[w].budget, u>>] = level]
      <4>1. PICK u \in Users \ {req[w].user}, level \in {1, 2} :
                   share' = [share EXCEPT ![<<req[w].budget, u>>] = level]
        BY <3>1 DEF Sharing!WriteShare, Sharing!View, Sharing!Edit
      <4>2. level \in 0 .. 2
        BY <4>1
      <4> QED BY <4>1, <4>2
    <3>2. ASSUME Sharing!WriteRevoke(w)
          PROVE  \E u \in Users, level \in 0 .. 2 : share' = [share EXCEPT ![<<req[w].budget, u>>] = level]
      <4>1. PICK u \in Users \ {req[w].user} : share' = [share EXCEPT ![<<req[w].budget, u>>] = 0]
        BY <3>2 DEF Sharing!WriteRevoke, Sharing!NoAccess
      <4>2. 0 \in 0 .. 2
        OBVIOUS
      <4> QED BY <4>1, <4>2
    <3> QED BY <1>4, <3>1, <3>2
  <2>2. share' \in [Houses \X Users -> 0 .. 2]
    BY <1>1, <2>1 DEF Tables
  <2> QED BY <1>1, <1>4, <2>2 DEF Sharing!WriteShare, Sharing!WriteRevoke, Sharing!contents, Tables, OwnDefaults
<1>5. CASE Sharing!WriteClose(w)
  BY <1>1, <1>5 DEF Sharing!WriteClose, Sharing!grants, Sharing!contents, Tables, OwnDefaults
<1>6. CASE Sharing!WriteSwitch(w)
  <2>1. /\ active' = [active EXCEPT ![req[w].user] = req[w].budget]
        /\ \/ default' = default
           \/ OwnerOf(req[w].budget) = req[w].user /\ default' = [default EXCEPT ![req[w].user] = req[w].budget]
        /\ UNCHANGED <<share, parent, closed, lapsed, ledger, goals>>
    BY <1>1, <1>6 DEF Sharing!WriteSwitch, Sharing!grants, Sharing!contents, OwnerOf
  <2>2. default' \in [Users -> Houses \union {None}] /\ OwnDefaults'
    BY <1>1, <2>1 DEF Tables, OwnDefaults
  <2> QED BY <1>1, <2>1, <2>2 DEF Tables
<1> QED BY <1>2, <1>3, <1>4, <1>5, <1>6 DEF Sharing!Write

LEMMA WriteMoves ==
    ASSUME SharingSound, NEW w \in Workers, Sharing!Write(w)
    PROVE  Moved(w)
BY Ended
   DEF SharingSound, Sharing!Write, Sharing!WriteRecord, Sharing!WriteGoal, Sharing!WriteShare,
       Sharing!WriteRevoke, Sharing!WriteClose, Sharing!WriteSwitch, Sharing!Writing

LEMMA StepMoves ==
    ASSUME SharingSound, Sharing!Watch, NEW w \in Workers,
           \/ Sharing!Step(w)
           \/ \E u \in Users : \/ Sharing!ChatResolve(w, u)
                               \/ \E b \in Houses, op \in Sharing!Ops : Sharing!RestCheck(w, u, b, op)
    PROVE  Moved(w) /\ Tables'
<1>1. Tables
  BY DEF SharingSound, Tables, Sharing!TypeOK, Sharing!NoAccess, Sharing!Edit
<1>2. UntouchedTables => Tables'
  BY <1>1 DEF UntouchedTables, Tables, OwnDefaults
<1>3. ASSUME NEW u \in Users, Sharing!ChatResolve(w, u) PROVE Moved(w) /\ UntouchedTables
  BY <1>3, ResolveMoves DEF Sharing!ChatResolve, Sharing!grants, Sharing!contents, UntouchedTables
<1>4. ASSUME NEW u \in Users, NEW b \in Houses, NEW op \in Sharing!Ops, Sharing!RestCheck(w, u, b, op)
      PROVE  Moved(w) /\ UntouchedTables
  BY <1>4, RestMoves DEF Sharing!RestCheck, Sharing!grants, Sharing!contents, UntouchedTables
<1>5. ASSUME Reads(w) PROVE Moved(w) /\ UntouchedTables
  BY <1>5, ReadMoves DEF Reads, Sharing!ReadBudget, Sharing!ReadDirect, Sharing!ReadInherited,
                         Sharing!grants, Sharing!contents, UntouchedTables
<1>9. ASSUME Sharing!ReadDefault(w) PROVE Moved(w) /\ UntouchedTables
  BY <1>9, DefaultMoves DEF Sharing!ReadDefault, Sharing!grants, Sharing!contents, UntouchedTables
<1>6. ASSUME NEW op \in Sharing!Ops, Sharing!ChatAnswer(w, op) PROVE Moved(w) /\ UntouchedTables
  BY <1>6, AnswerMoves DEF Sharing!ChatAnswer, Sharing!grants, Sharing!contents, UntouchedTables
<1>7. ASSUME Sharing!Gate(w) \/ Sharing!EnsureNotClosed(w)
      PROVE  Moved(w) /\ UntouchedTables
  BY <1>7, GateMoves DEF Sharing!Gate, Sharing!EnsureNotClosed, Sharing!grants, Sharing!contents, UntouchedTables
<1>8. ASSUME Sharing!Write(w) PROVE Moved(w) /\ Tables'
  BY <1>8, WriteMoves, WriteKeepsTables
<1> QED BY <1>2, <1>3, <1>4, <1>5, <1>6, <1>7, <1>8, <1>9 DEF Sharing!Step, Reads

LEMMA SharingStep == SharingSound /\ Sharing!MCNext => SharingSound'
<1> SUFFICES ASSUME SharingSound, Sharing!MCNext PROVE SharingSound'
  OBVIOUS
<1>1. Sharing!Watch
  BY DEF Sharing!MCNext
<1>3. ASSUME Tables', req' \in [Workers -> {Sharing!Idle} \union Sharing!Requests],
             \A w \in Workers : Granted(w)' /\ Seen(w)'
      PROVE  SharingSound'
  <2>1. ASSUME NEW w \in Workers
        PROVE  could'[w] \in Levels /\ lent'[w] \in 0 .. 2 /\ Watching(w)'
    BY <1>1, <1>3, Watched DEF SharingSound, Tables
  <2>2. could' = [w \in Workers |-> could'[w]] /\ lent' = [w \in Workers |-> lent'[w]]
    BY <1>1 DEF Sharing!Watch
  <2>3. could' \in [Workers -> Levels] /\ lent' \in [Workers -> 0 .. 2]
    BY <2>1, <2>2
  <2> QED BY <1>3, <2>1, <2>3 DEF SharingSound, Tables, Sharing!TypeOK, Sharing!NoAccess, Sharing!Edit
<1>4. req \in [Workers -> {Sharing!Idle} \union Sharing!Requests] /\ Tables
  BY DEF SharingSound, Tables, Sharing!TypeOK, Sharing!NoAccess, Sharing!Edit
<1>5. ASSUME NEW w \in Workers,
             \/ Sharing!Step(w)
             \/ \E u \in Users : \/ Sharing!ChatResolve(w, u)
                                 \/ \E b \in Houses, op \in Sharing!Ops : Sharing!RestCheck(w, u, b, op)
      PROVE  SharingSound'
  <2>1. Moved(w) /\ Tables'
    BY <1>1, <1>5, StepMoves
  <2>2. \A v \in Workers : Granted(v)' /\ Seen(v)'
    BY <1>1, <2>1, LeftAlone DEF Moved, Tables
  <2>3. \E r : req' = [req EXCEPT ![w] = r]
    BY <1>5 DEF Sharing!Step, Sharing!ChatResolve, Sharing!RestCheck, Sharing!check_permission,
         Sharing!ReadBudget, Sharing!ReadDirect, Sharing!ReadInherited, Sharing!Answered, Sharing!ReadDefault,
         Sharing!ChatAnswer, Sharing!Gate, Sharing!EnsureNotClosed, Sharing!Write,
         Sharing!WriteRecord, Sharing!WriteGoal, Sharing!WriteShare, Sharing!WriteRevoke,
         Sharing!WriteClose, Sharing!WriteSwitch, Sharing!Writing, Sharing!Advance, Sharing!Done, Sharing!Busy
  <2>4. req' \in [Workers -> {Sharing!Idle} \union Sharing!Requests]
    BY <1>4, <2>1, <2>3 DEF Moved
  <2> QED BY <1>3, <2>1, <2>2, <2>4
<1>6. ASSUME req' = req, Tables' PROVE SharingSound'
  BY <1>1, <1>3, <1>4, <1>6, LeftAlone DEF Tables
<1>7. ASSUME NEW u \in Users, Sharing!ToggleLapsed(u) PROVE req' = req /\ Tables'
  BY <1>4, <1>7 DEF Sharing!ToggleLapsed, Sharing!grants, Sharing!contents, Tables, OwnDefaults
<1>8. ASSUME NEW b \in Houses, NEW p \in Houses, Sharing!Unrollup(b) \/ Sharing!Rollup(b, p)
      PROVE  req' = req /\ Tables'
  BY <1>4, <1>8 DEF Sharing!Unrollup, Sharing!Rollup, Sharing!contents, Tables, OwnDefaults
<1> QED BY <1>5, <1>6, <1>7, <1>8 DEF Sharing!MCNext

LEMMA SharingInit == Sharing!MCInit => SharingSound
<1> SUFFICES ASSUME Sharing!MCInit PROVE SharingSound
  OBVIOUS
<1>1. req = [w \in Workers |-> Sharing!Idle] /\ could = [w \in Workers |-> 0] /\ lent = [w \in Workers |-> 0]
  BY DEF Sharing!MCInit, Sharing!Init, Sharing!NoAccess
<1>2. Sharing!TypeOK
  BY <1>1 DEF Sharing!MCInit, Sharing!Init, Sharing!TypeOK
<1>3. OwnDefaults
  BY DEF Sharing!MCInit, Sharing!Init, Sharing!OwnedBy, OwnDefaults, OwnerOf
<1> QED BY <1>1, <1>2, <1>3 DEF SharingSound, Watching, Sharing!About, Sharing!Torn, Granted, Seen,
                                   Sharing!Choosing, Sharing!Idle, Levels

\* The promises of SharedBudget follow from what is kept.
LEMMA SharingPromises ==
    ASSUME SharingSound, Sharing!Watch
    PROVE  Sharing!WriteWasAllowed /\ Sharing!FallsBackUnshaken
<1>1. ASSUME NEW w \in Workers, Sharing!Write(w), req[w].op # "switch"
      PROVE  /\ could[w] >= Sharing!required_perm(req[w].op) \/ lent[w] >= Sharing!required_perm(req[w].op)
             /\ Sharing!required_perm(req[w].op) = Sharing!Full => could[w] = Sharing!Full
             /\ w \in paid
             /\ req[w].op = "record" => w \in open
  <2>1. req[w].at = "write"
    BY <1>1 DEF Sharing!Write, Sharing!WriteRecord, Sharing!WriteGoal, Sharing!WriteShare,
         Sharing!WriteRevoke, Sharing!WriteClose, Sharing!WriteSwitch, Sharing!Writing
  <2>2. could[w] \in Levels /\ lent[w] \in 0 .. 2 /\ Granted(w)
    BY DEF SharingSound
  <2>3. RestsOn(could[w], lent[w], Sharing!required_perm(req[w].op)) /\ w \in paid
        /\ (req[w].op = "record" => w \in open)
    BY <1>1, <2>1, <2>2 DEF Granted
  <2> QED BY <2>2, <2>3 DEF RestsOn, Sharing!Full, Levels
<1>2. ASSUME NEW w \in Workers, Reads(w), req[w].ask = "resolved", req'[w] = Sharing!Idle
      PROVE  w \in shaken
  <2>1. req[w].at \in CheckStages /\ req[w] \in Check(req[w].at) /\ req[w].ask \notin Sharing!Ops
    BY <1>2, ReadingTypes DEF Sharing!Ops
  <2>2. ASSUME NEW r, Sharing!Busy(w, r) PROVE r = Sharing!Idle
    BY <1>2, <2>2, Stepped DEF SharingSound
  <2>3. CASE \E p \in Levels : Sharing!Answered(w, p) /\ Supported(w, p)
    <3>1. PICK p \in Levels : Sharing!Answered(w, p) /\ Supported(w, p)
      BY <2>3
    <3>2. p = 0
      <4>1. p # 0 => Sharing!Busy(w, [at |-> "ask", user |-> req[w].user, budget |-> req[w].budget, perm |-> p])
        BY <1>2, <2>1, <3>1 DEF Sharing!Answered, Sharing!NoAccess
      <4> QED BY <2>2, <4>1 DEF Sharing!Idle
    <3>3. Sharing!Choosing(w)
      BY <1>2, <2>1 DEF Sharing!Choosing, CheckStages
    <3> QED BY <1>2, <3>1, <3>2, <3>3 DEF Supported, SharingSound, Seen
  <2>4. CASE Sharing!Busy(w, [req[w] EXCEPT !.at = "direct", !.link = parent[req[w].budget]])
    <3>1. [req[w] EXCEPT !.at = "direct", !.link = parent[req[w].budget]].at = "direct"
      BY <2>1 DEF Check
    <3> QED BY <2>2, <2>4, <3>1 DEF Sharing!Idle
  <2>5. CASE Sharing!Busy(w, [req[w] EXCEPT !.at = "inherited",
                                            !.direct = share[<<req[w].budget, req[w].user>>]])
    <3>1. [req[w] EXCEPT !.at = "inherited", !.direct = share[<<req[w].budget, req[w].user>>]].at = "inherited"
      BY <2>1 DEF Check
    <3> QED BY <2>2, <2>5, <3>1 DEF Sharing!Idle
  <2> QED BY <1>2, <2>3, <2>4, <2>5, ReadsAnswer
<1> QED BY <1>1, <1>2 DEF Reads, Sharing!WriteWasAllowed, Sharing!FallsBackUnshaken

-----------------------------------------------------------------------------
(* The tree: what its rows and requests are *)

\* The newest of some budgets is one of them.
LEMMA NewestIsOne ==
    ASSUME NEW S \in SUBSET Budgets, S # {}
    PROVE  Max(S) \in S
<1>1. MaxBudgets \in Nat /\ \A x \in S : x \in Nat /\ x <= MaxBudgets
  BY MaxBudgetsAssumption DEF Budgets
<1> DEFINE Before == {p \in Nat \X Nat : p[1] < p[2]}
           T == {MaxBudgets - x : x \in S}
<1>2. IsWellFoundedOn(Before, Nat)
  BY NatLessThanWellFounded DEF OpToRel
<1>3. T \subseteq Nat /\ T # {}
  BY <1>1
<1>4. PICK m \in T : \A y \in T : ~ (<<y, m>> \in Before)
  <2> HIDE DEF T, Before
  <2> QED BY <1>2, <1>3, WFMin
<1>5. PICK x \in S : m = MaxBudgets - x
  BY <1>4
<1>6. \A y \in S : x >= y
  <2>1. ASSUME NEW y \in S PROVE x >= y
    <3>1. MaxBudgets - y \in T /\ ~ (MaxBudgets - y < m)
      BY <1>3, <1>4, <2>1
    <3> QED BY <1>1, <1>5, <3>1
  <2> QED BY <2>1
<1> QED BY <1>5, <1>6 DEF Max

\* A budget that is not there has no parent: a new one starts alone.
Unborn == \A c \in Budgets \ live : parent[c] = None

\* The records a request goes through.
LEMMA TreeRequests ==
    ASSUME TypeOK, NEW w \in Workers
    PROVE  /\ req[w] \in Requests
           /\ req[w].op = "idle" => req[w] = Idle
           /\ req[w].op = "update" => req[w].b \in Budgets /\ req[w].kind \in Kinds
           /\ req[w].op = "delete" => req[w].b \in Budgets /\ req[w].wasDefault \in BOOLEAN
           /\ req[w].op \in {"set_default", "repair", "switch", "activate"} => req[w].b \in Budgets
           /\ req[w].op = "link" => req[w].p \in Budgets /\ req[w].c \in Budgets
           /\ req[w].op = "unlink" =>
                req[w].p \in Budgets /\ req[w].c \in Budgets /\ req[w].found \in BOOLEAN
<1>1. req[w] \in Requests
  BY DEF TypeOK
<1> QED BY <1>1 DEF Requests, Idle

LEMMA NoneIsNoBudget == None \notin Budgets /\ Budgets \subseteq Nat
BY NoneAssumption, MaxBudgetsAssumption DEF Budgets

LEMMA TreeStepped ==
    ASSUME req \in [Workers -> Requests], NEW w \in Workers, NEW r \in Requests, Busy(w, r)
    PROVE  /\ req' \in [Workers -> Requests] /\ req'[w] = r
           /\ \A v \in Workers \ {w} : req'[v] = req[v]
BY DEF Busy

-----------------------------------------------------------------------------
(* The tree: types, and who may take a child *)

TreeTypes == TypeOK /\ Unborn

Rows ==
  /\ live \subseteq 1 .. born /\ born \in 0 .. MaxBudgets
  /\ kind \in [Budgets -> Kinds]
  /\ closed \in SUBSET live /\ \A b \in closed : kind[b] = "project"
Rollups ==
  /\ parent \in [Budgets -> live \union {None}] /\ mirrors \subseteq live \X live /\ Unborn
Views == default \in live \union {None} /\ active \in live \union {None}

NotTaken == \A c \in live : parent[c] # None /\ parent'[c] # None => parent'[c] = parent[c]

LEMMA TreeTypesAre == TreeTypes <=> Rows /\ Rollups /\ Views /\ req \in [Workers -> Requests]
BY DEF TreeTypes, TypeOK, Rows, Rollups, Views

LEMMA TreeTypesAreNext == TreeTypes' <=> Rows' /\ Rollups' /\ Views' /\ req' \in [Workers -> Requests]
BY DEF TreeTypes, TypeOK, Rows, Rollups, Views, Unborn

LEMMA LiveAreBudgets ==
    ASSUME TreeTypes
    PROVE  live \subseteq Budgets /\ \A b \in live : b # None
BY NoneIsNoBudget, MaxBudgetsAssumption DEF TreeTypes, TypeOK, Budgets

LEMMA AtOnceTypes ==
    ASSUME TreeTypes, AtOnce
    PROVE  TreeTypes' /\ NotTaken
<1>1. Rows /\ Rollups /\ Views /\ req \in [Workers -> Requests]
  BY TreeTypesAre
<1>2. CASE \E k \in Kinds : CreateBudget(k)
  <2>1. PICK k \in Kinds : CreateBudget(k)
    BY <1>2
  <2>2. /\ born \in Nat /\ MaxBudgets \in Nat /\ born' = born + 1 /\ born' \in 1 .. MaxBudgets /\ born' \in Budgets
        /\ live' = live \union {born'} /\ born' \notin live /\ live' \subseteq 1 .. born'
    BY <1>1, <2>1, MaxBudgetsAssumption DEF CreateBudget, Rows, Budgets
  <2>3. Rows'
    <3>1. kind' \in [Budgets -> Kinds] /\ \A b \in live : kind'[b] = kind[b]
      BY <1>1, <2>1, <2>2, LiveAreBudgets DEF CreateBudget, Rows
    <3> QED BY <1>1, <2>1, <2>2, <3>1 DEF CreateBudget, Rows
  <2>4. Rollups' /\ NotTaken
    BY <1>1, <2>1, <2>2 DEF CreateBudget, Rollups, Unborn, NotTaken
  <2>5. Views' /\ req' = req
    BY <2>1, <2>2 DEF CreateBudget, Views
  <2> QED BY <1>1, <2>3, <2>4, <2>5, TreeTypesAreNext
<1>3. ASSUME NEW b \in Budgets, CloseBudget(b) PROVE TreeTypes' /\ NotTaken
  <2>1. Rows'
    BY <1>1, <1>3 DEF CloseBudget, Rows
  <2>2. Rollups' /\ Views' /\ req' = req /\ NotTaken
    BY <1>1, <1>3 DEF CloseBudget, rollups, views, Rollups, Unborn, Views, NotTaken
  <2> QED BY <1>1, <2>1, <2>2, TreeTypesAreNext
<1>4. ASSUME NEW b \in Budgets, SetActiveBudget(b) PROVE TreeTypes' /\ NotTaken
  <2>1. Rows' /\ Rollups' /\ Views' /\ req' = req /\ NotTaken
    BY <1>1, <1>4 DEF SetActiveBudget, rows, rollups, Rows, Rollups, Unborn, Views, NotTaken
  <2> QED BY <1>1, <2>1, TreeTypesAreNext
<1>5. ASSUME NEW b \in Budgets, NEW c \in Budgets, DeleteMirror(b, c) PROVE TreeTypes' /\ NotTaken
  <2>1. Rows' /\ Rollups' /\ Views' /\ req' = req /\ NotTaken
    BY <1>1, <1>5 DEF DeleteMirror, rows, views, Rows, Rollups, Unborn, Views, NotTaken
  <2> QED BY <1>1, <2>1, TreeTypesAreNext
<1> QED BY <1>2, <1>3, <1>4, <1>5 DEF AtOnce

\* A step that touches no table.
LEMMA TablesAlone ==
    ASSUME TreeTypes, UNCHANGED <<rows, rollups>>, Views', req' \in [Workers -> Requests]
    PROVE  TreeTypes' /\ NotTaken
<1>1. Rows' /\ Rollups' /\ NotTaken
  BY TreeTypesAre DEF rows, rollups, Rows, Rollups, Unborn, NotTaken
<1> QED BY <1>1, TreeTypesAreNext

LEMMA DoneTypes ==
    ASSUME TreeTypes, NEW w \in Workers, Done(w)
    PROVE  req' \in [Workers -> Requests]
<1>1. Idle \in Requests
  BY DEF Requests
<1> QED BY <1>1, TreeTypesAre, TreeStepped DEF Done

LEMMA StartTypes ==
    ASSUME TreeTypes, NEW w \in Workers, Start(w)
    PROVE  TreeTypes' /\ NotTaken
<1>1. ASSUME NEW b \in Budgets, NEW k \in Kinds, UpdateCheck(w, b, k) PROVE TreeTypes' /\ NotTaken
  <2>1. [op |-> "update", b |-> b, kind |-> k] \in Requests
    BY DEF Requests
  <2>2. req' \in [Workers -> Requests] /\ Views'
    BY <1>1, <2>1, TreeTypesAre, TreeStepped DEF UpdateCheck, views, Views, rows
  <2> QED BY <1>1, <2>2, TablesAlone DEF UpdateCheck
<1>2. ASSUME NEW b \in Budgets, DeleteRead(w, b) PROVE TreeTypes' /\ NotTaken
  <2>1. [op |-> "delete", b |-> b, wasDefault |-> default = b] \in Requests
    BY DEF Requests
  <2>2. req' \in [Workers -> Requests] /\ Views'
    BY <1>2, <2>1, TreeTypesAre, TreeStepped DEF DeleteRead, views, Views, rows
  <2> QED BY <1>2, <2>2, TablesAlone DEF DeleteRead
<1>3. ASSUME NEW b \in Budgets, SwitchClear(w, b) PROVE TreeTypes' /\ NotTaken
  <2>1. [op |-> "switch", b |-> b] \in Requests
    BY DEF Requests
  <2>2. req' \in [Workers -> Requests] /\ Views'
    BY <1>3, <2>1, TreeTypesAre, TreeStepped DEF SwitchClear, Views, rows
  <2> QED BY <1>3, <2>2, TablesAlone DEF SwitchClear
<1>4. ASSUME NEW b \in Budgets, NEW c \in Budgets, LinkCheck(w, b, c) PROVE TreeTypes' /\ NotTaken
  <2>1. [op |-> "link", p |-> b, c |-> c] \in Requests
    BY DEF Requests
  <2>2. req' \in [Workers -> Requests] /\ Views'
    BY <1>4, <2>1, TreeTypesAre, TreeStepped DEF LinkCheck, views, Views, rows
  <2> QED BY <1>4, <2>2, TablesAlone DEF LinkCheck
<1>5. ASSUME NEW b \in Budgets, NEW c \in Budgets, UnlinkScan(w, b, c) PROVE TreeTypes' /\ NotTaken
  <2>1. [op |-> "unlink", p |-> b, c |-> c, found |-> <<b, c>> \in mirrors] \in Requests
    BY DEF Requests
  <2>2. req' \in [Workers -> Requests] /\ Views'
    BY <1>5, <2>1, TreeTypesAre, TreeStepped DEF UnlinkScan, views, Views, rows
  <2> QED BY <1>5, <2>2, TablesAlone DEF UnlinkScan
<1> QED BY <1>1, <1>2, <1>3, <1>4, <1>5 DEF Start

LEMMA StepTypes ==
    ASSUME TreeTypes, NEW w \in Workers, Step(w)
    PROVE  TreeTypes' /\ NotTaken
<1>1. Rows /\ Rollups /\ Views /\ req \in [Workers -> Requests] /\ TypeOK
  BY TreeTypesAre DEF TreeTypes
<1>2. Done(w) => req' \in [Workers -> Requests]
  BY DoneTypes
<1>3. ASSUME UpdateWrite(w) PROVE TreeTypes' /\ NotTaken
  <2>1. req[w].b \in Budgets /\ req[w].kind \in Kinds
    BY <1>1, <1>3, TreeRequests DEF UpdateWrite
  <2>2. Rows'
    <3>1. kind' \in [Budgets -> Kinds] /\ \A b \in closed : kind'[b] = "project"
      BY <1>1, <1>3, <2>1, LiveAreBudgets DEF UpdateWrite, Rows
    <3> QED BY <1>1, <1>3, <3>1 DEF UpdateWrite, Rows
  <2>3. Rollups' /\ Views' /\ NotTaken /\ Done(w)
    BY <1>1, <1>3 DEF UpdateWrite, rollups, views, Rollups, Unborn, Views, NotTaken
  <2> QED BY <1>2, <2>2, <2>3, TreeTypesAreNext
<1>4. ASSUME DeleteRow(w) PROVE TreeTypes' /\ NotTaken
  <2> DEFINE b == req[w].b
  <2>1. b \in Budgets /\ b # None
    BY <1>1, <1>4, TreeRequests, NoneIsNoBudget DEF DeleteRow
  <2>2. /\ live' = live \ {b} /\ closed' = closed \ {b} /\ born' = born
        /\ parent' = [c \in Budgets |-> IF c = b \/ parent[c] = b THEN None ELSE parent[c]]
        /\ mirrors' = {m \in mirrors : b \notin {m[1], m[2]}}
        /\ default' = ClearOf(default, b) /\ active' = ClearOf(active, b)
        /\ kind' = [kind EXCEPT ![b] = "time_based"]
    BY <1>4 DEF DeleteRow, ClearOf
  <2>3. Busy(w, [op |-> "promote"]) \/ Done(w)
    BY <1>4 DEF DeleteRow
  <2> HIDE DEF b
  <2>4. Rows'
    <3>1. kind' \in [Budgets -> Kinds] /\ \A a \in closed \ {b} : kind'[a] = "project"
      BY <1>1, <2>1, <2>2, LiveAreBudgets DEF Rows, Kinds
    <3> QED BY <1>1, <2>2, <3>1 DEF Rows
  <2>5. Rollups' /\ NotTaken
    <3>1. parent' \in [Budgets -> live' \union {None}]
      BY <1>1, <2>2 DEF Rollups
    <3>2. mirrors' \subseteq live' \X live'
      BY <1>1, <2>2 DEF Rollups
    <3>3. Unborn'
      BY <1>1, <2>2 DEF Rollups, Unborn
    <3>4. NotTaken
      BY <2>2, LiveAreBudgets DEF NotTaken
    <3> QED BY <3>1, <3>2, <3>3, <3>4 DEF Rollups
  <2>6. Views'
    BY <1>1, <2>2 DEF Views, ClearOf
  <2>7. req' \in [Workers -> Requests]
    <3>1. [op |-> "promote"] \in Requests
      BY DEF Requests
    <3> QED BY <1>1, <1>2, <2>3, <3>1, TreeStepped
  <2> QED BY <2>4, <2>5, <2>6, <2>7, TreeTypesAreNext
<1>5. ASSUME PickReplacement(w) PROVE TreeTypes' /\ NotTaken
  <2>1. CASE Done(w)
    BY <1>1, <1>2, <1>5, <2>1, TablesAlone DEF PickReplacement, views, Views, rows
  <2>2. CASE live # {} /\ Busy(w, [op |-> "set_default", b |-> Max(live)])
    <3>1. Max(live) \in Budgets
      BY <2>2, LiveAreBudgets, NewestIsOne
    <3>2. [op |-> "set_default", b |-> Max(live)] \in Requests
      BY <3>1 DEF Requests
    <3>3. req' \in [Workers -> Requests]
      BY <1>1, <2>2, <3>2, TreeStepped
    <3> QED BY <1>1, <1>5, <3>3, TablesAlone DEF PickReplacement, views, Views, rows
  <2> QED BY <1>5, <2>1, <2>2 DEF PickReplacement
<1>6. ASSUME PromoteReplacement(w) PROVE TreeTypes' /\ NotTaken
  <2>1. [op |-> "repair", b |-> req[w].b] \in Requests
    BY <1>1, <1>6, TreeRequests DEF PromoteReplacement, Requests
  <2>2. req' \in [Workers -> Requests]
    BY <1>1, <1>2, <1>6, <2>1, TreeStepped DEF PromoteReplacement
  <2>3. Views' /\ UNCHANGED <<rows, rollups>>
    BY <1>1, <1>6 DEF PromoteReplacement, Views, rows
  <2> QED BY <2>2, <2>3, TablesAlone
<1>7. ASSUME RepairActive(w) PROVE TreeTypes' /\ NotTaken
  BY <1>1, <1>2, <1>7, TablesAlone DEF RepairActive, Views, rows
<1>8. ASSUME SwitchSet(w) PROVE TreeTypes' /\ NotTaken
  <2>1. [op |-> "activate", b |-> req[w].b] \in Requests
    BY <1>1, <1>8, TreeRequests DEF SwitchSet, Requests
  <2>2. req' \in [Workers -> Requests]
    BY <1>1, <1>2, <1>8, <2>1, TreeStepped DEF SwitchSet
  <2>3. Views' /\ UNCHANGED <<rows, rollups>>
    BY <1>1, <1>8 DEF SwitchSet, Views, rows
  <2> QED BY <2>2, <2>3, TablesAlone
<1>9. ASSUME SwitchActivate(w) PROVE TreeTypes' /\ NotTaken
  BY <1>1, <1>2, <1>9, TablesAlone DEF SwitchActivate, Views, rows
<1>10. ASSUME LinkWrite(w) PROVE TreeTypes' /\ NotTaken
  <2> DEFINE p == req[w].p
             c == req[w].c
  <2>1. p \in Budgets /\ c \in Budgets
    BY <1>1, <1>10, TreeRequests DEF LinkWrite
  <2>2. UNCHANGED <<rows, views>> /\ Done(w)
    BY <1>10 DEF LinkWrite
  <2>3. \/ /\ {p, c} \subseteq live /\ parent[c] \in {None, p}
           /\ parent' = [parent EXCEPT ![c] = p] /\ mirrors' = mirrors \union {<<p, c>>}
        \/ UNCHANGED rollups
    BY <1>10 DEF LinkWrite
  <2> HIDE DEF p, c
  <2>4. CASE {p, c} \subseteq live /\ parent[c] \in {None, p}
             /\ parent' = [parent EXCEPT ![c] = p] /\ mirrors' = mirrors \union {<<p, c>>}
    <3>1. Rollups' /\ NotTaken
      BY <1>1, <2>1, <2>2, <2>4 DEF Rollups, Unborn, NotTaken, rows
    <3>2. Rows' /\ Views'
      BY <1>1, <2>2 DEF Rows, Views, rows, views
    <3> QED BY <1>2, <2>2, <3>1, <3>2, TreeTypesAreNext
  <2>5. CASE UNCHANGED rollups
    BY <1>1, <1>2, <2>2, <2>5, TablesAlone DEF views, Views, rows
  <2> QED BY <2>3, <2>4, <2>5
<1>11. ASSUME UnlinkWrite(w) PROVE TreeTypes' /\ NotTaken
  <2> DEFINE p == req[w].p
             c == req[w].c
  <2>1. p \in Budgets /\ c \in Budgets
    BY <1>1, <1>11, TreeRequests DEF UnlinkWrite
  <2>2. UNCHANGED <<rows, views>> /\ Done(w)
    BY <1>11 DEF UnlinkWrite
  <2>3. /\ parent' = [parent EXCEPT ![c] = IF parent[c] = p THEN None ELSE parent[c]]
        /\ mirrors' \subseteq mirrors
    BY <1>11 DEF UnlinkWrite, ClearOf
  <2> HIDE DEF p, c
  <2>4. Rollups' /\ NotTaken
    BY <1>1, <2>1, <2>2, <2>3 DEF Rollups, Unborn, NotTaken, rows
  <2>5. Rows' /\ Views'
    BY <1>1, <2>2 DEF Rows, Views, rows, views
  <2> QED BY <1>2, <2>2, <2>4, <2>5, TreeTypesAreNext
<1> QED
  BY <1>3, <1>4, <1>5, <1>6, <1>7, <1>8, <1>9, <1>10, <1>11 DEF Step

LEMMA TreeTypesStep == TreeTypes /\ Next => TreeTypes' /\ NotTaken
<1> SUFFICES ASSUME TreeTypes, Next PROVE TreeTypes' /\ NotTaken
  OBVIOUS
<1>1. ASSUME NEW w \in Workers, Cut(w) PROVE TreeTypes' /\ NotTaken
  BY <1>1, DoneTypes, TreeTypesAre, TablesAlone DEF Cut, views, Views, rows
<1> QED BY <1>1, AtOnceTypes, StartTypes, StepTypes DEF Next

-----------------------------------------------------------------------------
(* The tree: requests that run one after another *)

OneBusy == \A v, w \in Workers : req[v] # Idle /\ req[w] # Idle => v = w

\* What a request read is still so when it writes.
Checked(w) ==
  /\ req[w].op = "update" => req[w].b \in live \ closed /\ KindChangeAllowed(req[w].b, req[w].kind)
  /\ req[w].op = "delete" => req[w].b \in live /\ req[w].wasDefault = (default = req[w].b)
  /\ req[w].op = "link" =>
       /\ {req[w].p, req[w].c} \subseteq live
       /\ parent[req[w].c] \in {None, req[w].p} /\ RollupAllowed(req[w].p, req[w].c)
  /\ req[w].op = "unlink" => req[w].found = (<<req[w].p, req[w].c>> \in mirrors)

\* The default is missing only while a request that was not cut is about to set one.
WillSet(w) ==
  \/ req[w].op = "promote"
  \/ req[w].op \in {"set_default", "switch"} /\ req[w].b \in live

DefaultComing == live # {} /\ default = None => \E w \in Workers : WillSet(w)

TreeSound ==
  /\ TreeTypes /\ past \in {"alone", "cut", "overlapped"}
  /\ past # "overlapped" =>
       OneBusy /\ RollupSound /\ MirrorsFollowLinks /\ \A w \in Workers : Checked(w)
  /\ past = "alone" => DefaultComing

\* The shape of the tree after a step that leaves its rows and links alone.
LEMMA ShapeKept ==
    ASSUME RollupSound, MirrorsFollowLinks, UNCHANGED <<live, kind, parent>>, mirrors' \subseteq mirrors
    PROVE  RollupSound' /\ MirrorsFollowLinks'
BY DEF RollupSound, MirrorsFollowLinks

LEMMA AtOnceAlone ==
    ASSUME TreeTypes, RollupSound, MirrorsFollowLinks, AtOnce
    PROVE  /\ RollupSound' /\ MirrorsFollowLinks' /\ req' = req
           /\ live = {} \/ default # None => live' = {} \/ default' # None
<1>1. Rows /\ Rollups /\ Views /\ live \subseteq Budgets /\ \A b \in live : b # None
  BY TreeTypesAre, LiveAreBudgets
<1>2. CASE \E k \in Kinds : CreateBudget(k)
  <2>1. PICK k \in Kinds : CreateBudget(k)
    BY <1>2
  <2>2. /\ born' \in Budgets /\ born' \notin live /\ born' # None
        /\ live' = live \union {born'} /\ parent' = parent /\ mirrors' = mirrors
        /\ default' = born' /\ req' = req
    BY <1>1, <2>1, MaxBudgetsAssumption, NoneAssumption DEF CreateBudget, Rows, Budgets
  <2>3. \A b \in live : kind'[b] = kind[b]
    BY <1>1, <2>1, <2>2 DEF CreateBudget, Rows
  <2>4. RollupSound'
    BY <1>1, <2>2, <2>3 DEF RollupSound, Rollups, Unborn
  <2> QED BY <2>2, <2>4 DEF MirrorsFollowLinks
<1>3. ASSUME NEW b \in Budgets, CloseBudget(b)
      PROVE  UNCHANGED <<live, kind, parent, mirrors, default, req>>
  BY <1>3 DEF CloseBudget, rollups, views
<1>4. ASSUME NEW b \in Budgets, SetActiveBudget(b)
      PROVE  UNCHANGED <<live, kind, parent, mirrors, default, req>>
  BY <1>4 DEF SetActiveBudget, rows, rollups
<1>5. ASSUME NEW b \in Budgets, NEW c \in Budgets, DeleteMirror(b, c)
      PROVE  UNCHANGED <<live, kind, parent, default, req>> /\ mirrors' \subseteq mirrors
  BY <1>5 DEF DeleteMirror, rows, views
<1> QED BY <1>2, <1>3, <1>4, <1>5, ShapeKept DEF AtOnce

LEMMA StartAlone ==
    ASSUME TreeTypes, RollupSound, MirrorsFollowLinks, NEW w \in Workers, Start(w)
    PROVE  /\ RollupSound' /\ MirrorsFollowLinks' /\ Checked(w)'
           /\ \A v \in Workers \ {w} : req'[v] = req[v]
           /\ req[w] = Idle /\ req'[w] # Idle
           /\ live' = live /\ (default' = None => default = None \/ WillSet(w)')
<1>1. req \in [Workers -> Requests]
  BY TreeTypesAre
<1>2. ASSUME NEW b \in Budgets, NEW k \in Kinds, UpdateCheck(w, b, k)
      PROVE  /\ Checked(w)' /\ req'[w] # Idle /\ req[w] = Idle /\ default' = default
             /\ \A v \in Workers \ {w} : req'[v] = req[v]
             /\ UNCHANGED <<live, kind, parent, mirrors>>
  <2>1. req'[w] = [op |-> "update", b |-> b, kind |-> k] /\ \A v \in Workers \ {w} : req'[v] = req[v]
    BY <1>1, <1>2 DEF UpdateCheck, Busy
  <2>2. UNCHANGED <<live, closed, kind, parent, mirrors, default>> /\ req[w] = Idle
    BY <1>2 DEF UpdateCheck, rows, rollups, views
  <2>3. b \in live \ closed /\ KindChangeAllowed(b, k)
    BY <1>2 DEF UpdateCheck
  <2>4. KindChangeAllowed(b, k)'
    BY <2>2, <2>3 DEF KindChangeAllowed, IsChild, IsRollupParent
  <2> QED BY <2>1, <2>2, <2>3, <2>4 DEF Checked, Idle, KindChangeAllowed, IsChild, IsRollupParent
<1>3. ASSUME NEW b \in Budgets, DeleteRead(w, b)
      PROVE  /\ Checked(w)' /\ req'[w] # Idle /\ req[w] = Idle /\ default' = default
             /\ \A v \in Workers \ {w} : req'[v] = req[v]
             /\ UNCHANGED <<live, kind, parent, mirrors>>
  <2>1. /\ req'[w] = [op |-> "delete", b |-> b, wasDefault |-> default = b]
        /\ \A v \in Workers \ {w} : req'[v] = req[v]
    BY <1>1, <1>3 DEF DeleteRead, Busy
  <2>2. UNCHANGED <<live, kind, parent, mirrors, default>> /\ b \in live /\ req[w] = Idle
    BY <1>3 DEF DeleteRead, rows, rollups, views
  <2> QED BY <2>1, <2>2 DEF Checked, Idle
<1>4. ASSUME NEW b \in Budgets, SwitchClear(w, b)
      PROVE  /\ Checked(w)' /\ req'[w] # Idle /\ req[w] = Idle /\ WillSet(w)'
             /\ \A v \in Workers \ {w} : req'[v] = req[v]
             /\ UNCHANGED <<live, kind, parent, mirrors>>
  <2>1. req'[w] = [op |-> "switch", b |-> b] /\ \A v \in Workers \ {w} : req'[v] = req[v]
    BY <1>1, <1>4 DEF SwitchClear, Busy
  <2>2. UNCHANGED <<live, kind, parent, mirrors>> /\ b \in live /\ req[w] = Idle
    BY <1>4 DEF SwitchClear, rows, rollups
  <2> QED BY <2>1, <2>2 DEF Checked, Idle, WillSet
<1>5. ASSUME NEW b \in Budgets, NEW c \in Budgets, LinkCheck(w, b, c)
      PROVE  /\ Checked(w)' /\ req'[w] # Idle /\ req[w] = Idle /\ default' = default
             /\ \A v \in Workers \ {w} : req'[v] = req[v]
             /\ UNCHANGED <<live, kind, parent, mirrors>>
  <2>1. req'[w] = [op |-> "link", p |-> b, c |-> c] /\ \A v \in Workers \ {w} : req'[v] = req[v]
    BY <1>1, <1>5 DEF LinkCheck, Busy
  <2>2. UNCHANGED <<live, kind, parent, mirrors, default>> /\ req[w] = Idle
    BY <1>5 DEF LinkCheck, rows, rollups, views
  <2>3. {b, c} \subseteq live /\ parent[c] \in {None, b} /\ RollupAllowed(b, c)
    BY <1>5 DEF LinkCheck
  <2> QED BY <2>1, <2>2, <2>3 DEF Checked, Idle, RollupAllowed, IsChild, IsRollupParent
<1>6. ASSUME NEW b \in Budgets, NEW c \in Budgets, UnlinkScan(w, b, c)
      PROVE  /\ Checked(w)' /\ req'[w] # Idle /\ req[w] = Idle /\ default' = default
             /\ \A v \in Workers \ {w} : req'[v] = req[v]
             /\ UNCHANGED <<live, kind, parent, mirrors>>
  <2>1. /\ req'[w] = [op |-> "unlink", p |-> b, c |-> c, found |-> <<b, c>> \in mirrors]
        /\ \A v \in Workers \ {w} : req'[v] = req[v]
    BY <1>1, <1>6 DEF UnlinkScan, Busy
  <2>2. UNCHANGED <<live, kind, parent, mirrors, default>> /\ req[w] = Idle
    BY <1>6 DEF UnlinkScan, rows, rollups, views
  <2> QED BY <2>1, <2>2 DEF Checked, Idle
<1> QED BY <1>2, <1>3, <1>4, <1>5, <1>6, ShapeKept DEF Start

LEMMA StepAlone ==
    ASSUME TreeTypes, RollupSound, MirrorsFollowLinks, NEW w \in Workers, Checked(w), Step(w)
    PROVE  /\ RollupSound' /\ MirrorsFollowLinks' /\ Checked(w)'
           /\ \A v \in Workers \ {w} : req'[v] = req[v]
           /\ req[w] # Idle
<1>1. Rows /\ Rollups /\ Views /\ req \in [Workers -> Requests] /\ TypeOK
  BY TreeTypesAre DEF TreeTypes
<1>2. live \subseteq Budgets /\ \A b \in live : b # None
  BY LiveAreBudgets
<1>3. ASSUME NEW r, Busy(w, r),
             r.op \in {"idle", "promote", "set_default", "repair", "activate"}
      PROVE  Checked(w)' /\ \A v \in Workers \ {w} : req'[v] = req[v]
  <2>1. req'[w] = r /\ \A v \in Workers \ {w} : req'[v] = req[v]
    BY <1>1, <1>3 DEF Busy
  <2> QED BY <1>3, <2>1 DEF Checked
<1>4. Done(w) => Checked(w)' /\ \A v \in Workers \ {w} : req'[v] = req[v]
  BY <1>3 DEF Done, Idle
<1>5. ASSUME UpdateWrite(w) PROVE RollupSound' /\ MirrorsFollowLinks' /\ Done(w)
  <2> DEFINE b == req[w].b
             k == req[w].kind
  <2>1. b \in live /\ KindChangeAllowed(b, k)
    BY <1>5 DEF UpdateWrite, Checked
  <2>2. kind' = [kind EXCEPT ![b] = k] \/ kind' = kind
    BY <1>5 DEF UpdateWrite
  <2>3. UNCHANGED <<live, parent, mirrors>> /\ Done(w)
    BY <1>5 DEF UpdateWrite, rollups
  <2> HIDE DEF b, k
  <2>4. \A c \in live : kind'[c] = IF c = b /\ kind' # kind THEN k ELSE kind[c]
    BY <1>1, <1>2, <2>2 DEF Rows
  <2>5. k = kind[b] \/ (parent[b] = None /\ \A c \in live : parent[c] # b)
    BY <2>1 DEF KindChangeAllowed, IsChild, IsRollupParent
  <2>6. \A c \in live : parent[c] # None => parent[c] \in live
    BY <1>1, <1>2 DEF Rollups
  <2>7. RollupSound'
    BY <2>3, <2>4, <2>5, <2>6 DEF RollupSound
  <2> QED BY <2>3, <2>7 DEF MirrorsFollowLinks
<1>6. ASSUME DeleteRow(w)
      PROVE  RollupSound' /\ MirrorsFollowLinks' /\ (Busy(w, [op |-> "promote"]) \/ Done(w))
  <2> DEFINE b == req[w].b
  <2>1. b \in live
    BY <1>6 DEF DeleteRow, Checked
  <2>2. /\ live' = live \ {b}
        /\ parent' = [c \in Budgets |-> IF c = b \/ parent[c] = b THEN None ELSE parent[c]]
        /\ mirrors' = {m \in mirrors : b \notin {m[1], m[2]}}
        /\ kind' = [kind EXCEPT ![b] = "time_based"]
    BY <1>6 DEF DeleteRow, ClearOf
  <2>3. Busy(w, [op |-> "promote"]) \/ Done(w)
    BY <1>6 DEF DeleteRow
  <2> HIDE DEF b
  <2>4. \A c \in Budgets : c # b => kind'[c] = kind[c]
    BY <1>1, <2>2 DEF Rows
  <2>5. RollupSound'
    <3>1. ASSUME NEW c \in live \ {b}, parent'[c] # None
          PROVE  parent'[parent'[c]] = None /\ kind'[parent'[c]] = kind'[c]
      <4>1. parent'[c] = parent[c] /\ parent[c] # b /\ parent[c] \in live /\ parent[parent[c]] = None
        BY <1>1, <1>2, <2>2, <3>1 DEF Rollups, RollupSound
      <4> QED BY <1>2, <2>1, <2>2, <2>4, <3>1, <4>1 DEF RollupSound
    <3> QED BY <2>2, <3>1 DEF RollupSound
  <2>6. MirrorsFollowLinks'
    <3>1. ASSUME NEW m \in mirrors, b \notin {m[1], m[2]} PROVE parent'[m[2]] = m[1]
      <4>1. parent[m[2]] = m[1] /\ m[1] \in live /\ m[2] \in live
        BY <1>1 DEF Rollups, MirrorsFollowLinks
      <4> QED BY <1>2, <2>2, <3>1, <4>1
    <3> QED BY <2>2, <3>1 DEF MirrorsFollowLinks
  <2> QED BY <2>3, <2>5, <2>6
<1>7. ASSUME LinkWrite(w) PROVE RollupSound' /\ MirrorsFollowLinks' /\ Done(w)
  <2> DEFINE p == req[w].p
             c == req[w].c
  <2>1. {p, c} \subseteq live /\ parent[c] \in {None, p} /\ RollupAllowed(p, c)
    BY <1>7 DEF LinkWrite, Checked
  <2>2. /\ parent' = [parent EXCEPT ![c] = p] /\ mirrors' = mirrors \union {<<p, c>>}
        /\ UNCHANGED <<live, kind>> /\ Done(w)
    BY <1>7, <2>1 DEF LinkWrite, rows
  <2> HIDE DEF p, c
  <2>3. \A d \in Budgets : parent'[d] = IF d = c THEN p ELSE parent[d]
    BY <1>1, <2>2 DEF Rollups
  <2>4. p # c /\ parent[p] = None /\ kind[p] = kind[c] /\ \A d \in live : parent[d] # c
    BY <2>1 DEF RollupAllowed, IsChild, IsRollupParent
  <2>5. RollupSound'
    <3>1. ASSUME NEW d \in live, parent'[d] # None
          PROVE  parent'[parent'[d]] = None /\ kind[parent'[d]] = kind[d]
      <4>1. CASE d = c
        BY <1>2, <2>1, <2>3, <2>4, <4>1
      <4>2. CASE d # c
        <5>1. parent'[d] = parent[d] /\ parent[d] \in live /\ parent[d] # c
          BY <1>1, <1>2, <2>3, <2>4, <3>1, <4>2 DEF Rollups
        <5> QED BY <1>2, <2>3, <3>1, <5>1 DEF RollupSound
      <4> QED BY <4>1, <4>2
    <3> QED BY <2>2, <3>1 DEF RollupSound
  <2>6. MirrorsFollowLinks'
    <3>1. ASSUME NEW m \in mirrors PROVE parent'[m[2]] = m[1]
      <4>1. parent[m[2]] = m[1] /\ m[1] \in live /\ m[2] \in live
        BY <1>1 DEF Rollups, MirrorsFollowLinks
      <4> QED BY <1>2, <2>1, <2>3, <4>1
    <3>2. parent'[c] = p
      BY <1>2, <2>1, <2>3
    <3> QED BY <2>2, <3>1, <3>2 DEF MirrorsFollowLinks
  <2> QED BY <2>2, <2>5, <2>6
<1>8. ASSUME UnlinkWrite(w) PROVE RollupSound' /\ MirrorsFollowLinks' /\ Done(w)
  <2> DEFINE p == req[w].p
             c == req[w].c
  <2>1. req[w].found = (<<p, c>> \in mirrors) /\ c \in Budgets
    BY <1>1, <1>8, TreeRequests DEF UnlinkWrite, Checked
  <2>2. /\ parent' = [parent EXCEPT ![c] = IF parent[c] = p THEN None ELSE parent[c]]
        /\ mirrors' = IF req[w].found THEN mirrors \ {<<p, c>>} ELSE mirrors
        /\ UNCHANGED <<live, kind>> /\ Done(w)
    BY <1>8 DEF UnlinkWrite, ClearOf, rows
  <2>3. mirrors' = mirrors \ {<<p, c>>}
    BY <2>1, <2>2
  <2> HIDE DEF p, c
  <2>4. \A d \in Budgets : parent'[d] = IF d = c /\ parent[c] = p THEN None ELSE parent[d]
    BY <1>1, <2>2 DEF Rollups
  <2>5. RollupSound'
    <3>1. ASSUME NEW d \in live, parent'[d] # None
          PROVE  parent'[parent'[d]] = None /\ kind[parent'[d]] = kind[d]
      <4>1. parent'[d] = parent[d] /\ parent[d] \in live
        BY <1>1, <1>2, <2>4, <3>1 DEF Rollups
      <4> QED BY <1>2, <2>4, <3>1, <4>1 DEF RollupSound
    <3> QED BY <2>2, <3>1 DEF RollupSound
  <2>6. MirrorsFollowLinks'
    <3>1. ASSUME NEW m \in mirrors, m # <<p, c>> PROVE parent'[m[2]] = m[1]
      <4>1. parent[m[2]] = m[1] /\ m[2] \in live /\ m = <<m[1], m[2]>>
        BY <1>1 DEF Rollups, MirrorsFollowLinks
      <4>2. ~ (m[2] = c /\ m[1] = p)
        BY <3>1, <4>1
      <4> QED BY <1>2, <2>4, <4>1, <4>2
    <3> QED BY <2>3, <3>1 DEF MirrorsFollowLinks
  <2> QED BY <2>2, <2>5, <2>6
<1>9. ASSUME \/ PickReplacement(w) \/ PromoteReplacement(w) \/ RepairActive(w)
             \/ SwitchSet(w) \/ SwitchActivate(w)
      PROVE  /\ UNCHANGED <<live, kind, parent, mirrors>>
             /\ \E r : Busy(w, r) /\ r.op \in {"idle", "promote", "set_default", "repair", "activate"}
  BY <1>9 DEF PickReplacement, PromoteReplacement, RepairActive, SwitchSet, SwitchActivate,
              rows, rollups, Done, Idle
<1>10. req[w] # Idle
  BY DEF Step, UpdateWrite, DeleteRow, PickReplacement, PromoteReplacement, RepairActive,
         SwitchSet, SwitchActivate, LinkWrite, UnlinkWrite, Idle
<1>11. [op |-> "promote"].op \in {"idle", "promote", "set_default", "repair", "activate"}
  OBVIOUS
<1> QED
  BY <1>3, <1>4, <1>5, <1>6, <1>7, <1>8, <1>9, <1>10, <1>11, ShapeKept DEF Step

LEMMA DefaultAlone ==
    ASSUME TreeTypes, DefaultComing, NEW w \in Workers, Checked(w), Step(w),
           \A v \in Workers \ {w} : req[v] = Idle
    PROVE  DefaultComing'
<1>1. Rows /\ Rollups /\ Views /\ req \in [Workers -> Requests] /\ TypeOK
  BY TreeTypesAre DEF TreeTypes
<1>2. live \subseteq Budgets /\ \A b \in live : b # None
  BY LiveAreBudgets
<1>3. live = {} \/ default # None \/ WillSet(w)
  BY DEF DefaultComing, WillSet, Idle
<1>4. SUFFICES ASSUME live' # {}, default' = None PROVE WillSet(w)'
  BY DEF DefaultComing, WillSet
<1>5. CASE DeleteRow(w)
  <2>1. /\ req[w].op = "delete" /\ req[w].b \in live /\ req[w].wasDefault = (default = req[w].b)
        /\ default' = (IF default = req[w].b THEN None ELSE default)
    BY <1>5 DEF DeleteRow, ClearOf, Checked
  <2>2. default # None
    BY <1>3, <2>1 DEF WillSet
  <2>3. Busy(w, [op |-> "promote"])
    BY <1>4, <1>5, <2>1, <2>2 DEF DeleteRow
  <2>4. req'[w] = [op |-> "promote"]
    BY <1>1, <2>3 DEF Busy
  <2> QED BY <2>4 DEF WillSet
<1>6. CASE PickReplacement(w)
  <2>1. live # {} /\ live' = live
    BY <1>4, <1>6 DEF PickReplacement, rows
  <2>2. Busy(w, [op |-> "set_default", b |-> Max(live)])
    BY <1>6, <2>1 DEF PickReplacement
  <2>3. req'[w] = [op |-> "set_default", b |-> Max(live)]
    BY <1>1, <2>2 DEF Busy
  <2>4. Max(live) \in live
    BY <1>2, <2>1, NewestIsOne
  <2> QED BY <2>1, <2>3, <2>4 DEF WillSet
<1>7. CASE PromoteReplacement(w)
  <2>1. req[w].op = "set_default" /\ req[w].b # None
    BY <1>1, <1>7, TreeRequests, NoneIsNoBudget DEF PromoteReplacement
  <2>2. /\ default = None \/ default = req[w].b => default' = IF req[w].b \in live THEN req[w].b ELSE default
        /\ ~ (default = None \/ default = req[w].b) => default' = default
        /\ live' = live
    BY <1>7 DEF PromoteReplacement, rows
  <2> QED BY <1>3, <1>4, <2>1, <2>2 DEF WillSet
<1>8. CASE SwitchSet(w)
  <2>1. /\ req[w].op = "switch" /\ live' = live
        /\ default' = IF req[w].b \in live /\ default = None THEN req[w].b ELSE default
    BY <1>8 DEF SwitchSet, rows
  <2> QED BY <1>2, <1>3, <1>4, <2>1 DEF WillSet
<1>9. CASE \/ UpdateWrite(w) \/ RepairActive(w) \/ SwitchActivate(w) \/ LinkWrite(w) \/ UnlinkWrite(w)
  <2>1. /\ live' = live /\ default' = default
        /\ req[w].op \in {"update", "repair", "activate", "link", "unlink"}
    BY <1>9 DEF UpdateWrite, RepairActive, SwitchActivate, LinkWrite, UnlinkWrite, rows, views
  <2> QED BY <1>3, <1>4, <2>1 DEF WillSet
<1> QED BY <1>5, <1>6, <1>7, <1>8, <1>9 DEF Step

\* A step of what runs alone: of no request under way, or of the only one.
LEMMA AloneStep ==
    ASSUME TreeSound, MCNext, past' # "overlapped"
    PROVE  /\ OneBusy' /\ RollupSound' /\ MirrorsFollowLinks' /\ \A w \in Workers : Checked(w)'
           /\ past' = "alone" => DefaultComing'
<1>1. ~ Overlaps /\ past # "overlapped" /\ (past' = "alone" => past = "alone")
  BY DEF MCNext, After, TreeSound
<1>2. /\ TreeTypes /\ OneBusy /\ RollupSound /\ MirrorsFollowLinks /\ \A w \in Workers : Checked(w)
      /\ past' = "alone" => DefaultComing
  BY <1>1 DEF TreeSound
<1>3. OneBusy'
  BY <1>1 DEF Overlaps, OneBusy
<1>4. \A w \in Workers : /\ req[w] = Idle => Checked(w) /\ ~ WillSet(w)
                         /\ req'[w] = Idle => Checked(w)'
  BY DEF Checked, WillSet, Idle
<1>5. CASE AtOnce
  <2>1. /\ RollupSound' /\ MirrorsFollowLinks' /\ req' = req
        /\ live = {} \/ default # None => live' = {} \/ default' # None
    BY <1>2, <1>5, AtOnceAlone
  <2>2. \A w \in Workers : req[w] = Idle
    BY <1>1, <2>1 DEF Overlaps, InProgress
  <2>3. DefaultComing => DefaultComing'
    BY <1>4, <2>1, <2>2 DEF DefaultComing
  <2> QED BY <1>2, <1>3, <1>4, <2>1, <2>2, <2>3
<1>6. ASSUME NEW w \in Workers, Start(w)
      PROVE  /\ RollupSound' /\ MirrorsFollowLinks' /\ \A v \in Workers : Checked(v)'
             /\ past' = "alone" => DefaultComing'
  <2>1. /\ RollupSound' /\ MirrorsFollowLinks' /\ Checked(w)'
        /\ \A v \in Workers \ {w} : req'[v] = req[v]
        /\ req[w] = Idle /\ req'[w] # Idle
        /\ live' = live /\ (default' = None => default = None \/ WillSet(w)')
    BY <1>2, <1>6, StartAlone
  <2>2. \A v \in Workers \ {w} : req'[v] = Idle /\ req[v] = Idle
    BY <1>3, <2>1 DEF OneBusy
  <2>3. \A v \in Workers : ~ WillSet(v)
    BY <1>4, <2>1, <2>2
  <2>4. DefaultComing => DefaultComing'
    BY <2>1, <2>3 DEF DefaultComing
  <2> QED BY <1>2, <1>4, <2>1, <2>2, <2>4
<1>7. ASSUME NEW w \in Workers, Step(w)
      PROVE  /\ RollupSound' /\ MirrorsFollowLinks' /\ \A v \in Workers : Checked(v)'
             /\ past' = "alone" => DefaultComing'
  <2>1. /\ RollupSound' /\ MirrorsFollowLinks' /\ Checked(w)'
        /\ \A v \in Workers \ {w} : req'[v] = req[v] /\ req[w] # Idle
    BY <1>2, <1>7, StepAlone
  <2>2. \A v \in Workers \ {w} : req[v] = Idle /\ req'[v] = Idle
    <3>1. req[w] # Idle
      BY <1>2, <1>7, StepAlone
    <3> QED BY <1>2, <2>1, <3>1 DEF OneBusy
  <2>3. DefaultComing => DefaultComing'
    BY <1>2, <1>7, <2>2, DefaultAlone
  <2> QED BY <1>2, <1>4, <2>1, <2>2, <2>3
<1>8. ASSUME NEW w \in Workers, Cut(w), After("cut")
      PROVE  /\ RollupSound' /\ MirrorsFollowLinks' /\ \A v \in Workers : Checked(v)'
             /\ past' # "alone"
  <2>1. /\ req[w] # Idle /\ req'[w] = Idle /\ \A v \in Workers \ {w} : req'[v] = req[v]
        /\ UNCHANGED <<live, kind, parent, mirrors>>
    BY <1>2, <1>8, TreeTypesAre DEF Cut, Done, Busy, rows, rollups
  <2>2. \A v \in Workers : req'[v] = Idle
    BY <1>2, <2>1 DEF OneBusy
  <2>3. RollupSound' /\ MirrorsFollowLinks'
    BY <1>2, <2>1, ShapeKept
  <2> QED BY <1>4, <1>8, <2>2, <2>3 DEF After
<1> QED BY <1>3, <1>5, <1>6, <1>7, <1>8 DEF MCNext

LEMMA TreeStep == TreeSound /\ MCNext => TreeSound' /\ NotTaken
<1> SUFFICES ASSUME TreeSound, MCNext PROVE TreeSound' /\ NotTaken
  OBVIOUS
<1>1. TreeTypes' /\ NotTaken
  BY TreeTypesStep DEF TreeSound, MCNext, Next
<1>2. past' \in {"alone", "cut", "overlapped"}
  BY DEF TreeSound, MCNext, After
<1>3. past' = "overlapped" => TreeSound'
  BY <1>1, <1>2 DEF TreeSound
<1>4. past' # "overlapped" => TreeSound'
  BY <1>1, <1>2, AloneStep DEF TreeSound
<1> QED BY <1>1, <1>3, <1>4

LEMMA TreeInit == MCInit => TreeSound
<1> SUFFICES ASSUME MCInit PROVE TreeSound
  OBVIOUS
<1>1. /\ live = {} /\ born = 0 /\ kind = [b \in Budgets |-> "time_based"] /\ closed = {}
      /\ parent = [b \in Budgets |-> None] /\ mirrors = {} /\ default = None /\ active = None
      /\ req = [w \in Workers |-> Idle] /\ past = "alone"
  BY DEF MCInit, Init
<1>2. Idle \in Requests /\ 0 \in 0 .. MaxBudgets /\ "time_based" \in Kinds
  BY MaxBudgetsAssumption DEF Requests, Kinds
<1>3. TreeTypes
  BY <1>1, <1>2 DEF TreeTypes, TypeOK, Unborn
<1>4. \A w \in Workers : req[w] = Idle /\ Checked(w)
  BY <1>1 DEF Checked, Idle
<1> QED
  BY <1>1, <1>3, <1>4 DEF TreeSound, OneBusy, RollupSound, MirrorsFollowLinks, DefaultComing

LEMMA TreeIsSound == TreeSound => TypeOK /\ TreeSoundAlone
<1> SUFFICES ASSUME TreeSound PROVE TypeOK /\ TreeSoundAlone
  OBVIOUS
<1>1. (\A w \in Workers : req[w] = Idle) => \A w \in Workers : ~ WillSet(w)
  BY DEF WillSet, Idle
<1> QED
  BY <1>1 DEF TreeSound, TreeTypes, TreeSoundAlone, RollupSoundAlone, MirrorsFollowLinksAlone,
              DefaultKeptAlone, DefaultKept, DefaultComing

-----------------------------------------------------------------------------
(* The budgets together *)

all == <<part, onlyTree, onlySharing, onlyPaying, several>>

\* What every behaviour keeps, whichever of the three it shows.
BudgetsSound ==
  /\ part = "tree" => TreeSound
  /\ part = "sharing" => SharingSound
  /\ part = "paying" => PayingSound
  /\ part # "tree" => live = {} /\ past = "overlapped"

LEMMA BudgetsSoundInit == BudgetsInit => BudgetsSound
BY TreeInit, SharingInit, PayingInit DEF BudgetsInit, BudgetsSound, NoTree

LEMMA BudgetsSoundStep == BudgetsSound /\ [BudgetsNext]_all => BudgetsSound'
<1> SUFFICES ASSUME BudgetsSound, [BudgetsNext]_all PROVE BudgetsSound'
  OBVIOUS
<1>1. CASE part = "tree" /\ MCNext /\ part' = part
  BY <1>1, TreeStep DEF BudgetsSound
<1>2. CASE part = "sharing" /\ Sharing!MCNext /\ part' = part /\ UNCHANGED onlyTree
  BY <1>2, SharingStep DEF BudgetsSound, onlyTree
<1>3. CASE part = "paying" /\ Paying!MCNext /\ part' = part /\ UNCHANGED onlyTree
  BY <1>3, PayingStep DEF BudgetsSound, onlyTree
<1>4. CASE UNCHANGED all
  <2>1. UNCHANGED <<part, onlyTree, onlySharing, onlyPaying, several>>
    BY <1>4 DEF all
  <2>2. TreeSound => TreeSound'
    BY <2>1 DEF onlyTree, several, TreeSound, TreeTypes, TypeOK, Unborn, OneBusy, RollupSound,
         MirrorsFollowLinks, Checked, KindChangeAllowed, RollupAllowed, IsChild, IsRollupParent,
         DefaultComing, WillSet
  <2>3. SharingSound => SharingSound'
    <3>1. /\ UNCHANGED <<share, lapsed, ledger, goals, could, lent, paid, open, shaken>>
          /\ UNCHANGED <<closed, parent, default, active, req>>
      BY <2>1 DEF onlySharing, several
    <3>2. ASSUME NEW w \in Workers PROVE Watching(w)' = Watching(w) /\ Granted(w)' = Granted(w) /\ Seen(w)' = Seen(w)
      <4>1. Sharing!MayDo(req[w].user, req[w].budget)' = Sharing!MayDo(req[w].user, req[w].budget)
        BY <3>1 DEF Sharing!MayDo, Sharing!Shares
      <4>2. /\ Sharing!About(w)' = Sharing!About(w) /\ Sharing!Torn(w)' = Sharing!Torn(w)
            /\ Sharing!Borrowed(w)' = Sharing!Borrowed(w) /\ Sharing!Choosing(w)' = Sharing!Choosing(w)
        BY <3>1 DEF Sharing!About, Sharing!Torn, Sharing!Borrowed, Sharing!Choosing, Sharing!DirectLevel
      <4> QED BY <3>1, <4>1, <4>2 DEF Watching, Granted, Seen
    <3>3. Sharing!TypeOK' = Sharing!TypeOK /\ OwnDefaults' = OwnDefaults
      BY <3>1 DEF Sharing!TypeOK, OwnDefaults
    <3> QED BY <3>1, <3>2, <3>3 DEF SharingSound
  <2>4. PayingSound => PayingSound'
    BY <2>1 DEF onlyPaying, several, PayingSound, Paying!TypeOK, SentOfSubs, StatusSent, RowIsYoungest,
         NothingAlive, Erasing, Subs
  <2> QED BY <2>1, <2>2, <2>3, <2>4 DEF BudgetsSound, onlyTree
<1> QED BY <1>1, <1>2, <1>3, <1>4 DEF BudgetsNext

LEMMA BudgetsAreSound == BudgetsSpec => []BudgetsSound
<1>1. BudgetsInit => BudgetsSound
  BY BudgetsSoundInit
<1>2. BudgetsSound /\ [BudgetsNext]_all => BudgetsSound'
  BY BudgetsSoundStep
<1> QED BY <1>1, <1>2, PTL DEF BudgetsSpec, all

\* Every table holds what its columns and constraints allow, and every request is about
\* what there is, of budgets.rs, access.rs and billing.rs alike.
THEOREM BudgetsTyped == BudgetsSpec => []BudgetsTypeOK
<1>1. BudgetsSound => BudgetsTypeOK
  BY TreeIsSound, PayingProperties DEF BudgetsSound, BudgetsTypeOK, SharingSound
<1> QED BY <1>1, BudgetsAreSound, PTL

\* budget.rs, requests that do not overlap: rollup stays one level deep and of one kind,
\* no mirror outlives its link even when a request is cut, and an owner with a budget has
\* a default unless a request was cut.
THEOREM TreeKeepsItsShape == BudgetsSpec => []TreeSoundAlone
<1>1. BudgetsSound => TreeSoundAlone
  BY TreeIsSound
     DEF BudgetsSound, TreeSoundAlone, RollupSoundAlone, MirrorsFollowLinksAlone, DefaultKeptAlone
<1> QED BY <1>1, BudgetsAreSound, PTL

\* budget.rs, link_rollup: whatever links, unlinks and deletions run at once, no write
\* takes a child from one parent and gives it to another.
THEOREM NoChildIsStolen == BudgetsSpec => NeverStolen
<1>1. BudgetsSound /\ [BudgetsNext]_all => [NotTaken]_vars
  <2> SUFFICES ASSUME BudgetsSound, [BudgetsNext]_all PROVE NotTaken \/ vars' = vars
    OBVIOUS
  <2>1. CASE part = "tree" /\ MCNext
    BY <2>1, TreeStep DEF BudgetsSound
  <2>2. CASE part # "tree"
    BY <2>2 DEF BudgetsSound, NotTaken
  <2>3. CASE UNCHANGED all
    BY <2>3 DEF all, onlyTree, several, vars
  <2> QED BY <2>1, <2>2, <2>3 DEF BudgetsNext
<1> QED BY <1>1, BudgetsAreSound, PTL DEF BudgetsSpec, all, NeverStolen, NotTaken

\* budget.rs, access.rs and the gates of rag.rs: however long a chat turn asks its model
\* and whatever is shared, revoked, rolled up, closed or lapses meanwhile, statement by
\* statement of every check, a write is one its caller could make at some moment of the
\* request, or, short of an owner's operation, rests on the share of a parent that the
\* budget left under the check; and a turn that names no budget is refused only if a
\* grant changed while the budget was chosen.
THEOREM WritesWereAllowed == BudgetsSpec => SharingHolds
<1>1. BudgetsSound /\ [BudgetsNext]_all =>
        [part = "sharing" => Sharing!WriteWasAllowed /\ Sharing!FallsBackUnshaken]_<<onlySharing, several>>
  <2> SUFFICES ASSUME BudgetsSound, [BudgetsNext]_all, part = "sharing"
               PROVE  \/ Sharing!WriteWasAllowed /\ Sharing!FallsBackUnshaken
                      \/ UNCHANGED <<onlySharing, several>>
    OBVIOUS
  <2>1. CASE BudgetsNext
    <3>1. Sharing!Watch
      BY <2>1 DEF BudgetsNext, Sharing!MCNext
    <3> QED BY <3>1, SharingPromises DEF BudgetsSound
  <2>2. CASE UNCHANGED all
    BY <2>2 DEF all
  <2> QED BY <2>1, <2>2
<1> QED BY <1>1, BudgetsAreSound, PTL DEF BudgetsSpec, all, SharingHolds

\* billing.rs, the webhook: whatever order Stripe's events come in and however often, once
\* all are answered the row of a user says what Stripe does of the youngest subscription.
THEOREM RowsFollowStripe == BudgetsSpec => []RowFollowsStripe
<1>1. BudgetsSound => RowFollowsStripe
  BY PayingProperties DEF BudgetsSound, RowFollowsStripe
<1> QED BY <1>1, BudgetsAreSound, PTL

\* billing.rs, account deletion: once a user is gone whose row knew of every subscription
\* and session, nothing at Stripe bills them.
THEOREM DeletionCancels == BudgetsSpec => []DeletionCancelsAlone
<1>1. BudgetsSound => DeletionCancelsAlone
  BY PayingProperties DEF BudgetsSound, DeletionCancelsAlone
<1> QED BY <1>1, BudgetsAreSound, PTL

\* billing.rs, budget creation: a trial is started only for a user of whom no event of a
\* subscription had been answered when the request read the row.
THEOREM OneTrialEach == BudgetsSpec => NoSecondTrial
<1>1. BudgetsSound /\ [BudgetsNext]_all => [part = "paying" => Paying!FirstTrial]_<<onlyPaying, several>>
  <2> SUFFICES ASSUME BudgetsSound, part = "paying" PROVE Paying!FirstTrial
    OBVIOUS
  <2> QED BY PayingProperties DEF BudgetsSound
<1> QED BY <1>1, BudgetsAreSound, PTL DEF BudgetsSpec, all, NoSecondTrial

=============================================================================
