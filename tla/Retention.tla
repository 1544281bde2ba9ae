----------------------------- MODULE Retention -----------------------------
(***************************************************************************)
(* The hourly purges of notifications (backend/src/notifications.rs) and   *)
(* of the audit log (budget.rs): rows past their retention are deleted in  *)
(* batches until one comes back short.  Two processes may purge at once.   *)
(* A notification is kept longer while unread; an audit row is a row that  *)
(* nobody marks (is_read from the start).  Time is counted in days.        *)
(***************************************************************************)
EXTENDS Naturals, FiniteSetsExt

CONSTANTS Rows, Purgers, MaxDay,
          ReadDays, UnreadDays,  \* the retention windows (30 and 90 in the code)
          BatchSize,             \* rows of one statement (5000 in the code)
          None

RetentionAssumption ==
  /\ ReadDays \in Nat \ {0} /\ UnreadDays \in Nat \ {0}  \* clamped from 1
  /\ BatchSize \in Nat \ {0} /\ MaxDay \in Nat
  /\ None \notin [created : 0 .. MaxDay, is_read : BOOLEAN]

VARIABLES day,
          feed,   \* the rows: None, or when created and whether read
          given,  \* ids given so far
          purge   \* each purge: idle, about to run a statement, or its batch

vars == <<day, feed, given, purge>>

Idle == [at |-> "idle"]
Scanning == [at |-> "scan"]

TypeOK ==
  /\ day \in 0 .. MaxDay
  /\ feed \in [Rows -> {None} \union [created : 0 .. MaxDay, is_read : BOOLEAN]]
  /\ given \subseteq Rows
  /\ purge \in [Purgers -> {Idle, Scanning} \union [at : {"delete"}, batch : SUBSET Rows]]

Init ==
  /\ day = 0
  /\ feed = [r \in Rows |-> None] /\ given = {}
  /\ purge = [p \in Purgers |-> Idle]

NextDay == day < MaxDay /\ day' = day + 1 /\ UNCHANGED <<feed, given, purge>>

\* create_notification, or log_audit.
Insert(r, read) ==
  /\ r \notin given /\ given' = given \union {r}
  /\ feed' = [feed EXCEPT ![r] = [created |-> day, is_read |-> read]]
  /\ UNCHANGED <<day, purge>>

\* mark_read, mark_all_read and delete_notification, which name the user's own rows.
Unread == {r \in Rows : feed[r] # None /\ ~ feed[r].is_read}

MarkRead(rows) ==
  /\ rows # {} /\ rows \subseteq Unread
  /\ feed' = [r \in Rows |-> IF r \in rows THEN [feed[r] EXCEPT !.is_read = TRUE] ELSE feed[r]]
  /\ UNCHANGED <<day, given, purge>>

mark_read(r) == MarkRead({r})
mark_all_read == MarkRead(Unread)

delete_notification(r) ==
  /\ feed[r] # None
  /\ feed' = [feed EXCEPT ![r] = None]
  /\ UNCHANGED <<day, given, purge>>

-----------------------------------------------------------------------------
(* purge_old_notifications_batched and purge_old_audit_logs_batched *)

Expired(r) ==
  /\ feed[r] # None
  /\ day - feed[r].created > (IF feed[r].is_read THEN ReadDays ELSE UnreadDays)

ExpiredRows == {r \in Rows : Expired(r)}

Begin(p) ==
  /\ purge[p] = Idle
  /\ purge' = [purge EXCEPT ![p] = Scanning]
  /\ UNCHANGED <<day, feed, given>>

\* The subquery: any rows, as many as the batch holds ...
Scan(p) ==
  /\ purge[p] = Scanning
  /\ \E batch \in SUBSET ExpiredRows :
       /\ Cardinality(batch) = Min({BatchSize, Cardinality(ExpiredRows)})
       /\ purge' = [purge EXCEPT ![p] = [at |-> "delete", batch |-> batch]]
  /\ UNCHANGED <<day, feed, given>>

IsLast(n) == n < BatchSize

\* ... and the DELETE of those that nobody else deleted meanwhile.
Delete(p) ==
  /\ purge[p].at = "delete"
  /\ LET gone == {r \in purge[p].batch : feed[r] # None}
     IN /\ feed' = [r \in Rows |-> IF r \in gone THEN None ELSE feed[r]]
        /\ purge' = [purge EXCEPT ![p] = IF IsLast(Cardinality(gone)) THEN Idle ELSE Scanning]
  /\ UNCHANGED <<day, given>>

\* A deadlock of two purges, another failure, or the process stops.
PurgeFails(p) ==
  /\ purge[p] # Idle
  /\ purge' = [purge EXCEPT ![p] = Idle]
  /\ UNCHANGED <<day, feed, given>>

User ==
  \/ mark_all_read
  \/ \E r \in Rows : mark_read(r) \/ delete_notification(r) \/ \E read \in BOOLEAN : Insert(r, read)

Purge(p) == Begin(p) \/ Scan(p) \/ Delete(p)

Next == NextDay \/ User \/ \E p \in Purgers : Purge(p) \/ PurgeFails(p)

\* The hourly loop comes back for ever; a purge may still fail at any statement.
Fairness == \A p \in Purgers : WF_vars(Purge(p) \/ PurgeFails(p))

Spec == Init /\ [][Next]_vars /\ Fairness

-----------------------------------------------------------------------------

\* Purges that overlapped, ended early or failed only delay: what is expired goes.
EventuallyPurged ==
  <>[][NextDay \/ User \/ \E p \in Purgers : Purge(p)]_vars => []<>(ExpiredRows = {})
=============================================================================
