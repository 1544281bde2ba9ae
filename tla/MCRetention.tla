---------------------------- MODULE MCRetention ----------------------------
EXTENDS Retention

\* History.  owed[p]: what was expired when p began, unless something disturbed it
\* since (another purge, a dismissal, a failure).  A row is no longer owed once it is
\* read, if a read row is kept longer: no one compares the two windows.
VARIABLE owed

MCInit == Init /\ owed = [p \in Purgers |-> {}]

Spared == {r \in Rows : Expired(r) /\ ~ Expired(r)'}

MCNext ==
  \/ /\ NextDay \/ \E r \in Rows, read \in BOOLEAN : Insert(r, read)
     /\ UNCHANGED owed
  \/ /\ mark_all_read \/ \E r \in Rows : mark_read(r)
     /\ owed' = [p \in Purgers |-> owed[p] \ Spared]
  \/ (\E r \in Rows : delete_notification(r)) /\ owed' = [p \in Purgers |-> {}]
  \/ \E p \in Purgers :
       \/ /\ Begin(p)
          /\ owed' = IF \A q \in Purgers : purge[q] = Idle THEN [owed EXCEPT ![p] = ExpiredRows]
                     ELSE [q \in Purgers |-> {}]
       \/ Scan(p) /\ UNCHANGED owed
       \/ Delete(p) /\ owed' = [owed EXCEPT ![p] = IF purge'[p] = Idle THEN {} ELSE @]
       \/ PurgeFails(p) /\ owed' = [owed EXCEPT ![p] = {}]

MCSpec == MCInit /\ [][MCNext]_<<vars, owed>> /\ Fairness

\* "Looping until a batch deletes fewer than batch_size (i.e. the eligible set is
\* drained)": a purge that ends undisturbed leaves none of what it found expired.
PurgeDrainsAlone ==
  [][\A p \in Purgers : Delete(p) /\ purge'[p] = Idle => \A r \in owed[p] : feed'[r] = None]_<<vars, owed>>
=============================================================================
