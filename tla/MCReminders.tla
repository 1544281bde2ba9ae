---------------------------- MODULE MCReminders ----------------------------
EXTENDS Reminders

\* Histories.  fired[r]: the clock of the tick that last fired r.  ragged: two
\* ticks overlapped, or one ended between an insert and its update.
VARIABLES fired, ragged

MCInit == Init /\ fired = [r \in Rems |-> None] /\ ragged = FALSE

Busy(f) == firing[f] # Idle

MCNext ==
  \/ /\ Tomorrow \/ \E r \in Rems : (\E c \in Cadences : create_reminder(r, c)) \/ delete_reminder(r)
     /\ UNCHANGED <<fired, ragged>>
  \/ \E f \in Firers :
       \/ /\ FetchDue(f)
          /\ ragged' = (ragged \/ \E g \in Firers : Busy(g)) /\ UNCHANGED fired
       \/ (ReadClock(f) \/ Advance(f)) /\ UNCHANGED <<fired, ragged>>
       \/ Notify(f) /\ fired' = [fired EXCEPT ![Current(f).id] = firing[f].now] /\ UNCHANGED ragged
       \/ /\ AdvanceFails(f) \/ FiringStops(f)
          /\ ragged' = (ragged \/ firing[f].at = "advance") /\ UNCHANGED fired

MCSpec == MCInit /\ [][MCNext]_<<vars, fired, ragged>> /\ Fairness

\* "A long-overdue reminder fires once and jumps to the next FUTURE slot, instead
\* of burst-firing every tick until it catches up": between two notifications of a
\* reminder lies at least its cadence, unless ticks overlapped or one was cut.
SpacedAlone ==
  [][~ ragged => \A f \in Firers : Notify(f) =>
       LET row == Current(f)
       IN fired[row.id] # None => firing[f].now >= advance(fired[row.id], row.cadence)]_<<vars, fired, ragged>>
=============================================================================
