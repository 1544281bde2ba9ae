----------------------------- MODULE Reminders -----------------------------
(***************************************************************************)
(* Reminders (backend/src/notifications.rs, core/src/notifications.rs).    *)
(* Each minute a tick selects what is due, and for each row inserts a      *)
(* notification and then moves next_fire_at, in two statements whose       *)
(* failure is logged and skipped.  Ticks of two processes overlap during   *)
(* a deploy.  Time is counted in days.                                     *)
(***************************************************************************)
EXTENDS Naturals, FiniteSetsExt, SequencesExt

CONSTANTS Rems,      \* identities of reminders
          Firers,    \* runs of the ticker that may overlap
          MaxDay,    \* bound on the clock
          Week,      \* days of the longer cadence (7 in the code; monthly is 30)
          None

RemindersAssumption == MaxDay \in Nat /\ Week \in Nat \ {0}

VARIABLES today,     \* the clock
          reminder,  \* the table: None, or cadence and next_fire_at
          used,      \* ids that have been given (they are never given again)
          firing     \* the batch of each tick

vars == <<today, reminder, used, firing>>

Idle == [at |-> "idle"]
Cadences == {"daily", "weekly"}
Days == 0 .. MaxDay

\* core: one cadence step.
advance(from, cadence) == from + (IF cadence = "weekly" THEN Week ELSE 1)

Row == [cadence : Cadences, next : 0 .. MaxDay + Week]
Read == [id : Rems, cadence : Cadences, next : 0 .. MaxDay + Week]

TypeOK ==
  /\ today \in Days
  /\ reminder \in [Rems -> Row \union {None}]
  /\ used \subseteq Rems
  /\ firing \in [Firers -> {Idle} \union
       [at : {"fetched"}, due : Seq(Read)] \union
       [at : {"insert", "advance"}, now : Days, due : Seq(Read)]]

Init ==
  /\ today = 0
  /\ reminder = [r \in Rems |-> None]
  /\ used = {}
  /\ firing = [f \in Firers |-> Idle]

Tomorrow == today < MaxDay /\ today' = today + 1 /\ UNCHANGED <<reminder, used, firing>>

\* create_reminder_handler and delete_reminder_handler.  The handler refuses
\* other cadences, and a budget the user has no access to.
create_reminder(r, cadence) ==
  /\ r \notin used /\ used' = used \union {r}
  /\ reminder' = [reminder EXCEPT ![r] = [cadence |-> cadence, next |-> advance(today, cadence)]]
  /\ UNCHANGED <<today, firing>>

delete_reminder(r) ==
  /\ reminder[r] # None
  /\ reminder' = [reminder EXCEPT ![r] = None]
  /\ UNCHANGED <<today, used, firing>>

-----------------------------------------------------------------------------
(* fire_due_reminders *)

IsDue(r) == reminder[r] # None /\ reminder[r].next <= today
Due == {[id |-> r, cadence |-> reminder[r].cadence, next |-> reminder[r].next] :
          r \in {x \in Rems : IsDue(x)}}

Put(f, state) == firing' = [firing EXCEPT ![f] = state] /\ UNCHANGED <<today, used>>

\* The SELECT compares with the database's clock ...
FetchDue(f) ==
  /\ firing[f] = Idle /\ Due # {}
  /\ \E due \in SetToSeqs(Due) : Put(f, [at |-> "fetched", due |-> due])
  /\ UNCHANGED reminder

\* ... and the process reads its own afterwards.
ReadClock(f) ==
  /\ firing[f].at = "fetched"
  /\ Put(f, [at |-> "insert", now |-> today, due |-> firing[f].due])
  /\ UNCHANGED reminder

Current(f) == Head(firing[f].due)

\* create_notification; its failure is ignored.
Notify(f) ==
  /\ firing[f].at = "insert"
  /\ Put(f, [firing[f] EXCEPT !.at = "advance"])
  /\ UNCHANGED reminder

\* Bug to catch: a long overdue reminder bursts through every slot it missed.
NextAfterSlot(now, row) == advance(row.next, row.cadence)

\* The base is clamped to now.
NextFire(now, row) == advance(IF row.next < now THEN now ELSE row.next, row.cadence)

NextRow(f) ==
  IF Len(firing[f].due) = 1 THEN Idle
  ELSE [at |-> "insert", now |-> firing[f].now, due |-> Tail(firing[f].due)]

\* UPDATE next_fire_at by id alone: whatever it is now, and no row if deleted.
Advance(f) ==
  /\ firing[f].at = "advance"
  /\ LET row == Current(f)
     IN reminder' = IF reminder[row.id] = None THEN reminder
                    ELSE [reminder EXCEPT ![row.id].next = NextFire(firing[f].now, row)]
  /\ Put(f, NextRow(f))

\* A failing UPDATE skips the row; the rest of the batch goes on.
AdvanceFails(f) ==
  /\ firing[f].at = "advance"
  /\ Put(f, NextRow(f)) /\ UNCHANGED reminder

\* The process stops.
FiringStops(f) == firing[f] # Idle /\ Put(f, Idle) /\ UNCHANGED reminder

User == \E r \in Rems : delete_reminder(r) \/ \E c \in Cadences : create_reminder(r, c)

Tick(f) == FetchDue(f) \/ ReadClock(f) \/ Notify(f) \/ Advance(f) \/ AdvanceFails(f) \/ FiringStops(f)

Next == Tomorrow \/ User \/ \E f \in Firers : Tick(f)

\* The interval of main.rs fires for ever, and a tick that runs keeps running; it
\* may still fail or stop at any statement.
Fairness == \A f \in Firers : WF_vars(Tick(f))

Spec == Init /\ [][Next]_vars /\ Fairness

-----------------------------------------------------------------------------

\* A tick that does not stop and updates r.
Reaches(f, r) ==
  \/ FetchDue(f) \/ ReadClock(f) \/ Notify(f) \/ Advance(f)
  \/ AdvanceFails(f) /\ Current(f).id # r

\* However ticks stopped or overlapped before, a reminder that is due is fired and
\* moved to a day that has not come (or deleted), though another reminder's update
\* fails for ever.
EventuallyFired ==
  \A r \in Rems :
    <>[][Tomorrow \/ User \/ \E f \in Firers : Reaches(f, r)]_vars => []<>(~ IsDue(r))
=============================================================================
