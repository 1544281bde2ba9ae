------------------------------ MODULE AutoRenew ------------------------------
(***************************************************************************)
(* Auto-renewal of one recurring budget: the hourly tick of main.rs that   *)
(* moves next_renewal_at past each period boundary (renew_due_budgets),    *)
(* against the requests that rewrite the same columns (update_budget, the  *)
(* chat's auto-renew toggle, archive and unarchive).                       *)
(*                                                                         *)
(* A boundary has passed once the clock shows its month.  Ticks of two     *)
(* processes may overlap (a rolling deploy), each with the instant it      *)
(* started at.  Closing needs a project budget, which renewal already      *)
(* excludes, so closed_at is not tracked.                                  *)
(***************************************************************************)
EXTENDS Periods

CONSTANTS Ticks,     \* runs of the ticker that may overlap
          Edits      \* update requests that may overlap

Types == {"time_based", "project"}

VARIABLES now,       \* the month on the clock
          budget,    \* the columns of the row that renewal reads or writes
          renewals,  \* AUTO_RENEW_BUDGET audit rows, by the month of their tick
          tick,      \* what each tick has selected and not yet written
          edit       \* what each request has computed and not yet written

vars == <<now, budget, renewals, tick, edit>>

-----------------------------------------------------------------------------
renewal_marker(on, tf, t) == IF on THEN next_period_boundary(tf, t) ELSE None

Markers == 0 .. (MaxMonth + 3) \union {None}

Rows == [time_frame : TimeFrames, type : Types, archived : BOOLEAN,
         auto_renew : BOOLEAN, next_renewal_at : Markers]

\* The columns an UPDATE of update_budget carries; type is None when the
\* payload has none, and COALESCE keeps the column.  asked: the payload named
\* auto_renew.
Updates == [time_frame : TimeFrames, type : Types \union {None}, asked : BOOLEAN,
            auto_renew : BOOLEAN, next_renewal_at : Markers]

Idle == [at |-> "idle"]

TypeOK ==
  /\ now \in Months
  /\ budget \in Rows
  /\ budget.auto_renew => budget.type = "time_based"
  /\ renewals \in [Months -> 0 .. 2]
  /\ tick \in [Ticks -> {Idle} \union [at : {"write"}, now : Months, time_frame : TimeFrames]]
  /\ edit \in [Edits -> {Idle} \union [at : {"write"}, set : Updates]
                              \union [at : {"toggle"}, on : BOOLEAN, marker : Markers]]

Init ==
  /\ now = 0
  /\ budget \in [time_frame : TimeFrames, type : {"time_based"}, archived : {FALSE},
                 auto_renew : {FALSE}, next_renewal_at : {None}]
  /\ renewals = [m \in Months |-> 0]
  /\ tick = [t \in Ticks |-> Idle]
  /\ edit = [e \in Edits |-> Idle]

Clock ==
  /\ now < MaxMonth
  /\ now' = now + 1
  /\ UNCHANGED <<budget, renewals, tick, edit>>

-----------------------------------------------------------------------------
(* The tick *)

Due(b, t) ==
  /\ b.auto_renew
  /\ b.next_renewal_at # None /\ b.next_renewal_at <= t
  /\ b.type = "time_based"
  /\ ~ b.archived

\* The SELECT of the due budgets, with the instant the tick started at.
SelectDue(t) ==
  /\ tick[t] = Idle
  /\ Due(budget, now)
  /\ tick' = [tick EXCEPT ![t] = [at |-> "write", now |-> now, time_frame |-> budget.time_frame]]
  /\ UNCHANGED <<now, budget, renewals, edit>>

\* Renewals of one month are told apart up to two.
Counted(n) == IF n < 2 THEN n + 1 ELSE n

\* Bug to catch: UPDATE by id alone, trusting the SELECT.
RenewUnguarded(t) ==
  /\ tick[t].at = "write"
  /\ budget' = [budget EXCEPT !.next_renewal_at =
                  next_period_boundary(tick[t].time_frame, tick[t].now)]
  /\ renewals' = [renewals EXCEPT ![tick[t].now] = Counted(@)]
  /\ tick' = [tick EXCEPT ![t] = Idle]
  /\ UNCHANGED <<now, edit>>

\* Bug to catch: the marker moves to the start of the period, not to its end.
RenewToStart(t) ==
  /\ tick[t].at = "write"
  /\ IF Due(budget, tick[t].now)
       THEN /\ budget' = [budget EXCEPT !.next_renewal_at =
                            PeriodStart(tick[t].time_frame, tick[t].now)]
            /\ renewals' = [renewals EXCEPT ![tick[t].now] = Counted(@)]
       ELSE UNCHANGED <<budget, renewals>>
  /\ tick' = [tick EXCEPT ![t] = Idle]
  /\ UNCHANGED <<now, edit>>

\* The guarded UPDATE, and the audit row of a renewal that took place.
Renew(t) ==
  /\ tick[t].at = "write"
  /\ IF Due(budget, tick[t].now)
       THEN /\ budget' = [budget EXCEPT !.next_renewal_at =
                            next_period_boundary(tick[t].time_frame, tick[t].now)]
            /\ renewals' = [renewals EXCEPT ![tick[t].now] = Counted(@)]
       ELSE UNCHANGED <<budget, renewals>>
  /\ tick' = [tick EXCEPT ![t] = Idle]
  /\ UNCHANGED <<now, edit>>

\* A database error, or the end of the process, ends the tick here.
TickFails(t) ==
  /\ tick[t] # Idle
  /\ tick' = [tick EXCEPT ![t] = Idle]
  /\ UNCHANGED <<now, budget, renewals, edit>>

-----------------------------------------------------------------------------
(* Requests *)

\* Bug to catch: the marker is recomputed on every edit, a rename included.
UpdateAlwaysRecomputes(b, tf, type, auto) ==
  LET newType == IF type = None THEN b.type ELSE type
      on == newType = "time_based" /\ IF auto = None THEN b.auto_renew ELSE auto
  IN [time_frame |-> tf, type |-> type, asked |-> auto # None, auto_renew |-> on,
      next_renewal_at |-> renewal_marker(on, tf, now)]

\* What update_budget computes from the row it read and the payload: the time
\* frame is always sent, the type and auto_renew may be absent.
UpdateOf(b, tf, type, auto) ==
  LET newType == IF type = None THEN b.type ELSE type
      on == newType = "time_based" /\ IF auto = None THEN b.auto_renew ELSE auto
      affected == auto # None \/ newType # b.type \/ tf # b.time_frame
  IN [time_frame |-> tf, type |-> type, asked |-> auto # None, auto_renew |-> on,
      next_renewal_at |-> IF affected THEN renewal_marker(on, tf, now) ELSE b.next_renewal_at]

\* update_budget reads the row; turning renewal on for a project is refused.
UpdateRead(e, tf, type, auto) ==
  /\ edit[e] = Idle
  /\ ~ (auto = TRUE /\ (IF type = None THEN budget.type ELSE type) # "time_based")
  /\ edit' = [edit EXCEPT ![e] = [at |-> "write", set |-> UpdateOf(budget, tf, type, auto)]]
  /\ UNCHANGED <<now, budget, renewals, tick>>

\* The CHECK on the table: only a time-based row may renew.
Written(b, set) ==
  LET type == IF set.type = None THEN b.type ELSE set.type
  IN IF set.auto_renew /\ type # "time_based" THEN b
     ELSE [b EXCEPT !.time_frame = set.time_frame, !.type = type,
                    !.auto_renew = set.auto_renew, !.next_renewal_at = set.next_renewal_at]

\* update_budget writes every column back, the marker it read included.
UpdateWrite(e) ==
  /\ edit[e].at = "write"
  /\ budget' = Written(budget, edit[e].set)
  /\ edit' = [edit EXCEPT ![e] = Idle]
  /\ UNCHANGED <<now, renewals, tick>>

\* The chat reads the time frame and type, and computes the new marker ...
ToggleRead(e, on) ==
  /\ edit[e] = Idle
  /\ on => budget.type = "time_based"
  /\ edit' = [edit EXCEPT ![e] =
       [at |-> "toggle", on |-> on, marker |-> renewal_marker(on, budget.time_frame, now)]]
  /\ UNCHANGED <<now, budget, renewals, tick>>

\* ... and writes the two columns by id.
ToggleWrite(e) ==
  /\ edit[e].at = "toggle"
  /\ budget' = IF edit[e].on /\ budget.type # "time_based" THEN budget
               ELSE [budget EXCEPT !.auto_renew = edit[e].on,
                                   !.next_renewal_at = edit[e].marker]
  /\ edit' = [edit EXCEPT ![e] = Idle]
  /\ UNCHANGED <<now, renewals, tick>>

\* archive_budget and unarchive_budget set and clear one column.
SetArchived(on) ==
  /\ budget.archived # on
  /\ budget' = [budget EXCEPT !.archived = on]
  /\ UNCHANGED <<now, renewals, tick, edit>>

Request(e) ==
  \/ \E tf \in TimeFrames, type \in Types \union {None}, auto \in BOOLEAN \union {None} :
       UpdateRead(e, tf, type, auto)
  \/ \E on \in BOOLEAN : ToggleRead(e, on)
  \/ UpdateWrite(e) \/ ToggleWrite(e)

Next ==
  \/ Clock
  \/ \E t \in Ticks : SelectDue(t) \/ Renew(t) \/ TickFails(t)
  \/ \E e \in Edits : Request(e)
  \/ \E on \in BOOLEAN : SetArchived(on)

\* The interval in main.rs fires for ever, a due budget is selected by the
\* tick that follows, and not every tick fails before it has written.
Fairness == SF_vars(\E t \in Ticks : SelectDue(t)) /\ SF_vars(\E t \in Ticks : Renew(t))

Spec == Init /\ [][Next]_vars

-----------------------------------------------------------------------------
(* Properties *)

\* "Two concurrent ticks (or a racing REST/chat write) cannot double-renew":
\* at most one renewal is recorded for the same month.
RenewedOnce == \A m \in Months : renewals[m] <= 1

\* No unrelated edit skips a renewal: while a budget is due, its marker goes to
\* the future only by a tick, by a change of what renewal depends on, or by
\* a request that named auto_renew.
AskedFor(e) ==
  /\ edit[e] # Idle /\ edit'[e] = Idle
  /\ edit[e].at = "write" => edit[e].set.asked

RenewalKept ==
  Due(budget, now) /\ ~ Due(budget', now)
    => \/ tick' # tick
       \/ budget'.time_frame # budget.time_frame \/ budget'.type # budget.type
       \/ budget'.archived \/ ~ budget'.auto_renew
       \/ \E e \in Edits : AskedFor(e)

\* A budget that stays due is renewed: the marker keeps passing the clock.
EventuallyRenewed == []<> ~ Due(budget, now)

=============================================================================
