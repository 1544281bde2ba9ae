----------------------------- MODULE FundAccrual -----------------------------
(***************************************************************************)
(* Fund categories (backend/src/budget.rs): a category that is a fund      *)
(* keeps, at each period boundary, what the period left of its limit.  The *)
(* hourly tick walks fund_advanced_through over the boundaries that have   *)
(* passed, one credit each (advance_fund_categories), while requests turn  *)
(* the fund on and off, retime the budget and archive it.                  *)
(*                                                                         *)
(* fund_balance is counted in credits: the amount of one (the limit of the *)
(* day less what the period spent) is not what can go wrong here.  The     *)
(* clock is read next to each statement that uses it, so it is assumed not *)
(* to cross a boundary between the two, except for a tick, which reads it  *)
(* once and then walks all its categories.                                 *)
(***************************************************************************)
EXTENDS Periods

CONSTANTS Ticks,          \* runs of the ticker that may overlap
          Chats,          \* chat requests that may overlap
          MaxIterations   \* periods one tick walks in one category (24 in the code)

ASSUME MaxIterationsAssumption == MaxIterations \in Nat \ {0}

MaxBalance == MaxMonth + 1  \* credits are told apart up to this many

VARIABLES now,         \* the month on the clock
          time_frame,  \* of the budget
          archived,    \* of the budget
          is_fund, fund_advanced_through, fund_balance,
          tick,        \* where each tick is in the category
          chat         \* what each chat request has read

fund == <<is_fund, fund_advanced_through, fund_balance>>
settings == <<time_frame, archived>>
vars == <<now, time_frame, archived, is_fund, fund_advanced_through, fund_balance, tick, chat>>

Idle == [at |-> "idle"]

TypeOK ==
  /\ now \in Months
  /\ time_frame \in TimeFrames
  /\ archived \in BOOLEAN
  /\ is_fund \in BOOLEAN
  /\ fund_advanced_through \in Months \union {None}
  /\ is_fund => fund_advanced_through # None
  /\ fund_balance \in 0 .. MaxBalance
  /\ tick \in [Ticks -> {Idle} \union [at : {"walk"}, now : Months, time_frame : TimeFrames,
                                       marker : Months, left : 0 .. MaxIterations]]
  /\ chat \in [Chats -> {Idle} \union [at : {"write"}, time_frame : TimeFrames]]

Init ==
  /\ now = 0
  /\ time_frame \in TimeFrames
  /\ archived = FALSE
  /\ is_fund = FALSE /\ fund_advanced_through = None /\ fund_balance = 0
  /\ tick = [t \in Ticks |-> Idle]
  /\ chat = [c \in Chats |-> Idle]

Clock ==
  /\ now < MaxMonth
  /\ now' = now + 1
  /\ UNCHANGED <<settings, fund, tick, chat>>

-----------------------------------------------------------------------------
(* Turning a fund on and off *)

\* enable_category_fund, guarded by is_fund = FALSE: the marker restarts at the
\* current period, and only a first enabling resets the balance.
enable_category_fund(tf) ==
  IF is_fund THEN UNCHANGED fund
  ELSE /\ is_fund' = TRUE
       /\ fund_advanced_through' = PeriodStart(tf, now)
       /\ fund_balance' = IF fund_advanced_through = None THEN 0 ELSE fund_balance

\* disable_category_fund preserves the balance and the marker.
disable_category_fund == is_fund' = FALSE /\ UNCHANGED <<fund_advanced_through, fund_balance>>

\* update_category: one transaction, which reads the time frame under the
\* category's row lock.
UpdateCategory(on) ==
  /\ IF on THEN enable_category_fund(time_frame) ELSE disable_category_fund
  /\ UNCHANGED <<now, settings, tick, chat>>

\* SET_CATEGORY_FUND in chat: enabling reads the time frame first ...
ChatRead(c) ==
  /\ chat[c] = Idle
  /\ chat' = [chat EXCEPT ![c] = [at |-> "write", time_frame |-> time_frame]]
  /\ UNCHANGED <<now, settings, fund, tick>>

\* ... and writes, or fails, afterwards (disabling is UpdateCategory's write).
ChatWrite(c) ==
  /\ chat[c].at = "write"
  /\ enable_category_fund(chat[c].time_frame) \/ UNCHANGED fund
  /\ chat' = [chat EXCEPT ![c] = Idle]
  /\ UNCHANGED <<now, settings, tick>>

\* update_budget, archive_budget and unarchive_budget.
Retime(tf) ==
  /\ tf # time_frame
  /\ time_frame' = tf
  /\ UNCHANGED <<now, archived, fund, tick, chat>>

SetArchived(on) ==
  /\ on # archived
  /\ archived' = on
  /\ UNCHANGED <<now, time_frame, fund, tick, chat>>

-----------------------------------------------------------------------------
(* The tick *)

Eligible == is_fund /\ fund_advanced_through # None /\ ~ archived

Elapsed(boundary, t) == boundary <= t

\* The SELECT of the eligible categories.
SelectFund(t) ==
  /\ tick[t] = Idle
  /\ Eligible
  /\ Elapsed(next_period_boundary(time_frame, fund_advanced_through), now)
  /\ tick' = [tick EXCEPT ![t] =
       [at |-> "walk", now |-> now, time_frame |-> time_frame,
        marker |-> fund_advanced_through, left |-> MaxIterations]]
  /\ UNCHANGED <<now, settings, fund, chat>>

Boundary(t) == next_period_boundary(tick[t].time_frame, tick[t].marker)

Credited(n) == IF n < MaxBalance THEN n + 1 ELSE n

\* The guard of the UPDATE: nobody advanced the category, and it is a fund.
StillOwned(t) == is_fund /\ fund_advanced_through = tick[t].marker

\* One iteration of the walk: a credit for the period that ended at the
\* boundary, or the end of the walk when the guard matches no row.
AdvanceOnce(t) ==
  /\ tick[t].at = "walk"
  /\ tick[t].left > 0 /\ Elapsed(Boundary(t), tick[t].now)
  /\ IF StillOwned(t)
       THEN /\ fund_balance' = Credited(fund_balance)
            /\ fund_advanced_through' = Boundary(t)
            /\ tick' = [tick EXCEPT ![t].marker = Boundary(t), ![t].left = @ - 1]
       ELSE UNCHANGED <<fund_balance, fund_advanced_through>> /\ tick' = [tick EXCEPT ![t] = Idle]
  /\ UNCHANGED <<now, settings, is_fund, chat>>

\* Caught up, or the cap on iterations reached.
WalkEnds(t) ==
  /\ tick[t].at = "walk"
  /\ tick[t].left = 0 \/ ~ Elapsed(Boundary(t), tick[t].now)
  /\ tick' = [tick EXCEPT ![t] = Idle]
  /\ UNCHANGED <<now, settings, fund, chat>>

\* A query fails or the process stops: what was credited stays.
TickFails(t) ==
  /\ tick[t] # Idle
  /\ tick' = [tick EXCEPT ![t] = Idle]
  /\ UNCHANGED <<now, settings, fund, chat>>

Next ==
  \/ Clock
  \/ \E on \in BOOLEAN : UpdateCategory(on) \/ SetArchived(on)
  \/ \E c \in Chats : ChatRead(c) \/ ChatWrite(c)
  \/ \E tf \in TimeFrames : Retime(tf)
  \/ \E t \in Ticks : SelectFund(t) \/ AdvanceOnce(t) \/ WalkEnds(t) \/ TickFails(t)

\* The interval of main.rs fires for ever, not every tick fails before its first
\* UPDATE, and one that has nothing left to do ends.
Fairness ==
  /\ SF_vars(\E t \in Ticks : SelectFund(t))
  /\ SF_vars(\E t \in Ticks : AdvanceOnce(t))
  /\ WF_vars(\E t \in Ticks : WalkEnds(t))

Spec == Init /\ [][Next]_vars

-----------------------------------------------------------------------------
(* Properties *)

\* "fund_balance is frozen" while the category is not a fund, even for a tick
\* that selected it when it was.
FrozenWhileDisabled == [][~ is_fund => fund_balance' = fund_balance]_vars

\* A fund that stays on is credited through the last boundary that has passed.
EventuallyCredited ==
  []<> ~ (Eligible /\ next_period_boundary(time_frame, fund_advanced_through) <= now)

=============================================================================
