------------------------------ MODULE MCTicks ------------------------------
(***************************************************************************)
(* The two jobs of main.rs's hourly loop that depend on each other only    *)
(* through the clock: the renewal of a budget (AutoRenew) and the accrual  *)
(* of a fund (FundAccrual, whose names are used as they are).  They write  *)
(* different columns, so a behaviour shows one of them, chosen at first,   *)
(* while what belongs to the other rests.                                  *)
(*                                                                         *)
(* Histories.  base: the period the fund was last enabled in and its       *)
(* balance then.  retimed: the budget's time frame ever changed (a credit  *)
(* then covers another length of time).  stale: a request wrote, or is to  *)
(* write, columns computed from a row that had changed since it read it.   *)
(* crossed: another request changed it.                                    *)
(***************************************************************************)
EXTENDS FundAccrual

CONSTANTS Edits

VARIABLES job, budget, renewals, renewing, edit, base, retimed, stale, crossed

Renewal == INSTANCE AutoRenew WITH tick <- renewing

renewalVars == <<budget, renewals, renewing, edit>>
accrualVars == <<time_frame, archived, fund, tick, chat>>
jobs == <<job, now, renewalVars, accrualVars>>
history == <<base, retimed, stale, crossed>>

JobsInit ==
  /\ job \in {"renewal", "accrual"}
  /\ Init /\ base = [since |-> 0, balance |-> 0] /\ retimed = FALSE
  /\ Renewal!Init /\ stale = FALSE /\ crossed = FALSE
  /\ job = "renewal" => time_frame = "monthly"
  /\ job = "accrual" => budget.time_frame = "monthly"

Accrual ==
  /\ Next
  /\ base' = IF ~ is_fund /\ is_fund'
               THEN [since |-> PeriodStart(time_frame, now), balance |-> fund_balance]
               ELSE base
  /\ retimed' = (retimed \/ time_frame' # time_frame)
  /\ UNCHANGED <<renewalVars, stale, crossed>>

Reading == {e \in Edits : edit[e] # Idle}

\* stale: the row changed, or the month turned, under a request about to write.
Renewing ==
  /\ Renewal!Next
  /\ stale' = (stale \/ \E e \in Reading : edit'[e] = edit[e]
                                             /\ <<budget', now'>> # <<budget, now>>)
  /\ crossed' = (crossed \/ \E e \in Reading : \E d \in Edits \ {e} :
                              edit'[e] = edit[e] /\ edit'[d] # edit[d] /\ budget' # budget)
  /\ UNCHANGED <<accrualVars, base, retimed>>

JobsNext ==
  /\ UNCHANGED job
  /\ \/ job = "renewal" /\ Renewing
     \/ job = "accrual" /\ Accrual

\* The two Fairness formulas: of each pair only the job's own can be enabled.
Renews == job = "renewal" /\ UNCHANGED <<job, accrualVars>>
Credits == job = "accrual" /\ UNCHANGED <<job, renewalVars>>
Select(t) == (Renews /\ Renewal!SelectDue(t)) \/ (Credits /\ SelectFund(t))
Write(t) == (Renews /\ Renewal!Renew(t)) \/ (Credits /\ AdvanceOnce(t))
JobsFairness ==
  /\ SF_jobs(\E t \in Ticks : Select(t))
  /\ SF_jobs(\E t \in Ticks : Write(t))
  /\ WF_jobs(\E t \in Ticks : Credits /\ WalkEnds(t))

JobsSpec == JobsInit /\ [][JobsNext]_<<jobs, history>> /\ JobsFairness

JobsTypeOK == TypeOK /\ Renewal!TypeOK

\* Every period since the fund was last enabled is credited exactly once, and
\* none that ended while it was off: two ticks, a stale tick and a re-enabling
\* included.
CreditedOncePerPeriod ==
  is_fund /\ ~ retimed =>
    fund_balance = base.balance + (fund_advanced_through - base.since) \div Length(time_frame)

\* Overlapping ticks do the job of a period once: a budget is renewed at most once
\* for it, if no request wrote stale columns, and a fund is credited exactly once.
OncePerPeriodAlone == (stale \/ Renewal!RenewedOnce) /\ CreditedOncePerPeriod

\* Nothing but a tick or a request that asks for it clears a due renewal, unless
\* a request wrote over another's columns, and nothing credits a category while it
\* is no fund.
NoneSkippedOrForced ==
  [][crossed \/ Renewal!RenewalKept]_<<jobs, history>> /\ FrozenWhileDisabled

\* What is due is done, though ticks keep overlapping and failing.
DueIsDone == Renewal!EventuallyRenewed /\ EventuallyCredited
=============================================================================
