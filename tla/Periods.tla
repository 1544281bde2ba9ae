------------------------------- MODULE Periods -------------------------------
(***************************************************************************)
(* Calendar periods (core/src/budget/period.rs) over time counted in       *)
(* months: a boundary at month m is the first instant of m.  A yearly      *)
(* budget differs from a quarterly one only in its length and is left out. *)
(***************************************************************************)
EXTENDS Integers

CONSTANTS MaxMonth,  \* the clock stops here
          None       \* SQL NULL

ASSUME MaxMonthAssumption == MaxMonth \in Nat
ASSUME NoneAssumption == None \notin Int

Months == 0 .. MaxMonth

TimeFrames == {"monthly", "quarterly"}

Length(tf) == IF tf = "quarterly" THEN 3 ELSE 1

\* The start of the period that contains t.
PeriodStart(tf, t) == t - (t % Length(tf))

\* Bug to catch: the boundary after the next one.
BoundaryAfterNext(tf, t) == PeriodStart(tf, t) + 2 * Length(tf)

next_period_boundary(tf, t) == PeriodStart(tf, t) + Length(tf)

=============================================================================
