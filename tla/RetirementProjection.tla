------------------------ MODULE RetirementProjection ------------------------
(***************************************************************************)
(* The retirement projection: core/src/retirement_projection.rs, with the  *)
(* request backend/src/retirement.rs assembles for it and the employer     *)
(* match of core/src/retirement.rs.                                        *)
(*                                                                         *)
(* The engine simulates the years from today to the life expectancy, once  *)
(* per income it tries, always under the same returns, and bisects for the *)
(* largest income that is paid every year.  The runs of all the incomes    *)
(* that can be tried are advanced here side by side, a year a step, under  *)
(* any sequence of returns (a path of the Monte Carlo; the deterministic   *)
(* path is the constant one), and bisected once the last year is over.     *)
(*                                                                         *)
(* Money is whole units a year, rounded down at each quotient; percents    *)
(* are whole.  The tax rate is such that the gross of a net is whole.      *)
(***************************************************************************)
EXTENDS SocialSecurity, FiniteSetsExt, Sequences

CONSTANTS
    Request,               \* what may be asked for: a profile with its assets
    Return,                \* real returns of a year, in percent
    BISECTION_ITERATIONS,
    None                   \* no Social Security, no cap, no balance reported

W_MAX  == 2 ^ BISECTION_ITERATIONS   \* so that every midpoint is whole
Target == 0 .. W_MAX

\* Treatments, plans and salaries are whole and not negative, birth dates and ages are what
\* the profile may hold, and a tax rate leaves a part of the gross that divides it.
RequestAssumption ==
    \A q \in Request :
        /\ {q.birth, q.today} \subseteq [year : Int, md : Int]
        /\ q.target \in Int /\ q.life \in Int
        /\ {q.gross, q.preTaxPct, q.rothPct} \subseteq Nat
        /\ q.tax \in Int /\ (q.tax = 100 \/ \E k \in 1 .. 100 : k * (100 - q.tax) = 100)
        /\ q.ss = None \/ q.ss \in [benefit : Nat, quoted : Int, claiming : Int]

RetirementProjectionAssumption ==
    /\ BISECTION_ITERATIONS \in Nat /\ W_MAX \in Nat
    /\ Return \subseteq -99 .. 1000
    /\ RequestAssumption

VARIABLES
    request,
    year,     \* years simulated, from today
    run,      \* per annual income tried: its accounts and its last year
    lo, hi,   \* the bisection
    round

vars == << request, year, run, lo, hi, round >>

AtMost(x, y)   == IF x < y THEN x ELSE y
NotBelow0(x)   == IF x > 0 THEN x ELSE 0
Percent(x, p)  == (x * p) \div 100
Grown(x, r)    == Percent(x, 100 + r)

-----------------------------------------------------------------------------
(* The request. *)

\* Closed assets would be counted again in the account they moved to; a balance
\* never reported is the sum of the holdings.
projection_buckets(assets) ==
    LET worth(a) == IF a.balance = None THEN a.holdings ELSE a.balance
        sum(kinds) == MapThenSumSet(worth,
                          {a \in assets : a.status = "active" /\ a.treatment \in kinds})
    IN  [pre_tax |-> sum({"pre_tax"}), roth |-> sum({"roth"}),
         taxable |-> sum({"taxable", "hsa", "other"})]

\* The match of each band of the employee's percentage, up to the cap.
employer_match(gross, pct, formula) ==
    LET from(k) == IF k = 1 THEN 0 ELSE formula.tiers[k - 1].up_to
        band(k) == NotBelow0(AtMost(pct, formula.tiers[k].up_to) - from(k))
        all     == MapThenSumSet(LAMBDA k : (gross * band(k) * formula.tiers[k].match) \div 10000,
                                 DOMAIN formula.tiers)
    IN  IF formula.cap = None THEN all ELSE AtMost(all, formula.cap)

CurrentAge(q) == NotBelow0(current_age(q.birth, q.today))

\* Nothing is simulated for a request that is refused.
Valid(q) ==
    /\ q.life > CurrentAge(q)
    /\ q.life >= q.target
    /\ q.tax \in 0 .. 100
    /\ q.ss # None => claiming_adjustment(q.ss.benefit, q.ss.quoted, q.ss.claiming, q.birth) # Refused

ss_annual(q) ==
    IF q.ss = None THEN 0
    ELSE 12 * claiming_adjustment(q.ss.benefit, q.ss.quoted, q.ss.claiming, q.birth)

accumulation_years(q) == NotBelow0(q.target - CurrentAge(q))
horizon_years(q)      == accumulation_years(q) + (q.life - q.target + 1)

\* What the accounts hold and what an employer adds are sums of numbers that are not
\* negative.
SumsAssumption ==
    \A q \in Request :
        /\ projection_buckets(q.assets) \in [pre_tax : Nat, roth : Nat, taxable : Nat]
        /\ employer_match(q.gross, q.preTaxPct + q.rothPct, q.formula) \in Nat

\* What halving the interval of the search leaves of it.
PowersAssumption ==
    /\ \A n \in 0 .. BISECTION_ITERATIONS : 2 ^ n \in Nat
    /\ \A n \in 0 .. BISECTION_ITERATIONS - 1 : 2 ^ (n + 1) = 2 * 2 ^ n

-----------------------------------------------------------------------------
(* A year of a run. *)

rmd_start_age(birth) == IF birth.year >= 1960 THEN 75 ELSE 73

\* Tenths of the divisors of the Uniform Lifetime Table, from age 73 to 120.
UNIFORM_LIFETIME_DIVISORS ==
    << 265, 255, 246, 237, 229, 220, 211, 202, 194, 185, 177, 168, 160, 152, 144, 137,
       129, 122, 115, 108, 101, 95, 89, 84, 78, 73, 68, 64, 60, 56, 52, 49,
       46, 43, 41, 39, 37, 35, 34, 33, 31, 30, 29, 28, 27, 25, 23, 20 >>

rmd(age, birth, preTax) ==
    IF age < rmd_start_age(birth) THEN 0
    ELSE (10 * preTax) \div UNIFORM_LIFETIME_DIVISORS[AtMost(age, 120) - 72]

\* A required distribution comes from both parts of the pre-tax account in proportion.
split_rmd(amount, own, employer) ==
    LET total   == own + employer
        fromOwn == IF total = 0 THEN 0 ELSE AtMost((amount * own) \div total, own)
    IN  [own |-> fromOwn, employer |-> AtMost(amount - fromOwn, employer)]

\* Bug to catch: the employer part is asked for the whole amount again.
TakesFromBoth(amount, own, employer) ==
    [own |-> AtMost(own, amount), employer |-> AtMost(amount, employer)]

\* Any other withdrawal empties the own part first.
take_pre_tax(amount, own, employer) ==
    LET fromOwn == AtMost(own, amount)
    IN  [own |-> fromOwn, employer |-> AtMost(amount - fromOwn, employer)]

\* A year of saving: the return on what was there, then the contributions.
accumulate_state(q, s, r) ==
    [s EXCEPT
        !.own      = Grown(@, r) + Percent(q.gross, q.preTaxPct),
        !.employer = Grown(@, r) + employer_match(q.gross, q.preTaxPct + q.rothPct, q.formula),
        !.roth     = Grown(@, r) + Percent(q.gross, q.rothPct),
        !.taxable  = Grown(@, r)]

\* A year of retirement: the return, the required distribution, Social Security, and
\* what is still needed from taxable, pre-tax (grossed up) and Roth, in this order.
decumulate(q, s, r, age, target) ==
    LET own0      == Grown(s.own, r)
        employer0 == Grown(s.employer, r)
        roth0     == Grown(s.roth, r)
        taxable0  == Grown(s.taxable, r)
        required  == rmd(age, q.birth, own0 + employer0)
        forced    == split_rmd(required, own0, employer0)
        own1      == own0 - forced.own
        employer1 == employer0 - forced.employer
        rmdNet    == Percent(required, 100 - q.tax)
        ss        == IF q.ss # None /\ age >= q.ss.claiming \div 12 THEN ss_annual(q) ELSE 0
        need      == NotBelow0(target - ss - rmdNet)
        taxable   == AtMost(taxable0, need)
        need1     == need - taxable
        preTax    == IF q.tax = 100 THEN own1 + employer1
                     ELSE AtMost(own1 + employer1, (need1 * 100) \div (100 - q.tax))
        taken     == take_pre_tax(preTax, own1, employer1)
        preTaxNet == Percent(preTax, 100 - q.tax)
        need2     == need1 - preTaxNet
        roth      == AtMost(roth0, need2)
        depleted  == need2 - roth > 0
        kept(x)   == IF depleted THEN 0 ELSE x
    IN  [own      |-> kept(own1 - taken.own),
         employer |-> kept(employer1 - taken.employer),
         roth     |-> kept(roth0 - roth),
         taxable  |-> kept(taxable0 - taxable),
         depleted |-> depleted,
         years    |-> s.years + 1,
         income   |-> ss + rmdNet + taxable + preTaxNet + roth,
         ss       |-> ss,
         untaxed  |-> taxable + roth,
         preTax   |-> forced.own + forced.employer + taken.own + taken.employer]

-----------------------------------------------------------------------------
Opening(q) ==
    LET buckets == projection_buckets(q.assets)
    IN  [own |-> buckets.pre_tax, employer |-> 0, roth |-> buckets.roth,
         taxable |-> buckets.taxable, depleted |-> FALSE, years |-> 0,
         income |-> 0, ss |-> 0, untaxed |-> 0, preTax |-> 0]

Init ==
    /\ request \in Request
    /\ year = 0
    /\ run = [w \in Target |-> Opening(request)]
    /\ lo = 0
    /\ hi = W_MAX
    /\ round = 0

\* A year goes by in every run that is not over: a run stops at the first year whose
\* income falls short.
Year(r) ==
    LET saving == accumulation_years(request)
    IN  /\ Valid(request)
        /\ year < horizon_years(request)
        /\ year' = year + 1
        /\ run' = [w \in Target |->
               IF run[w].depleted THEN run[w]
               ELSE IF year < saving THEN accumulate_state(request, run[w], r)
               ELSE decumulate(request, run[w], r, request.target + (year - saving), w)]
        /\ UNCHANGED << request, lo, hi, round >>

Simulated == Valid(request) /\ year = horizon_years(request)

Survives(w) == ~ run[w].depleted

\* Bug to catch: a run counts as survived that reached the last year, and failed in it.
ReachesLastYear ==
    LET mid == (lo + hi) \div 2
    IN  /\ Simulated
        /\ round < BISECTION_ITERATIONS
        /\ round' = round + 1
        /\ IF run[mid].years = request.life - request.target + 1
           THEN lo' = mid /\ hi' = hi
           ELSE lo' = lo /\ hi' = mid
        /\ UNCHANGED << request, year, run >>

\* One round of sustainable_annual_w_for_series.
Bisect ==
    LET mid == (lo + hi) \div 2
    IN  /\ Simulated
        /\ round < BISECTION_ITERATIONS
        /\ round' = round + 1
        /\ IF Survives(mid) THEN lo' = mid /\ hi' = hi ELSE lo' = lo /\ hi' = mid
        /\ UNCHANGED << request, year, run >>

Next == (\E r \in Return : Year(r)) \/ Bisect

Spec == Init /\ [][Next]_vars

-----------------------------------------------------------------------------
Solved == Simulated /\ round = BISECTION_ITERATIONS

\* The engine answers the middle of the last interval, rounded down here.
sustainable_annual_w == (lo + hi) \div 2

\* Twelve times deterministic_monthly_income, and the total of a path of the band.
headline == sustainable_annual_w + ss_annual(request)

TypeOK ==
    /\ year \in Nat /\ round \in 0 .. BISECTION_ITERATIONS
    /\ lo \in Target /\ hi \in Target
    /\ \A w \in Target :
          /\ run[w].depleted \in BOOLEAN /\ run[w].years \in Nat
          /\ {run[w].own, run[w].employer, run[w].roth, run[w].taxable} \subseteq Nat

\* The solve's answer and every smaller income is paid in every year, and no larger one
\* is, under the returns of its path; only the bound of the search caps it.
SolveIsTight ==
    Solved => \A w \in 0 .. W_MAX - 1 : Survives(w) <=> w <= sustainable_annual_w

Held(s) == s.own + s.employer + s.roth + s.taxable

\* A retirement year neither makes nor loses money: what leaves the accounts is what is
\* paid, pre-tax money less the tax, the year that empties them included; and it is
\* the income asked for, or more, unless the run ends there.
YearBalances ==
    \A r \in Return : Year(r) =>
        \A w \in Target : run'[w].years > run[w].years =>
            LET s     == run'[w]
                grown == Grown(run[w].own, r) + Grown(run[w].employer, r)
                           + Grown(run[w].roth, r) + Grown(run[w].taxable, r)
                net   == s.ss + s.untaxed + Percent(s.preTax, 100 - request.tax)
            IN  /\ Held(s) + s.untaxed + s.preTax = grown
                /\ s.income \in {net, net - 1}
                /\ s.depleted <=> s.income < w

BooksBalance == [][YearBalances]_vars

\* What the headline says can be paid: an income of the headline's size, Social
\* Security included, is paid in every year.
HeadlineIsPaid == Solved /\ headline \in Target => Survives(headline)
=============================================================================
