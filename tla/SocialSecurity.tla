--------------------------- MODULE SocialSecurity ---------------------------
(***************************************************************************)
(* The Social Security arithmetic of core/src/social_security.rs.  Ages    *)
(* are counted in months from birth.  The factors are exact: FULL stands   *)
(* for the factor 1.0, and is the least unit in which the reductions of    *)
(* 5/9 and 5/12 of a percent a month and the credits, which are multiples  *)
(* of half a percent a year, are whole.                                    *)
(*                                                                         *)
(* A date is a record of its year and of md, its place in the year; md = 1 *)
(* is 1 January.                                                           *)
(***************************************************************************)
EXTENDS Integers

MIN_CLAIM_AGE_MONTHS == 62 * 12
MAX_CLAIM_AGE_MONTHS == 70 * 12

\* What claiming_adjustment answers for an age it refuses.
Refused == -1

\* The factor 1.0: a month early costs 40 or 30 of these, a month late earns
\* three for each half percent of yearly credit.
FULL == 7200

current_age(birth, date) ==
    date.year - birth.year - (IF date.md < birth.md THEN 1 ELSE 0)

\* SSA counts a birth on 1 January as one of the year before.
fra_birth_year(birth) == IF birth.md = 1 THEN birth.year - 1 ELSE birth.year

\* The full retirement age of a birth year, in months: two ramps of two months a
\* year between three plateaus.
full_retirement_age(year) ==
    IF year <= 1937 THEN 65 * 12
    ELSE IF year <= 1942 THEN 65 * 12 + 2 * (year - 1937)
    ELSE IF year <= 1954 THEN 66 * 12
    ELSE IF year <= 1959 THEN 66 * 12 + 2 * (year - 1954)
    ELSE 67 * 12

\* The delayed retirement credit of a birth year, in half percents a year.
delayed_credit(year) ==
    IF year <= 1924 THEN 6 ELSE IF year <= 1942 THEN 7 + (year - 1925) \div 2 ELSE 16

\* What claiming at an age does to the benefit at full retirement age.
adjustment_factor(age, fra, credit) ==
    LET n       == fra - age
        first   == IF n < 36 THEN n ELSE 36
        beyond  == IF n > 36 THEN n - 36 ELSE 0
        capped  == IF age < MAX_CLAIM_AGE_MONTHS THEN age ELSE MAX_CLAIM_AGE_MONTHS
        delayed == IF capped > fra THEN capped - fra ELSE 0
    IN  IF age = fra THEN FULL
        ELSE IF age < fra THEN FULL - 40 * first - 30 * beyond
        ELSE FULL + 3 * credit * delayed

\* The factor at an age for one who was born in a cohort.
FactorAt(age, year) ==
    adjustment_factor(age, full_retirement_age(year), delayed_credit(year))

check_claim_age(age) == age \in MIN_CLAIM_AGE_MONTHS .. MAX_CLAIM_AGE_MONTHS

\* A benefit quoted at one age, as the benefit at another: refused, never clamped,
\* outside the ages at which one can claim.
claiming_adjustment(benefit, quoted, claiming, birth) ==
    LET year == fra_birth_year(birth)
    IN  IF benefit < 0 \/ ~ check_claim_age(quoted) \/ ~ check_claim_age(claiming)
        THEN Refused
        ELSE (benefit * FactorAt(claiming, year)) \div FactorAt(quoted, year)
=============================================================================
