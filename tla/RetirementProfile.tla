------------------------- MODULE RetirementProfile -------------------------
(***************************************************************************)
(* One user's retirement profile: upsert_profile of                        *)
(* backend/src/retirement.rs, reached from REST, chat and MCP, with the    *)
(* merge and the validation of core/src/retirement.rs.                     *)
(*                                                                         *)
(* A writer is one transaction: it takes the user's advisory lock, reads   *)
(* the row, merges its input onto it and writes every column.  The fields  *)
(* kept are those a rule relates to another field or to the clock; the     *)
(* rates, the income and the employer match, which are merged alike and    *)
(* only have ranges, are the one field other.  Country and income are      *)
(* required on a create as the birth date is.                              *)
(***************************************************************************)
EXTENDS SocialSecurity, FiniteSets

CONSTANTS
    Writer,      \* requests in flight that save the profile
    Input,       \* the partial inputs they send
    Other,       \* values of the other fields, the first of them the default
    DefaultOther,
    Today,       \* the date at first
    Years,       \* how many birthdays may pass
    None,        \* a field the input leaves out, a column that is NULL, no row, no holder
    Fra          \* the age given as "fra", at my full retirement age

DEFAULT_TARGET_RETIREMENT_AGE     == 65
DEFAULT_LIFE_EXPECTANCY_AGE       == 90
MAX_PLAUSIBLE_LIFE_EXPECTANCY_AGE == 130
MAX_PLAUSIBLE_SS_MONTHLY_BENEFIT  == 10000

Date == [year : Int, md : Int]

\* An input: each of its fields is given or left out.
Given == [birth  : Date \cup {None}, target   : Int \cup {None}, life : Int \cup {None},
          other  : Other \cup {None}, benefit : Int \cup {None},
          quoted : Int \cup {Fra, None}, claiming : Int \cup {Fra, None}]

\* The months of an age, and whether it is an age said or the full retirement age.
Anchor == [months : Int, kind : {"fra", "explicit"}]

\* A row of retirement_profiles.
Profile == [birth  : Date, target : Int, life : Int, other : Other, benefit : Int \cup {None},
            quoted : Anchor \cup {None}, claiming : Anchor \cup {None}]

RetirementProfileAssumption ==
    /\ None \notin Writer \cup Other \cup Int \cup Date \cup Anchor \cup Profile
    /\ Fra \notin Int \cup {None}
    /\ DefaultOther \in Other
    /\ Input \subseteq Given
    /\ Today \in Date
    /\ Years \in Nat

VARIABLES
    row,      \* the row of retirement_profiles, or None
    lock,     \* who holds the user's advisory lock
    request,  \* per writer: idle, or its input, its date and the row it read
    today,
    said      \* per field, what an acknowledged write last gave it

vars == << row, lock, request, today, said >>

\* An edit of the other fields only.
Edit(o) == [birth |-> None, target |-> None, life |-> None, other |-> o,
            benefit |-> None, quoted |-> None, claiming |-> None]

NothingGiven == Edit(None)

Idle == [stage |-> "idle", input |-> None, date |-> None, seen |-> None]

-----------------------------------------------------------------------------
(* Merging and validating. *)

Supplied(given, else) == IF given = None THEN else ELSE given

FraMonths(birth) == full_retirement_age(fra_birth_year(birth))

\* The age a benefit is quoted at, or is to be claimed at: kept with its kind,
\* so that "at my full retirement age" follows a corrected birth date.
resolve_ss_anchor(given, stored, birth) ==
    IF given = Fra \/ (given = None /\ stored # None /\ stored.kind = "fra")
    THEN [months |-> FraMonths(birth), kind |-> "fra"]
    ELSE IF given # None THEN [months |-> 12 * given, kind |-> "explicit"]
    ELSE stored

Blank == [birth |-> None, target |-> DEFAULT_TARGET_RETIREMENT_AGE,
          life |-> DEFAULT_LIFE_EXPECTANCY_AGE, other |-> DefaultOther,
          benefit |-> None, quoted |-> None, claiming |-> None]

\* The input over the stored row, or over the defaults when there is none.
resolve_input(stored, input) ==
    LET base  == IF stored = None THEN Blank ELSE stored
        birth == Supplied(input.birth, base.birth)
    IN  [birth    |-> birth,
         target   |-> Supplied(input.target, base.target),
         life     |-> Supplied(input.life, base.life),
         other    |-> Supplied(input.other, base.other),
         benefit  |-> Supplied(input.benefit, base.benefit),
         quoted   |-> resolve_ss_anchor(input.quoted, base.quoted, birth),
         claiming |-> resolve_ss_anchor(input.claiming, base.claiming, birth)]

CanResolve(stored, input) == stored # None \/ input.birth # None

NotAfter(d, e) == d.year < e.year \/ (d.year = e.year /\ d.md <= e.md)

\* A stored target age is a fact of the past: only one this write chooses has to lie
\* ahead.  The default a create substitutes may lie behind, with a warning.
Ahead(p, input, date) == input.target # None => p.target > current_age(p.birth, date)

validate_profile(p, input, date) ==
    /\ NotAfter(p.birth, date)
    /\ p.life <= MAX_PLAUSIBLE_LIFE_EXPECTANCY_AGE
    /\ Ahead(p, input, date)
    /\ p.life > p.target
    /\ p.benefit # None =>
          /\ p.benefit \in 0 .. MAX_PLAUSIBLE_SS_MONTHLY_BENEFIT
          /\ p.quoted # None
    /\ \A anchor \in {p.quoted, p.claiming} \ {None} : check_claim_age(anchor.months)

\* What GET, PUT and the chat show of a row besides its columns.
social_security_view(p) ==
    LET ready  == None \notin {p.benefit, p.quoted, p.claiming}
        answer == IF ready
                  THEN claiming_adjustment(p.benefit, p.quoted.months, p.claiming.months, p.birth)
                  ELSE Refused
    IN  [adjusted    |-> answer,
         unavailable |-> ready /\ answer = Refused,
         applied     |-> ready /\ answer # Refused /\ p.quoted.months # p.claiming.months]

\* What was given, after one more input.
Overwritten(given, input) == [f \in DOMAIN given |-> Supplied(input[f], given[f])]

-----------------------------------------------------------------------------
Init ==
    /\ row = None
    /\ lock = None
    /\ request = [w \in Writer |-> Idle]
    /\ today = Today
    /\ said = NothingGiven

\* A request under way works on the date the handler was called on.
Opened(input) == [stage |-> "locked", input |-> input, date |-> today, seen |-> None]

\* Bug to catch: no advisory lock, and FOR UPDATE locks nothing that is not there.
LocksNoRow(w) ==
    /\ request[w].stage = "idle"
    /\ \E input \in Input : request' = [request EXCEPT ![w] = Opened(input)]
    /\ lock' = w
    /\ UNCHANGED << row, today, said >>

\* BEGIN and the advisory lock, which is on the user: there may be no row to lock.
TakesLock(w) ==
    /\ request[w].stage = "idle"
    /\ lock = None
    /\ \E input \in Input : request' = [request EXCEPT ![w] = Opened(input)]
    /\ lock' = w
    /\ UNCHANGED << row, today, said >>

FetchRow(w) ==
    /\ request[w].stage = "locked"
    /\ request' = [request EXCEPT ![w].stage = "read", ![w].seen = row]
    /\ UNCHANGED << row, lock, today, said >>

\* The whole row is written, from what was read; committing releases the lock, and the
\* caller is told.
Store(w) ==
    LET q        == request[w]
        resolved == resolve_input(q.seen, q.input)
    IN  /\ q.stage = "read"
        /\ CanResolve(q.seen, q.input)
        /\ validate_profile(resolved, q.input, q.date)
        /\ row' = resolved
        /\ said' = Overwritten(said, q.input)
        /\ request' = [request EXCEPT ![w] = Idle]
        /\ lock' = None
        /\ UNCHANGED today

\* A refusal, an error or a client that leaves rolls the transaction back.
RollBack(w) ==
    /\ request[w].stage # "idle"
    /\ request' = [request EXCEPT ![w] = Idle]
    /\ lock' = None
    /\ UNCHANGED << row, today, said >>

YearPasses ==
    /\ today.year < Today.year + Years
    /\ today' = [today EXCEPT !.year = @ + 1]
    /\ UNCHANGED << row, lock, request, said >>

Next ==
    \/ \E w \in Writer : TakesLock(w) \/ FetchRow(w) \/ Store(w) \/ RollBack(w)
    \/ YearPasses

Spec == Init /\ [][Next]_vars

-----------------------------------------------------------------------------
Request == [stage : {"idle", "locked", "read"}, input : Input \cup {None},
            date  : Date \cup {None}, seen : Profile \cup {None}]

TypeOK ==
    /\ row \in Profile \cup {None}
    /\ lock \in Writer \cup {None}
    /\ request \in [Writer -> Request]
    /\ today \in Date
    /\ said \in Given

\* A stored profile stays sound whatever partial writes and years go by: it plans past
\* the retirement it plans, an age that means "at my full retirement age" is the one of
\* the birth date stored beside it, the Social Security figures can be computed and a
\* figure shown as adjusted is there, and an edit of an unrelated field is never refused.
StoredStaysSound ==
    row # None =>
        /\ row.life > row.target
        /\ \A anchor \in {row.quoted, row.claiming} \ {None} :
              anchor.kind = "fra" => anchor.months = FraMonths(row.birth)
        /\ LET view == social_security_view(row)
           IN  ~ view.unavailable /\ (view.applied => view.adjusted # Refused)
        /\ \A o \in Other : validate_profile(resolve_input(row, Edit(o)), Edit(o), today)

Holds(anchor, given) ==
    /\ anchor # None
    /\ IF given = Fra THEN anchor.kind = "fra"
       ELSE anchor = [months |-> 12 * given, kind |-> "explicit"]

\* Row p holds each value that was given.
Keeps(p, given) ==
    \A f \in DOMAIN given :
        given[f] # None =>
            /\ p # None
            /\ IF f \in {"quoted", "claiming"} THEN Holds(p[f], given[f]) ELSE p[f] = given[f]

\* The promise of the lock: a field someone set, and was told was saved, keeps that
\* value until another write sets that very field, however many partial writes of
\* other fields run at the same time, the first ones that create the row included.
NothingLost == Keeps(row, said)

\* A profile written by several requests keeps what each was told, and stays sound.
ProfileKept == NothingLost /\ StoredStaysSound
=============================================================================
