--------------------------- MODULE ConnectionsProofs ---------------------------
(***************************************************************************)
(* Proofs about MCConnections, for any inputs, users, accounts, workers    *)
(* and dates.  Each part has its inductive invariant: IInv of the profile  *)
(* says what a writer's memory of the row is worth while it holds the      *)
(* lock; InvestmentSafe and BankSafe say what a request may still believe  *)
(* of the accounts it has read, and BankSafe what the status of a row of   *)
(* linked_accounts says of the consent at the bank.                        *)
(***************************************************************************)
EXTENDS MCConnections, Sequences, FiniteSetTheorems, WellFoundedInduction, TLAPS

-----------------------------------------------------------------------------
(* The tables of Social Security. *)

\* Full retirement age lies between 65 and 67, whatever the year of birth
\* (full_retirement_age).
LEMMA FullRetirementAgeRange ==
    ASSUME NEW born \in Int
    PROVE  full_retirement_age(born) \in 780 .. 804
BY DEF full_retirement_age

\* The yearly credit is between 3 and 8 percent (delayed_credit_pct_per_year).
LEMMA CreditRange ==
    ASSUME NEW born \in Int
    PROVE  delayed_credit(born) \in 6 .. 16
BY DEF delayed_credit

\* Within the ages at which one can claim, nobody gets less than seven tenths of the
\* full benefit, so that claiming_adjustment never divides by zero.
LEMMA FactorRange ==
    ASSUME NEW born \in Int, NEW age \in MIN_CLAIM_AGE_MONTHS .. MAX_CLAIM_AGE_MONTHS
    PROVE  FactorAt(age, born) \in Int /\ FactorAt(age, born) >= 5040
<1> DEFINE fra == full_retirement_age(born)
           credit == delayed_credit(born)
<1>1. fra \in 780 .. 804
  BY FullRetirementAgeRange
<1>2. credit \in 6 .. 16
  BY CreditRange
<1>3. FactorAt(age, born) = adjustment_factor(age, fra, credit)
  BY DEF FactorAt
<1> HIDE DEF fra, credit
<1>4. age \in 744 .. 840
  BY DEF MIN_CLAIM_AGE_MONTHS, MAX_CLAIM_AGE_MONTHS
<1>5. CASE age = fra
  BY <1>1, <1>3, <1>5 DEF adjustment_factor, FULL
<1>6. CASE age < fra
  BY <1>1, <1>3, <1>4, <1>6 DEF adjustment_factor, FULL
<1>7. CASE age > fra
  <2> DEFINE capped == IF age < MAX_CLAIM_AGE_MONTHS THEN age ELSE MAX_CLAIM_AGE_MONTHS
             delayed == IF capped > fra THEN capped - fra ELSE 0
  <2>1. adjustment_factor(age, fra, credit) = FULL + 3 * credit * delayed
    BY <1>1, <1>4, <1>7 DEF adjustment_factor
  <2>2. delayed \in Nat
    BY <1>1, <1>4, <1>7 DEF MAX_CLAIM_AGE_MONTHS
  <2>3. 3 * credit * delayed \in Nat
    <3> HIDE DEF delayed
    <3> QED BY <2>2, <1>2
  <2> QED BY <2>1, <2>3, <1>3 DEF FULL
<1> QED BY <1>1, <1>4, <1>5, <1>6, <1>7

\* The renormalization of a legal figure is answered, with no negative benefit.
LEMMA AdjustmentAnswers ==
    ASSUME NEW benefit \in Nat, NEW birth \in Date,
           NEW quoted \in MIN_CLAIM_AGE_MONTHS .. MAX_CLAIM_AGE_MONTHS,
           NEW claiming \in MIN_CLAIM_AGE_MONTHS .. MAX_CLAIM_AGE_MONTHS
    PROVE  claiming_adjustment(benefit, quoted, claiming, birth) # Refused
<1> DEFINE born == fra_birth_year(birth)
           above == FactorAt(claiming, born)
           below == FactorAt(quoted, born)
<1>1. born \in Int
  BY DEF fra_birth_year, Date
<1>2. /\ above \in Int /\ above >= 5040
      /\ below \in Int /\ below >= 5040
  BY <1>1, FactorRange
<1>3. claiming_adjustment(benefit, quoted, claiming, birth) = (benefit * above) \div below
  BY DEF claiming_adjustment, check_claim_age
<1> HIDE DEF above, below
<1>4. benefit * above \in Nat
  BY <1>2
<1>5. (benefit * above) \div below >= 0
  <2> DEFINE product == benefit * above
  <2> SUFFICES product \div below >= 0
    OBVIOUS
  <2>1. product \in Nat
    BY <1>4
  <2> HIDE DEF product
  <2> QED BY <2>1, <1>2
<1> QED BY <1>3, <1>5, <1>2, <1>4 DEF Refused

-----------------------------------------------------------------------------
(* Merging and validating. *)

Sound(p, date) ==
    /\ NotAfter(p.birth, date)
    /\ p.life <= MAX_PLAUSIBLE_LIFE_EXPECTANCY_AGE
    /\ p.life > p.target
    /\ p.benefit # None => p.benefit \in Nat /\ p.quoted # None
    /\ p.benefit # None => p.benefit <= MAX_PLAUSIBLE_SS_MONTHLY_BENEFIT
    /\ \A anchor \in {p.quoted, p.claiming} \ {None} :
          /\ check_claim_age(anchor.months)
          /\ anchor.kind = "fra" => anchor.months = FraMonths(p.birth)

\* Dates are ordered.
LEMMA NotAfterTransitive ==
    ASSUME NEW a \in Date, NEW b \in Date, NEW c \in Date, NotAfter(a, b), NotAfter(b, c)
    PROVE  NotAfter(a, c)
BY DEF NotAfter, Date

\* The full retirement age of a birth date is a number of months.
LEMMA FraMonthsType ==
    ASSUME NEW birth \in Date
    PROVE  FraMonths(birth) \in Int
<1>1. fra_birth_year(birth) \in Int
  BY DEF fra_birth_year, Date
<1> QED BY <1>1, FullRetirementAgeRange DEF FraMonths

\* An anchor is taken from the input, or kept with its kind; one that means the full
\* retirement age is the one of the merged birth date (resolve_ss_anchor).
LEMMA AnchorResolved ==
    ASSUME RetirementProfileAssumption,
           NEW given \in Int \cup {Fra, None}, NEW stored \in Anchor \cup {None},
           NEW birth \in Date
    PROVE  /\ resolve_ss_anchor(given, stored, birth) \in Anchor \cup {None}
           /\ /\ resolve_ss_anchor(given, stored, birth) # None
              /\ resolve_ss_anchor(given, stored, birth).kind = "fra"
              => resolve_ss_anchor(given, stored, birth).months = FraMonths(birth)
           /\ given # None => Holds(resolve_ss_anchor(given, stored, birth), given)
           /\ given = None => \A was \in Int \cup {Fra} :
                 Holds(stored, was) => Holds(resolve_ss_anchor(given, stored, birth), was)
<1> USE DEF RetirementProfileAssumption
<1>0. FraMonths(birth) \in Int
  BY FraMonthsType
<1>1. [months |-> FraMonths(birth), kind |-> "fra"] # None
  BY <1>0 DEF Anchor
<1> QED BY <1>0, <1>1 DEF resolve_ss_anchor, Anchor, Holds

\* An anchor the input leaves out stays as it is while the birth date does.
LEMMA AnchorKept ==
    ASSUME RetirementProfileAssumption, NEW stored \in Anchor \cup {None}, NEW birth,
           stored # None /\ stored.kind = "fra" => stored.months = FraMonths(birth)
    PROVE  resolve_ss_anchor(None, stored, birth) = stored
<1> USE DEF RetirementProfileAssumption
<1>1. CASE stored # None /\ stored.kind = "fra"
  <2>1. stored = [months |-> FraMonths(birth), kind |-> "fra"]
    BY <1>1 DEF Anchor
  <2> QED BY <1>1, <2>1 DEF resolve_ss_anchor
<1>2. CASE ~ (stored # None /\ stored.kind = "fra")
  BY <1>2 DEF resolve_ss_anchor
<1> QED BY <1>1, <1>2

\* The merge of an input onto a row, or onto the defaults when the input names the
\* required fields, is a profile (resolve_input).
LEMMA Resolved ==
    ASSUME RetirementProfileAssumption,
           NEW stored \in Profile \cup {None}, NEW input \in Given, CanResolve(stored, input)
    PROVE  resolve_input(stored, input) \in Profile
<1> USE DEF RetirementProfileAssumption
<1> DEFINE base  == IF stored = None THEN Blank ELSE stored
           birth == Supplied(input.birth, base.birth)
<1>1. birth \in Date
  BY DEF Supplied, CanResolve, Given, Profile, Blank
<1>2. /\ Supplied(input.target, base.target) \in Int
      /\ Supplied(input.life, base.life) \in Int
      /\ Supplied(input.other, base.other) \in Other
      /\ Supplied(input.benefit, base.benefit) \in Int \cup {None}
  BY DEF Supplied, Given, Profile, Blank, DEFAULT_TARGET_RETIREMENT_AGE, DEFAULT_LIFE_EXPECTANCY_AGE
<1>3. /\ base.quoted \in Anchor \cup {None} /\ base.claiming \in Anchor \cup {None}
      /\ input.quoted \in Int \cup {Fra, None} /\ input.claiming \in Int \cup {Fra, None}
  BY DEF Given, Profile, Blank
<1> HIDE DEF base, birth
<1>4. /\ resolve_ss_anchor(input.quoted, base.quoted, birth) \in Anchor \cup {None}
      /\ resolve_ss_anchor(input.claiming, base.claiming, birth) \in Anchor \cup {None}
  BY <1>1, <1>3, AnchorResolved
<1> QED BY <1>1, <1>2, <1>4 DEF resolve_input, Profile, base, birth

\* A benefit that is accepted is a natural number, and bounded.
LEMMA PlausibleBenefit ==
    \A n \in 0 .. MAX_PLAUSIBLE_SS_MONTHLY_BENEFIT :
        n \in Nat /\ n <= MAX_PLAUSIBLE_SS_MONTHLY_BENEFIT
BY DEF MAX_PLAUSIBLE_SS_MONTHLY_BENEFIT

\* What is validated is sound on the day of the request, if its anchors that mean the
\* full retirement age are those of its birth date (validate_profile).
LEMMA ValidIsSound ==
    ASSUME NEW p \in Profile, NEW input \in Given, NEW date \in Date,
           validate_profile(p, input, date),
           p.quoted # None /\ p.quoted.kind = "fra" => p.quoted.months = FraMonths(p.birth),
           p.claiming # None /\ p.claiming.kind = "fra" => p.claiming.months = FraMonths(p.birth)
    PROVE  Sound(p, date)
<1>1. /\ NotAfter(p.birth, date)
      /\ p.life <= MAX_PLAUSIBLE_LIFE_EXPECTANCY_AGE
      /\ p.life > p.target
  BY DEF validate_profile
<1>2. p.benefit # None => p.benefit \in 0 .. MAX_PLAUSIBLE_SS_MONTHLY_BENEFIT /\ p.quoted # None
  BY Zenon DEF validate_profile
<1>3. p.benefit # None =>
          p.benefit \in Nat /\ p.benefit <= MAX_PLAUSIBLE_SS_MONTHLY_BENEFIT
  BY <1>2, PlausibleBenefit, Zenon
<1>4. \A anchor \in {p.quoted, p.claiming} \ {None} : check_claim_age(anchor.months)
  BY DEF validate_profile
<1> QED BY <1>1, <1>2, <1>3, <1>4 DEF Sound

\* What is written of a merge that is validated is sound.
LEMMA MergedIsSound ==
    ASSUME RetirementProfileAssumption,
           NEW stored \in Profile \cup {None}, NEW input \in Given, CanResolve(stored, input),
           NEW date \in Date, validate_profile(resolve_input(stored, input), input, date)
    PROVE  Sound(resolve_input(stored, input), date)
<1> DEFINE p    == resolve_input(stored, input)
           base == IF stored = None THEN Blank ELSE stored
<1>1. p \in Profile
  BY Resolved
<1>2. /\ base.quoted \in Anchor \cup {None} /\ base.claiming \in Anchor \cup {None}
      /\ input.quoted \in Int \cup {Fra, None} /\ input.claiming \in Int \cup {Fra, None}
  BY DEF Given, Profile, Blank
<1>3. /\ p.quoted = resolve_ss_anchor(input.quoted, base.quoted, p.birth)
      /\ p.claiming = resolve_ss_anchor(input.claiming, base.claiming, p.birth)
  BY DEF resolve_input
<1>4. p.birth \in Date
  BY <1>1 DEF Profile
<1>5. validate_profile(p, input, date)
  OBVIOUS
<1> HIDE DEF p, base
<1>6. /\ p.quoted # None /\ p.quoted.kind = "fra" => p.quoted.months = FraMonths(p.birth)
      /\ p.claiming # None /\ p.claiming.kind = "fra" => p.claiming.months = FraMonths(p.birth)
  <2> DEFINE quoted   == resolve_ss_anchor(input.quoted, base.quoted, p.birth)
             claiming == resolve_ss_anchor(input.claiming, base.claiming, p.birth)
  <2>1. quoted # None /\ quoted.kind = "fra" => quoted.months = FraMonths(p.birth)
    BY <1>2, <1>4, AnchorResolved
  <2>2. claiming # None /\ claiming.kind = "fra" => claiming.months = FraMonths(p.birth)
    BY <1>2, <1>4, AnchorResolved
  <2> HIDE DEF quoted, claiming
  <2>3. p.quoted = quoted /\ p.claiming = claiming
    BY <1>3 DEF quoted, claiming
  <2> QED BY <2>1, <2>2, <2>3
<1>7. Sound(p, date)
  BY <1>1, <1>5, <1>6, ValidIsSound
<1> QED BY <1>7 DEF p

\* A sound profile shows its Social Security figures, and takes an edit of any other
\* field, though its target age has passed (social_security_view, validate_profile).
LEMMA SoundIsUsable ==
    ASSUME RetirementProfileAssumption,
           NEW p \in Profile, NEW date \in Date, Sound(p, date)
    PROVE  /\ ~ social_security_view(p).unavailable
           /\ social_security_view(p).applied => social_security_view(p).adjusted # Refused
           /\ \A o \in Other :
                 validate_profile(resolve_input(p, Edit(o)), Edit(o), date)
<1> USE DEF RetirementProfileAssumption
<1>1. ASSUME None \notin {p.benefit, p.quoted, p.claiming}
      PROVE  claiming_adjustment(p.benefit, p.quoted.months, p.claiming.months, p.birth) # Refused
  <2>1. /\ p.benefit \in Nat /\ p.birth \in Date
        /\ p.quoted.months \in MIN_CLAIM_AGE_MONTHS .. MAX_CLAIM_AGE_MONTHS
        /\ p.claiming.months \in MIN_CLAIM_AGE_MONTHS .. MAX_CLAIM_AGE_MONTHS
    BY <1>1 DEF Sound, check_claim_age, Profile
  <2> QED BY <2>1, AdjustmentAnswers
<1>2. /\ ~ social_security_view(p).unavailable
      /\ social_security_view(p).applied => social_security_view(p).adjusted # Refused
  BY <1>1 DEF social_security_view
<1>3. ASSUME NEW o \in Other
      PROVE  validate_profile(resolve_input(p, Edit(o)), Edit(o), date)
  <2> DEFINE edit == Edit(o)
             q    == resolve_input(p, edit)
  <2>1. /\ edit.birth = None /\ edit.target = None /\ edit.life = None /\ edit.benefit = None
        /\ edit.quoted = None /\ edit.claiming = None
    BY DEF Edit
  <2>2. p # None /\ p.birth \in Date
        /\ p.quoted \in Anchor \cup {None} /\ p.claiming \in Anchor \cup {None}
    BY DEF Profile
  <2>3. /\ resolve_ss_anchor(None, p.quoted, p.birth) = p.quoted
        /\ resolve_ss_anchor(None, p.claiming, p.birth) = p.claiming
    <3>1. /\ p.quoted # None /\ p.quoted.kind = "fra" => p.quoted.months = FraMonths(p.birth)
          /\ p.claiming # None /\ p.claiming.kind = "fra" => p.claiming.months = FraMonths(p.birth)
      BY DEF Sound
    <3> QED BY <2>2, <3>1, AnchorKept
  <2> HIDE DEF edit
  <2>4. /\ q.birth = p.birth /\ q.target = p.target /\ q.life = p.life /\ q.benefit = p.benefit
        /\ q.quoted = p.quoted /\ q.claiming = p.claiming
    BY <2>1, <2>2, <2>3 DEF resolve_input, Supplied
  <2> HIDE DEF q
  <2>5. validate_profile(q, edit, date)
    BY <2>1, <2>4 DEF validate_profile, Sound, Ahead, Profile
  <2> QED BY <2>5 DEF q, edit
<1> QED BY <1>2, <1>3

\* A sound profile stays sound as the days go by.
LEMMA SoundLater ==
    ASSUME NEW p \in Profile, NEW d \in Date, NEW e \in Date, Sound(p, d), NotAfter(d, e)
    PROVE  Sound(p, e)
<1>1. p.birth \in Date
  BY DEF Profile
<1>2. NotAfter(p.birth, d)
  BY DEF Sound
<1>3. NotAfter(p.birth, e)
  BY <1>1, <1>2, NotAfterTransitive
<1> QED BY <1>3 DEF Sound

-----------------------------------------------------------------------------
(* What was given. *)

\* What was given stays a set of given fields after one more input.
LEMMA OverwrittenType ==
    ASSUME NEW given \in Given, NEW input \in Given
    PROVE  Overwritten(given, input) \in Given
BY DEF Overwritten, Supplied, Given

\* A merge holds what its input gives, and of the rest what the row it was read from
\* held (resolve_input).
LEMMA MergeKeeps ==
    ASSUME RetirementProfileAssumption,
           NEW stored \in Profile \cup {None}, NEW input \in Given, CanResolve(stored, input),
           NEW given \in Given, Keeps(stored, given)
    PROVE  Keeps(resolve_input(stored, input), Overwritten(given, input))
<1> USE DEF RetirementProfileAssumption
<1> DEFINE p     == resolve_input(stored, input)
           after == Overwritten(given, input)
           base  == IF stored = None THEN Blank ELSE stored
<1>1. p \in Profile /\ p # None
  BY Resolved
<1>2. DOMAIN given = {"birth", "target", "life", "other", "benefit", "quoted", "claiming"}
  BY DEF Given
<1>3. \A f \in DOMAIN given : after[f] = Supplied(input[f], given[f])
  BY DEF Overwritten
<1>4. DOMAIN after = DOMAIN given
  BY DEF Overwritten
<1>5. \A f \in DOMAIN given : given[f] # None => stored # None /\ base = stored
  BY DEF Keeps
<1>6. ASSUME NEW f \in {"birth", "target", "life", "other", "benefit"}, after[f] # None
      PROVE  p[f] = after[f]
  <2>1. p[f] = Supplied(input[f], base[f])
    BY DEF resolve_input
  <2>2. given[f] # None => stored[f] = given[f]
    BY <1>2 DEF Keeps
  <2> HIDE DEF p, base, after
  <2> QED BY <1>2, <1>3, <1>5, <1>6, <2>1, <2>2 DEF Supplied
<1>7. ASSUME NEW f \in {"quoted", "claiming"}, after[f] # None
      PROVE  Holds(p[f], after[f])
  <2>1. p[f] = resolve_ss_anchor(input[f], base[f], p.birth)
    BY DEF resolve_input
  <2>2. /\ base[f] \in Anchor \cup {None} /\ input[f] \in Int \cup {Fra, None}
        /\ given[f] \in Int \cup {Fra, None} /\ p.birth \in Date
    BY <1>1 DEF Given, Profile, Blank
  <2>3. given[f] # None => Holds(stored[f], given[f])
    BY <1>2 DEF Keeps
  <2> HIDE DEF p, base, after
  <2>4. CASE input[f] # None
    <3>1. after[f] = input[f]
      BY <1>2, <1>3, <2>4 DEF Supplied
    <3>2. Holds(resolve_ss_anchor(input[f], base[f], p.birth), input[f])
      BY <2>2, <2>4, AnchorResolved
    <3> QED BY <2>1, <3>1, <3>2
  <2>5. CASE input[f] = None
    <3>1. after[f] = given[f] /\ given[f] \in Int \cup {Fra}
      BY <1>2, <1>3, <1>7, <2>2, <2>5 DEF Supplied
    <3>2. Holds(base[f], given[f])
      BY <1>2, <1>5, <1>7, <2>3, <3>1
    <3>3. input[f] = None => \A was \in Int \cup {Fra} :
              Holds(base[f], was) => Holds(resolve_ss_anchor(input[f], base[f], p.birth), was)
      BY <2>2, AnchorResolved
    <3> QED BY <2>1, <2>5, <3>1, <3>2, <3>3
  <2> QED BY <2>4, <2>5
<1> HIDE DEF p, after
<1>8. Keeps(p, after)
  BY <1>1, <1>2, <1>4, <1>6, <1>7 DEF Keeps
<1> QED BY <1>8 DEF p, after

-----------------------------------------------------------------------------
(* The writers. *)

\* Writer w, while its transaction is open, holds the lock, works on the date it was
\* called on, and what it has read is still the row.
Reads(w) ==
    request[w].stage # "idle" =>
        /\ lock = w
        /\ request[w].input \in Input
        /\ request[w].date \in Date
        /\ NotAfter(request[w].date, today)
        /\ request[w].stage = "read" => request[w].seen = row

\* What every state satisfies, and every step keeps.
IInv ==
    /\ TypeOK
    /\ row # None => Sound(row, today)
    /\ \A w \in Writer : Reads(w)
    /\ NothingLost

\* Nothing has been saved yet.
LEMMA Start ==
    ASSUME RetirementProfileAssumption, Init
    PROVE  IInv
<1> USE DEF RetirementProfileAssumption, Init
<1>1. Idle \in Request
  BY DEF Idle, Request
<1>2. request \in [Writer -> Request] /\ \A w \in Writer : request[w].stage = "idle"
  BY <1>1 DEF Idle
<1>3. said \in Given /\ \A f \in DOMAIN said : said[f] = None
  BY DEF NothingGiven, Edit, Given
<1> QED BY <1>2, <1>3 DEF IInv, TypeOK, Reads, NothingLost, Keeps

\* A writer takes the lock only when nobody is working (upsert_profile's advisory lock).
LEMMA LockKeeps ==
    ASSUME RetirementProfileAssumption, IInv, NEW w \in Writer, TakesLock(w)
    PROVE  IInv'
<1> USE DEF RetirementProfileAssumption, TakesLock
<1>1. PICK input \in Input : request' = [request EXCEPT ![w] = Opened(input)]
  OBVIOUS
<1>2. Opened(input) \in Request
  BY DEF Opened, Request, IInv, TypeOK
<1>3. /\ request \in [Writer -> Request] /\ today \in Date
      /\ \A v \in Writer : request[v].stage = "idle"
  BY DEF IInv, TypeOK, Reads
<1>4. request' \in [Writer -> Request]
  BY <1>1, <1>2, <1>3 DEF Request
<1>5. \A v \in Writer : Reads(v)'
  <2> SUFFICES ASSUME NEW v \in Writer PROVE Reads(v)'
    OBVIOUS
  <2>1. CASE v = w
    BY <1>1, <1>2, <1>3, <2>1 DEF Opened, Reads, NotAfter, Date
  <2>2. CASE v # w
    BY <1>1, <1>3, <2>2 DEF Reads
  <2> QED BY <2>1, <2>2
<1> QED BY <1>4, <1>5 DEF IInv, TypeOK, NothingLost

\* What a writer reads under the lock is the row (fetch_profile_in_tx).
LEMMA FetchKeeps ==
    ASSUME RetirementProfileAssumption, IInv, NEW w \in Writer, FetchRow(w)
    PROVE  IInv'
<1> USE DEF RetirementProfileAssumption, FetchRow
<1>1. /\ request \in [Writer -> Request] /\ row \in Profile \cup {None}
      /\ \A v \in Writer : Reads(v)
  BY DEF IInv, TypeOK
<1>2. request[w] \in Request
  BY <1>1
<1>3. request'[w] = [stage |-> "read", input |-> request[w].input,
                     date |-> request[w].date, seen |-> row]
  BY <1>1, <1>2 DEF Request
<1>4. request' \in [Writer -> Request]
  BY <1>1, <1>2, <1>3 DEF Request
<1>5. \A v \in Writer : v # w => request'[v] = request[v]
  BY <1>1
<1>6. \A v \in Writer : Reads(v)'
  BY <1>1, <1>3, <1>5 DEF Reads
<1> QED BY <1>4, <1>6 DEF IInv, TypeOK, NothingLost

\* A writer that saves writes a sound row that keeps what was given, and no other
\* writer has read the row it replaces (save_profile_in_tx).
LEMMA StoreKeeps ==
    ASSUME RetirementProfileAssumption, IInv, NEW w \in Writer, Store(w)
    PROVE  IInv'
<1> USE DEF RetirementProfileAssumption
<1> DEFINE q        == request[w]
           resolved == resolve_input(row, q.input)
<1>1. /\ q.stage = "read" /\ q.seen = row /\ q.input \in Given /\ q.date \in Date
      /\ NotAfter(q.date, today) /\ lock = w
  BY DEF IInv, Reads, Store
<1>2. /\ row \in Profile \cup {None} /\ today \in Date /\ said \in Given
      /\ request \in [Writer -> Request] /\ Keeps(row, said)
  BY DEF IInv, TypeOK, NothingLost
<1>3. /\ CanResolve(row, q.input) /\ validate_profile(resolved, q.input, q.date)
      /\ row' = resolved /\ said' = Overwritten(said, q.input)
      /\ request' = [request EXCEPT ![w] = Idle] /\ lock' = None /\ today' = today
  BY <1>1 DEF Store
<1>4. row' \in Profile
  BY <1>1, <1>2, <1>3, Resolved
<1>5. Sound(row', today')
  <2>1. Sound(resolved, q.date)
    BY <1>1, <1>2, <1>3, MergedIsSound
  <2> HIDE DEF resolved, q
  <2> QED BY <1>1, <1>2, <1>3, <1>4, <2>1, SoundLater
<1>6. said' \in Given /\ Keeps(row', said')
  BY <1>1, <1>2, <1>3, OverwrittenType, MergeKeeps
<1>7. request' \in [Writer -> Request]
  BY <1>2, <1>3 DEF Idle, Request
<1>8. \A v \in Writer : request'[v].stage = "idle"
  BY <1>1, <1>2, <1>3 DEF IInv, Reads, Idle
<1> QED BY <1>2, <1>3, <1>4, <1>5, <1>6, <1>7, <1>8 DEF IInv, TypeOK, Reads, NothingLost

\* A rollback leaves the row as it was.
LEMMA RollBackKeeps ==
    ASSUME RetirementProfileAssumption, IInv, NEW w \in Writer, RollBack(w)
    PROVE  IInv'
<1> USE DEF RetirementProfileAssumption, RollBack
<1>1. request \in [Writer -> Request] /\ \A v \in Writer : Reads(v)
  BY DEF IInv, TypeOK
<1>2. request' \in [Writer -> Request]
  BY <1>1 DEF Idle, Request
<1>3. \A v \in Writer : request'[v].stage = "idle"
  BY <1>1 DEF Reads, Idle
<1> QED BY <1>2, <1>3 DEF IInv, TypeOK, Reads, NothingLost

\* A year that passes makes nothing unsound: only a target age this write chooses is
\* compared with the clock.
LEMMA YearKeeps ==
    ASSUME RetirementProfileAssumption, IInv, YearPasses
    PROVE  IInv'
<1> USE DEF RetirementProfileAssumption, YearPasses
<1>1. today \in Date /\ row \in Profile \cup {None}
  BY DEF IInv, TypeOK
<1>2. today' \in Date /\ NotAfter(today, today')
  BY <1>1 DEF Date, NotAfter
<1>3. row # None => Sound(row, today')
  BY <1>1, <1>2, SoundLater DEF IInv
<1>4. \A w \in Writer : Reads(w)'
  <2> SUFFICES ASSUME NEW w \in Writer, request[w].stage # "idle"
               PROVE  Reads(w)'
    BY DEF Reads
  <2>1. Reads(w)
    BY DEF IInv
  <2>2. NotAfter(request[w].date, today')
    BY <1>1, <1>2, <2>1, NotAfterTransitive DEF Reads
  <2> QED BY <2>1, <2>2 DEF Reads
<1> QED BY <1>2, <1>3, <1>4 DEF IInv, TypeOK, NothingLost

\* Every step keeps the invariant.
LEMMA StepKeeps ==
    ASSUME RetirementProfileAssumption, IInv, [Next]_vars
    PROVE  IInv'
<1>1. CASE UNCHANGED vars
  BY <1>1 DEF vars, IInv, TypeOK, Reads, NothingLost
<1>2. CASE \E w \in Writer : TakesLock(w) \/ FetchRow(w) \/ Store(w) \/ RollBack(w)
  BY <1>2, LockKeeps, FetchKeeps, StoreKeeps, RollBackKeeps
<1>3. CASE YearPasses
  BY <1>3, YearKeeps
<1> QED BY <1>1, <1>2, <1>3 DEF Next

\* The invariant gives the property.
LEMMA InvariantSuffices ==
    ASSUME RetirementProfileAssumption, IInv
    PROVE  ProfileKept
<1>1. row # None => row \in Profile /\ today \in Date /\ Sound(row, today)
  BY DEF IInv, TypeOK
<1>2. StoredStaysSound
  BY <1>1, SoundIsUsable DEF StoredStaysSound, Sound
<1> QED BY <1>2 DEF ProfileKept, IInv

\* Whatever the inputs, the writers and the years: a field somebody was told was saved
\* keeps its value until a write sets that very field, and the stored profile can
\* always be shown and edited (upsert_profile).
THEOREM ProfileIsKept ==
    ASSUME RetirementProfileAssumption
    PROVE  Spec => [](TypeOK /\ ProfileKept)
<1>1. Init => IInv
  BY Start
<1>2. IInv /\ [Next]_vars => IInv'
  BY StepKeeps
<1>3. IInv => TypeOK /\ ProfileKept
  BY InvariantSuffices DEF IInv
<1> QED BY <1>1, <1>2, <1>3, PTL DEF Spec

-----------------------------------------------------------------------------
(* Investments. *)

StoreWork   == [at : {"store"}, item : Budget, todo : SUBSET Acct]
InsertWork  == [at : {"insert"}, of : Acct, item : Budget]
PollWork    == [at : {"poll"}, todo : SUBSET Investments!Polled]
FetchWork   == [at : {"fetch"}, of : Acct, item : Budget, asset : Assets,
                todo : SUBSET Investments!Polled]
WriteWork   == [at : {"holdings", "balance"}, of : Acct, item : Budget, asset : Assets,
                todo : SUBSET Investments!Polled, got : Investments!Snapshots]
RemoveWork  == [at : {"remove", "disconnect"}, item : Budget]
InvestmentWork ==
  {Investments!Idle} \union [at : {"exchange"}] \union StoreWork \union InsertWork
    \union PollWork \union FetchWork \union WriteWork \union RemoveWork

InvestmentTypes ==
  /\ Investments!TypeOK
  /\ overlapped \in BOOLEAN /\ ragged \in BOOLEAN /\ relinked \subseteq Acct

\* The row of the account is still the one that was read, unless the Item is gone.
Current(a, i) ==
  i \in serving => \/ a \in relinked
                   \/ account[a] # None /\ account[a].item = i /\ account[a].status = "active"

LinkedStill(a) == a \in relinked \/ account[a].status = "active"

\* What a request remembers is worth this much, whatever the others did since.
Remembers(r) ==
  /\ r.at \in {"store", "insert", "fetch", "holdings", "balance", "remove", "disconnect"} =>
       r.item \in items
  /\ r.at = "disconnect" => r.item \notin serving
  /\ r.at = "insert" => account[r.of] # None
  /\ r.at \in {"insert", "fetch"} => Current(r.of, r.item)
  /\ r.at \in {"fetch", "holdings", "balance"} => asset[r.asset] # None /\ asset[r.asset].of = r.of
  /\ r.at \in {"holdings", "balance"} =>
       (asset[r.asset].status = "active" => LinkedStill(r.of))
  /\ r.at \in {"poll", "fetch", "holdings", "balance"} =>
       \A p \in r.todo : p[2] \in items /\ Current(p[1], p[2])

AccountsSound ==
  /\ \A a \in Acct : account[a] # None => account[a].item \in items
  /\ \A a \in Acct : account[a] # None /\ account[a].status = "disconnected" =>
       account[a].item \notin serving

AssetsSound ==
  \A x \in Assets : asset[x] # None =>
    /\ account[asset[x].of] # None
    /\ asset[x].status = "active" /\ (asset[x].holdings # None \/ asset[x].balance # None) =>
         LinkedStill(asset[x].of)

RequestsSound == \A w \in Worker : Remembers(working[w])

\* While requests come one at a time, an account has one asset at most, and the two
\* figures of an asset differ only between the two writes of a sync.
Busy(w) == working[w] # Investments!Idle
BetweenWrites(x) == \E w \in Worker : working[w].at = "balance" /\ working[w].asset = x
OneByOne ==
  ~ overlapped =>
    /\ \A v, w \in Worker : Busy(v) /\ Busy(w) => v = w
    /\ \A x, y \in Assets :
         asset[x] # None /\ asset[y] # None /\ asset[x].of = asset[y].of => x = y
    /\ \A w \in Worker, x \in Assets :
         working[w].at = "insert" /\ asset[x] # None => asset[x].of # working[w].of
    /\ \A w \in Worker :
         working[w].at = "balance" => asset[working[w].asset].holdings = working[w].got
    /\ ~ ragged => \A x \in Assets :
         asset[x] # None => asset[x].holdings = asset[x].balance \/ BetweenWrites(x)

InvestmentSafe ==
  InvestmentTypes /\ AccountsSound /\ AssetsSound /\ RequestsSound /\ OneByOne


\* The types of a request by its stage.
LEMMA WorkKinds ==
    ASSUME NEW r \in InvestmentWork
    PROVE  /\ r.at = "store" => r \in StoreWork
           /\ r.at = "insert" => r \in InsertWork
           /\ r.at = "poll" => r \in PollWork
           /\ r.at = "fetch" => r \in FetchWork
           /\ r.at \in {"holdings", "balance"} => r \in WriteWork
           /\ r.at \in {"remove", "disconnect"} => r \in RemoveWork
           /\ r.at \in {"idle", "exchange", "store", "insert", "poll", "fetch", "holdings",
                        "balance", "remove", "disconnect"}
           /\ r.at = "idle" <=> r = Investments!Idle
BY DEF InvestmentWork, StoreWork, InsertWork, PollWork, FetchWork, WriteWork, RemoveWork,
       Investments!Idle

LEMMA WorkTyped ==
    ASSUME InvestmentTypes
    PROVE  \A w \in Worker : working[w] \in InvestmentWork
BY DEF InvestmentTypes, Investments!TypeOK, InvestmentWork, StoreWork, InsertWork, PollWork,
       FetchWork, WriteWork, RemoveWork, Investments!Idle

\* Put, on a table of requests.
LEMMA WorkPut ==
    ASSUME InvestmentTypes, NEW w \in Worker, NEW r \in InvestmentWork, Investments!Put(w, r)
    PROVE  /\ working' \in [Worker -> InvestmentWork]
           /\ working'[w] = r
           /\ \A v \in Worker : v # w => working'[v] = working[v]
<1>1. working \in [Worker -> InvestmentWork]
  BY DEF InvestmentTypes, Investments!TypeOK, InvestmentWork, StoreWork, InsertWork, PollWork,
       FetchWork, WriteWork, RemoveWork, Investments!Idle
<1> QED BY <1>1 DEF Investments!Put


LEMMA InvestmentStart ==
    ASSUME Investments!HoldingsAssumption, Investments!MCInit
    PROVE  InvestmentSafe
<1> USE DEF Investments!MCInit, Investments!Init
<1>1. InvestmentTypes
  <2>1. snapshot \in Investments!Snapshots
    BY DEF Investments!Snapshots, Investments!HoldingsAssumption, Investments!HoldingsAssumption
  <2>2. working \in [Worker -> {Investments!Idle}]
    OBVIOUS
  <2>3. account \in [Acct -> {None}] /\ asset \in [Assets -> {None}]
    OBVIOUS
  <2>4. session \in [Session -> {"none", "pending", "completed"}]
    OBVIOUS
  <2> QED BY <2>1, <2>2, <2>3, <2>4 DEF InvestmentTypes, Investments!TypeOK
<1> USE DEF Investments!Idle
<1>2. AccountsSound /\ AssetsSound
  BY DEF AccountsSound, AssetsSound
<1>3. RequestsSound
  BY DEF RequestsSound, Remembers
<1>4. OneByOne
  BY DEF OneByOne, Busy
<1> QED BY <1>1, <1>2, <1>3, <1>4 DEF InvestmentSafe

\* A step that only moves one request on.
LEMMA WorkKeeps ==
    ASSUME InvestmentSafe, NEW w \in Worker, NEW r \in InvestmentWork, Investments!Put(w, r),
           UNCHANGED << serving, items, snapshot, account, asset, relinked >>,
           pro' \in BOOLEAN, session' \in [Session -> {"none", "pending", "completed"}],
           overlapped' \in BOOLEAN, ragged' \in BOOLEAN,
           Remembers(r), r.at # "balance",
           ~ overlapped' => ~ overlapped /\ \A v \in Worker : Busy(v) => v = w,
           ~ overlapped' => (r.at = "insert" => \A x \in Assets : asset[x] # None => asset[x].of # r.of),
           ~ ragged' => ~ ragged /\ working[w].at # "balance"
    PROVE  InvestmentSafe'
<1>1. /\ working' \in [Worker -> InvestmentWork]
      /\ working'[w] = r
      /\ \A v \in Worker : v # w => working'[v] = working[v]
  BY WorkPut DEF InvestmentSafe
<1>2. InvestmentTypes'
  BY <1>1 DEF InvestmentSafe, InvestmentTypes, Investments!TypeOK, InvestmentWork, StoreWork,
       InsertWork, PollWork, FetchWork, WriteWork, RemoveWork, Investments!Idle
<1>3. AccountsSound'
  BY DEF InvestmentSafe, AccountsSound
<1>4. AssetsSound'
  BY DEF InvestmentSafe, AssetsSound, LinkedStill
<1>5. RequestsSound'
  <2> SUFFICES ASSUME NEW v \in Worker, NEW q, q = working'[v] PROVE Remembers(q)'
    BY DEF RequestsSound
  <2>1. Remembers(q)
    BY <1>1 DEF InvestmentSafe, RequestsSound
  <2> QED BY <2>1 DEF Remembers, Current, LinkedStill
<1>6. OneByOne'
  <2> SUFFICES ASSUME ~ overlapped' PROVE OneByOne'
    BY DEF OneByOne
  <2>1. \A u, v \in Worker : Busy(u)' /\ Busy(v)' => u = v
    BY <1>1 DEF Busy
  <2>2. \A u \in Worker, x \in Assets :
          working'[u].at = "insert" /\ asset'[x] # None => asset'[x].of # working'[u].of
    BY <1>1 DEF InvestmentSafe, OneByOne
  <2>3. ASSUME ~ ragged', NEW x \in Assets, asset'[x] # None
        PROVE  asset'[x].holdings = asset'[x].balance \/ BetweenWrites(x)'
    BY <1>1, <2>3 DEF InvestmentSafe, OneByOne, BetweenWrites
  <2>4. \A x, y \in Assets :
         asset'[x] # None /\ asset'[y] # None /\ asset'[x].of = asset'[y].of => x = y
    BY DEF InvestmentSafe, OneByOne
  <2>5. \A u \in Worker :
          working'[u].at = "balance" => asset'[working'[u].asset].holdings = working'[u].got
    BY <1>1 DEF InvestmentSafe, OneByOne
  <2> QED BY <2>1, <2>2, <2>3, <2>4, <2>5 DEF OneByOne
<1> QED BY <1>2, <1>3, <1>4, <1>5, <1>6 DEF InvestmentSafe

\* A request begins.
LEMMA StartKeeps ==
    ASSUME Investments!HoldingsAssumption, InvestmentSafe, NEW w \in Worker, Investments!Starting(w),
           overlapped' = (overlapped \/ \E v \in Worker : working[v] # Investments!Idle),
           UNCHANGED << ragged, relinked >>
    PROVE  InvestmentSafe'
<1> DEFINE Goes(r) == r \in InvestmentWork /\ Remembers(r) /\ Investments!Put(w, r)
<1>1. working[w] = Investments!Idle
  BY DEF Investments!Starting, Investments!ClaimSession, Investments!classify,
         Investments!refresh_investment_account, Investments!ReadAccount,
         Investments!poll_investment_accounts
<1>2. working[w].at # "balance"
  BY <1>1 DEF Investments!Idle
<1>3. overlapped' \in BOOLEAN /\ ragged' \in BOOLEAN /\ (~ ragged' => ~ ragged)
  BY DEF InvestmentSafe, InvestmentTypes
<1>4. ~ overlapped' => ~ overlapped /\ \A v \in Worker : Busy(v) => v = w
  BY DEF Busy
<1>5. /\ account \in [Acct -> Investments!Rows \union {None}]
      /\ asset \in [Assets -> Investments!AssetRows \union {None}]
      /\ session \in [Session -> {"none", "pending", "completed"}] /\ pro \in BOOLEAN
  BY DEF InvestmentSafe, InvestmentTypes, Investments!TypeOK
<1> HIDE DEF Goes
<1>6. ASSUME UNCHANGED << serving, items, snapshot, account, asset, pro >>,
             session' \in [Session -> {"none", "pending", "completed"}],
             NEW r, Goes(r), r.at # "balance",
             r.at = "insert" => \A x \in Assets : asset[x] # None => asset[x].of # r.of
      PROVE  InvestmentSafe'
  <2>1. r \in InvestmentWork /\ Remembers(r) /\ Investments!Put(w, r)
    BY <1>6 DEF Goes
  <2>2. pro' \in BOOLEAN
    BY <1>5, <1>6
  <2> QED BY <1>2, <1>3, <1>4, <1>6, <2>1, <2>2, WorkKeeps
<1>7. ASSUME NEW s \in Session, Investments!ClaimSession(w, s)
      PROVE  InvestmentSafe'
  <2> DEFINE r == [at |-> "exchange"]
  <2>1. r \in InvestmentWork /\ Remembers(r)
    BY DEF InvestmentWork, Remembers
  <2>2. Goes(r)
    BY <2>1, <1>7 DEF Goes, Investments!ClaimSession
  <2>3. /\ UNCHANGED << serving, items, snapshot, account, asset, pro >>
        /\ session' \in [Session -> {"none", "pending", "completed"}]
    BY <1>5, <1>7 DEF Investments!ClaimSession, Investments!plaid
  <2> QED BY <2>2, <2>3, <1>6
<1>8. ASSUME NEW s \in Session, NEW a \in Acct, Investments!classify(w, s, a)
      PROVE  InvestmentSafe'
  <2>1. /\ UNCHANGED << serving, items, snapshot, account, asset, pro, session >>
        /\ account[a] # None
    BY <1>8 DEF Investments!classify, Investments!plaid
  <2>2. CASE Investments!AssetsOf(a) # {}
    <3>1. working' = working
      BY <1>8, <2>2 DEF Investments!classify
    <3>2. working[w] \in InvestmentWork /\ Investments!Put(w, working[w])
      BY <3>1, WorkTyped DEF InvestmentSafe, InvestmentTypes, Investments!TypeOK, Investments!Put
    <3>3. Goes(working[w])
      BY <3>2 DEF Goes, InvestmentSafe, RequestsSound
    <3>4. working[w].at \notin {"insert", "balance"}
      BY <1>1 DEF Investments!Idle
    <3> QED BY <1>5, <1>6, <2>1, <3>3, <3>4
  <2>3. CASE Investments!AssetsOf(a) = {}
    <3> DEFINE r == [at |-> "insert", of |-> a, item |-> account[a].item]
    <3>1. account[a] \in Investments!Rows /\ account[a].item \in items
          /\ (account[a].status = "active" \/ account[a].item \notin serving)
      BY <2>1, <1>5 DEF InvestmentSafe, AccountsSound, Investments!Rows
    <3>2. r \in InvestmentWork
      BY <3>1 DEF InvestmentWork, InsertWork, Investments!Rows
    <3>3. Remembers(r)
      BY <2>1, <3>1 DEF Remembers, Current
    <3>4. Goes(r)
      BY <1>8, <2>3, <3>2, <3>3 DEF Goes, Investments!classify
    <3>5. \A x \in Assets : asset[x] # None => asset[x].of # r.of
      BY <2>3 DEF Investments!AssetsOf
    <3>6. r.at # "balance"
      OBVIOUS
    <3> HIDE DEF r
    <3> QED BY <1>5, <1>6, <2>1, <3>4, <3>5, <3>6
  <2> QED BY <2>2, <2>3
<1>9. ASSUME NEW a \in Acct, Investments!refresh_investment_account(w, a)
      PROVE  InvestmentSafe'
  <2>1. /\ UNCHANGED << serving, items, snapshot, account, asset, pro, session >>
        /\ account[a] # None /\ account[a].status = "active"
    BY <1>9 DEF Investments!refresh_investment_account, Investments!plaid
  <2>2. PICK x \in Investments!Active(a) :
          Investments!Put(w, [at |-> "fetch", of |-> a, item |-> account[a].item, asset |-> x,
                              todo |-> {}])
    BY <1>9 DEF Investments!refresh_investment_account
  <2>3. x \in Assets /\ asset[x] # None /\ asset[x].of = a
    BY DEF Investments!Active, Investments!AssetsOf
  <2> DEFINE r == [at |-> "fetch", of |-> a, item |-> account[a].item, asset |-> x, todo |-> {}]
  <2>4. account[a] \in Investments!Rows /\ account[a].item \in items
    BY <2>1, <1>5 DEF InvestmentSafe, AccountsSound
  <2>5. r \in InvestmentWork
    BY <2>3, <2>4 DEF InvestmentWork, FetchWork, Investments!Rows
  <2>6. Remembers(r)
    BY <2>1, <2>3, <2>4 DEF Remembers, Current
  <2>7. Goes(r)
    BY <2>2, <2>5, <2>6 DEF Goes
  <2>8. r.at \notin {"insert", "balance"}
    OBVIOUS
  <2> HIDE DEF r
  <2> QED BY <1>5, <1>6, <2>1, <2>7, <2>8
<1>10. ASSUME NEW a \in Acct, Investments!ReadAccount(w, a)
      PROVE  InvestmentSafe'
  <2>1. /\ UNCHANGED << serving, items, snapshot, account, asset, pro, session >>
        /\ account[a] # None
    BY <1>10 DEF Investments!ReadAccount, Investments!plaid
  <2> DEFINE r == [at |-> "remove", item |-> account[a].item]
  <2>2. account[a] \in Investments!Rows /\ account[a].item \in items
    BY <2>1, <1>5 DEF InvestmentSafe, AccountsSound
  <2>3. r \in InvestmentWork
    BY <2>2 DEF InvestmentWork, RemoveWork, Investments!Rows
  <2>4. Remembers(r)
    BY <2>2 DEF Remembers
  <2>5. Goes(r)
    BY <1>10, <2>3, <2>4 DEF Goes, Investments!ReadAccount
  <2>6. r.at \notin {"insert", "balance"}
    OBVIOUS
  <2> HIDE DEF r
  <2> QED BY <1>5, <1>6, <2>1, <2>5, <2>6
<1>11. ASSUME Investments!poll_investment_accounts(w)
       PROVE  InvestmentSafe'
  <2> DEFINE polled == {b \in Acct : /\ account[b] # None /\ account[b].status = "active"
                                     /\ Investments!Active(b) # {}}
             todo == {<<a, account[a].item>> : a \in polled}
             r == [at |-> "poll", todo |-> todo]
  <2>1. /\ UNCHANGED << serving, items, snapshot, account, asset, pro, session >>
        /\ Investments!Put(w, r)
    BY <1>11 DEF Investments!poll_investment_accounts, Investments!plaid
  <2>2. \A p \in todo : \E a \in Acct :
          /\ p = <<a, account[a].item>> /\ account[a] # None /\ account[a].status = "active"
    OBVIOUS
  <2> HIDE DEF todo
  <2>3. \A p \in todo : /\ p \in Acct \X Budget /\ p[2] \in items
                        /\ Current(p[1], p[2])
    <3> SUFFICES ASSUME NEW p \in todo
                 PROVE  /\ p \in Acct \X Budget /\ p[2] \in items
                        /\ Current(p[1], p[2])
      OBVIOUS
    <3>1. PICK a \in Acct :
            p = <<a, account[a].item>> /\ account[a] # None /\ account[a].status = "active"
      BY <2>2
    <3>2. account[a] \in Investments!Rows /\ account[a].item \in items
      BY <3>1, <1>5 DEF InvestmentSafe, AccountsSound
    <3>3. p[1] = a /\ p[2] = account[a].item /\ p \in Acct \X Budget
      BY <3>1, <3>2 DEF Investments!Rows
    <3> QED BY <3>1, <3>2, <3>3 DEF Current
  <2>4. r \in PollWork
    BY <2>3 DEF PollWork, Investments!Polled
  <2>5. r \in InvestmentWork
    BY <2>4 DEF InvestmentWork
  <2>6. Remembers(r)
    BY <2>3 DEF Remembers
  <2>7. Goes(r)
    BY <2>1, <2>5, <2>6 DEF Goes
  <2>8. r.at \notin {"insert", "balance"}
    OBVIOUS
  <2> HIDE DEF r
  <2> QED BY <1>5, <1>6, <2>1, <2>7, <2>8
<1> QED BY <1>7, <1>8, <1>9, <1>10, <1>11 DEF Investments!Starting

\* Where a request goes after a sync, whether that ended or failed.
LEMMA AfterSyncGoes ==
    ASSUME InvestmentSafe, NEW w \in Worker,
           working[w].at \in {"fetch", "holdings", "balance"},
           Investments!AfterSync(w) \/ Investments!End(w)
    PROVE  \E r \in InvestmentWork :
              Investments!Put(w, r) /\ Remembers(r) /\ r.at \in {"idle", "poll"}
<1>1. Remembers(working[w]) /\ working[w] \in InvestmentWork
  BY WorkTyped DEF InvestmentSafe, RequestsSound
<1>2. working[w] \in FetchWork \union WriteWork
  BY <1>1, WorkKinds
<1>3. CASE Investments!End(w)
  <2>1. Investments!Put(w, Investments!Idle)
    BY <1>3 DEF Investments!End
  <2>2. Investments!Idle \in InvestmentWork /\ Remembers(Investments!Idle)
        /\ Investments!Idle.at = "idle"
    BY DEF InvestmentWork, Remembers, Investments!Idle
  <2> QED BY <2>1, <2>2
<1>4. CASE Investments!AfterSync(w) /\ ~ Investments!End(w)
  <2> DEFINE r == [at |-> "poll", todo |-> working[w].todo]
  <2>1. Investments!Put(w, r)
    BY <1>4 DEF Investments!AfterSync
  <2>2. r \in InvestmentWork
    BY <1>2 DEF InvestmentWork, PollWork, FetchWork, WriteWork
  <2>3. Remembers(r)
    BY <1>1 DEF Remembers
  <2> QED BY <2>1, <2>2, <2>3
<1> QED BY <1>3, <1>4

\* A request fails, or there is no balance to write.
LEMMA FailureKeeps ==
    ASSUME InvestmentSafe, NEW w \in Worker,
           Investments!Fails(w) \/ Investments!BalanceNotReported(w),
           ragged' = TRUE, UNCHANGED << overlapped, relinked >>
    PROVE  InvestmentSafe'
<1>1. Busy(w)
  BY WorkTyped, WorkKinds DEF Busy, Investments!Fails, Investments!BalanceNotReported,
     InvestmentSafe
<1>2. UNCHANGED << serving, items, snapshot, account, asset, pro, session >>
  BY DEF Investments!Fails, Investments!BalanceNotReported, Investments!plaid
<1>3. \E r \in InvestmentWork :
        Investments!Put(w, r) /\ Remembers(r) /\ r.at \in {"idle", "poll"}
  <2>1. CASE working[w].at \in {"fetch", "holdings", "balance"}
    <3>1. Investments!AfterSync(w) \/ Investments!End(w)
      BY <2>1 DEF Investments!Fails, Investments!BalanceNotReported
    <3> QED BY <2>1, <3>1, AfterSyncGoes
  <2>2. CASE working[w].at \notin {"fetch", "holdings", "balance"}
    <3>1. Investments!Put(w, Investments!Idle)
      BY <2>2 DEF Investments!Fails, Investments!BalanceNotReported, Investments!End
    <3>2. Investments!Idle \in InvestmentWork /\ Remembers(Investments!Idle)
          /\ Investments!Idle.at = "idle"
      BY DEF InvestmentWork, Remembers, Investments!Idle
    <3> QED BY <3>1, <3>2
  <2> QED BY <2>1, <2>2
<1>4. PICK r \in InvestmentWork :
        Investments!Put(w, r) /\ Remembers(r) /\ r.at \in {"idle", "poll"}
  BY <1>3
<1>5. overlapped' \in BOOLEAN /\ ragged' \in BOOLEAN /\ pro' \in BOOLEAN
      /\ session' \in [Session -> {"none", "pending", "completed"}]
  BY <1>2 DEF InvestmentSafe, InvestmentTypes, Investments!TypeOK
<1>6. ~ overlapped' => ~ overlapped /\ \A v \in Worker : Busy(v) => v = w
  BY <1>1 DEF InvestmentSafe, OneByOne
<1> QED BY <1>2, <1>4, <1>5, <1>6, WorkKeeps

\* The accounts a request links again while they are linked to another Item.
RelinkedNow ==
  {a \in Acct : account[a] # None /\ account[a].status = "active"
                  /\ account'[a].item # account[a].item}

\* A poll goes on, or a sync asks Plaid: nothing but the request changes.
LEMMA PollNextKeeps ==
    ASSUME InvestmentSafe, NEW w \in Worker, Investments!PollNext(w),
           UNCHANGED << overlapped, ragged >>, relinked' = relinked \union RelinkedNow
    PROVE  InvestmentSafe'
<1>1. working[w].at = "poll" /\ working[w] \in InvestmentWork /\ Remembers(working[w])
  BY WorkTyped DEF Investments!PollNext, InvestmentSafe, RequestsSound
<1>2. UNCHANGED << serving, items, snapshot, account, asset, pro, session >>
  BY DEF Investments!PollNext, Investments!plaid
<1>3. PICK p \in working[w].todo :
        LET rest == working[w].todo \ {p}
        IN IF pro /\ Investments!Active(p[1]) # {}
             THEN \E x \in Investments!Active(p[1]) :
                    Investments!Put(w, [at |-> "fetch", of |-> p[1], item |-> p[2], asset |-> x, todo |-> rest])
             ELSE IF rest = {} THEN Investments!End(w)
                  ELSE Investments!Put(w, [at |-> "poll", todo |-> rest])
  BY DEF Investments!PollNext
<1>4. working[w] \in PollWork
  BY <1>1, WorkKinds
<1> DEFINE rest == working[w].todo \ {p}
<1>5. /\ rest \subseteq Investments!Polled
      /\ p \in Investments!Polled /\ p[2] \in items /\ Current(p[1], p[2])
      /\ \A q \in rest : q[2] \in items /\ Current(q[1], q[2])
  BY <1>1, <1>4 DEF PollWork, Remembers
<1>6. \E r \in InvestmentWork :
        Investments!Put(w, r) /\ Remembers(r) /\ r.at \in {"idle", "poll", "fetch"}
  <2>1. CASE pro /\ Investments!Active(p[1]) # {}
    <3>1. PICK x \in Investments!Active(p[1]) :
            Investments!Put(w, [at |-> "fetch", of |-> p[1], item |-> p[2], asset |-> x, todo |-> rest])
      BY <1>3, <2>1
    <3>2. x \in Assets /\ asset[x] # None /\ asset[x].of = p[1]
      BY DEF Investments!Active, Investments!AssetsOf
    <3> HIDE DEF rest
    <3> DEFINE r == [at |-> "fetch", of |-> p[1], item |-> p[2], asset |-> x, todo |-> rest]
    <3>3. p[1] \in Acct /\ p[2] \in Budget
      BY <1>5 DEF Investments!Polled
    <3>4. r \in InvestmentWork
      BY <1>5, <3>2, <3>3 DEF InvestmentWork, FetchWork
    <3>5. Remembers(r)
      BY <1>5, <3>2 DEF Remembers
    <3> QED BY <3>1, <3>4, <3>5
  <2>2. CASE ~ (pro /\ Investments!Active(p[1]) # {}) /\ rest = {}
    <3>1. Investments!Put(w, Investments!Idle)
      BY <1>3, <2>2 DEF Investments!End
    <3>2. Investments!Idle \in InvestmentWork /\ Remembers(Investments!Idle)
          /\ Investments!Idle.at = "idle"
      BY DEF InvestmentWork, Remembers, Investments!Idle
    <3> QED BY <3>1, <3>2
  <2>3. CASE ~ (pro /\ Investments!Active(p[1]) # {}) /\ rest # {}
    <3> DEFINE r == [at |-> "poll", todo |-> rest]
    <3>1. Investments!Put(w, r)
      BY <1>3, <2>3
    <3> HIDE DEF rest
    <3>2. r \in InvestmentWork
      BY <1>5 DEF InvestmentWork, PollWork
    <3>3. Remembers(r)
      BY <1>5 DEF Remembers
    <3> QED BY <3>1, <3>2, <3>3
  <2> QED BY <2>1, <2>2, <2>3
<1>7. PICK r \in InvestmentWork :
        Investments!Put(w, r) /\ Remembers(r) /\ r.at \in {"idle", "poll", "fetch"}
  BY <1>6
<1>8. overlapped' \in BOOLEAN /\ ragged' \in BOOLEAN /\ pro' \in BOOLEAN
      /\ session' \in [Session -> {"none", "pending", "completed"}]
  BY <1>2 DEF InvestmentSafe, InvestmentTypes, Investments!TypeOK
<1>9. ~ overlapped' => ~ overlapped /\ \A v \in Worker : Busy(v) => v = w
  BY <1>1 DEF InvestmentSafe, OneByOne, Busy, Investments!Idle
<1>10. relinked' = relinked
  BY <1>2 DEF RelinkedNow
<1> QED BY <1>1, <1>2, <1>7, <1>8, <1>9, <1>10, WorkKeeps

LEMMA FetchKeepsAll ==
    ASSUME Investments!HoldingsAssumption, InvestmentSafe, NEW w \in Worker, Investments!Fetch(w),
           UNCHANGED << overlapped, ragged >>, relinked' = relinked \union RelinkedNow
    PROVE  InvestmentSafe'
<1>1. working[w].at = "fetch" /\ working[w] \in InvestmentWork /\ Remembers(working[w])
      /\ working[w].item \in serving
  BY WorkTyped DEF Investments!Fetch, InvestmentSafe, RequestsSound
<1>2. UNCHANGED << serving, items, snapshot, account, asset, pro, session >>
  BY DEF Investments!Fetch, Investments!plaid
<1>3. working[w] \in FetchWork
  BY <1>1, WorkKinds
<1> DEFINE r == [at |-> "holdings", of |-> working[w].of, item |-> working[w].item,
                 asset |-> working[w].asset, todo |-> working[w].todo, got |-> snapshot]
<1>4. Investments!Put(w, r)
  BY DEF Investments!Fetch
<1>5. snapshot \in Investments!Snapshots
  BY DEF InvestmentSafe, InvestmentTypes, Investments!TypeOK
<1>6. r \in InvestmentWork
  BY <1>3, <1>5 DEF InvestmentWork, FetchWork, WriteWork
<1>7. Remembers(r)
  BY <1>1 DEF Remembers, Current, LinkedStill
<1>8. r.at \notin {"insert", "balance"}
  OBVIOUS
<1> HIDE DEF r
<1>9. overlapped' \in BOOLEAN /\ ragged' \in BOOLEAN /\ pro' \in BOOLEAN
      /\ session' \in [Session -> {"none", "pending", "completed"}]
  BY <1>2 DEF InvestmentSafe, InvestmentTypes, Investments!TypeOK
<1>10. ~ overlapped' => ~ overlapped /\ \A v \in Worker : Busy(v) => v = w
  BY <1>1 DEF InvestmentSafe, OneByOne, Busy, Investments!Idle
<1>11. relinked' = relinked
  BY <1>2 DEF RelinkedNow
<1> QED BY <1>1, <1>2, <1>4, <1>6, <1>7, <1>8, <1>9, <1>10, <1>11, WorkKeeps

\* A step of a request that changes what all requests share.
LEMMA SharedKeeps ==
    ASSUME InvestmentSafe, NEW w \in Worker, NEW r \in InvestmentWork, Investments!Put(w, r),
           UNCHANGED << snapshot, pro, session, overlapped, ragged >>,
           serving' \subseteq items', items' \subseteq Budget,
           account' \in [Acct -> Investments!Rows \union {None}],
           asset' \in [Assets -> Investments!AssetRows \union {None}],
           relinked' \subseteq Acct,
           AccountsSound', AssetsSound', OneByOne',
           Remembers(r)', \A q \in InvestmentWork : Remembers(q) => Remembers(q)'
    PROVE  InvestmentSafe'
<1>1. /\ working' \in [Worker -> InvestmentWork]
      /\ working'[w] = r
      /\ \A v \in Worker : v # w => working'[v] = working[v]
  BY WorkPut DEF InvestmentSafe
<1>2. InvestmentTypes'
  BY <1>1 DEF InvestmentSafe, InvestmentTypes, Investments!TypeOK, InvestmentWork, StoreWork,
       InsertWork, PollWork, FetchWork, WriteWork, RemoveWork, Investments!Idle
<1>3. RequestsSound'
  <2> SUFFICES ASSUME NEW v \in Worker, NEW q, q = working'[v] PROVE Remembers(q)'
    BY DEF RequestsSound
  <2>1. CASE v = w
    BY <1>1, <2>1
  <2>2. CASE v # w
    <3>1. q \in InvestmentWork /\ Remembers(q)
      BY <1>1, <2>2, WorkTyped DEF InvestmentSafe, RequestsSound
    <3> QED BY <3>1
  <2> QED BY <2>1, <2>2
<1> QED BY <1>2, <1>3 DEF InvestmentSafe

\* Steps that touch no figures and insert nothing leave the assets as they were, one by one.
LEMMA OneByOneKept ==
    ASSUME InvestmentSafe, NEW w \in Worker, NEW r \in InvestmentWork, Investments!Put(w, r),
           Busy(w), working[w].at # "balance", r.at \notin {"insert", "balance"},
           UNCHANGED << overlapped, ragged >>,
           \A x \in Assets : asset'[x] # None =>
              /\ asset[x] # None /\ asset'[x].of = asset[x].of
              /\ asset'[x].holdings = asset[x].holdings /\ asset'[x].balance = asset[x].balance
    PROVE  OneByOne'
<1> SUFFICES ASSUME ~ overlapped' PROVE OneByOne'
  BY DEF OneByOne
<1>1. /\ working' \in [Worker -> InvestmentWork]
      /\ working'[w] = r
      /\ \A v \in Worker : v # w => working'[v] = working[v]
  BY WorkPut DEF InvestmentSafe
<1>2. \A v \in Worker : Busy(v) => v = w
  BY DEF InvestmentSafe, OneByOne
<1>3. \A u, v \in Worker : Busy(u)' /\ Busy(v)' => u = v
  BY <1>1, <1>2 DEF Busy
<1>4. \A u \in Worker, x \in Assets :
        working'[u].at = "insert" /\ asset'[x] # None => asset'[x].of # working'[u].of
  BY <1>1 DEF InvestmentSafe, OneByOne
<1>5. ASSUME ~ ragged', NEW x \in Assets, asset'[x] # None
      PROVE  asset'[x].holdings = asset'[x].balance \/ BetweenWrites(x)'
  BY <1>1, <1>5 DEF InvestmentSafe, OneByOne, BetweenWrites
<1>6. \A x, y \in Assets :
       asset'[x] # None /\ asset'[y] # None /\ asset'[x].of = asset'[y].of => x = y
  BY DEF InvestmentSafe, OneByOne
<1>7. \A u \in Worker :
        working'[u].at = "balance" => asset'[working'[u].asset].holdings = working'[u].got
  BY <1>1, <1>2 DEF Busy, Investments!Idle
<1> QED BY <1>3, <1>4, <1>5, <1>6, <1>7 DEF OneByOne

LEMMA ExchangeKeeps ==
    ASSUME InvestmentSafe, NEW w \in Worker, Investments!Exchange(w),
           UNCHANGED << overlapped, ragged >>, relinked' = relinked \union RelinkedNow
    PROVE  InvestmentSafe'
<1>1. working[w].at = "exchange" /\ Busy(w)
  BY DEF Investments!Exchange, Busy, Investments!Idle
<1>2. UNCHANGED << snapshot, account, asset, pro, session >>
  BY DEF Investments!Exchange
<1>3. PICK i \in Budget \ items, chosen \in (SUBSET Acct) \ {{}} :
        /\ items' = items \union {i} /\ serving' = serving \union {i}
        /\ Investments!Put(w, [at |-> "store", item |-> i, todo |-> chosen])
  BY DEF Investments!Exchange
<1> DEFINE r == [at |-> "store", item |-> i, todo |-> chosen]
<1>4. r \in InvestmentWork
  BY DEF InvestmentWork, StoreWork
<1>5. Remembers(r)'
  BY <1>3 DEF Remembers
<1>6. Investments!Put(w, r) /\ r.at \notin {"insert", "balance"}
  BY <1>3
<1> HIDE DEF r
<1>7. relinked' = relinked
  BY <1>2 DEF RelinkedNow
<1>8. AccountsSound'
  BY <1>2, <1>3 DEF InvestmentSafe, AccountsSound
<1>9. AssetsSound'
  BY <1>2, <1>7 DEF InvestmentSafe, AssetsSound, LinkedStill
<1>10. OneByOne'
  BY <1>1, <1>2, <1>4, <1>6, OneByOneKept
<1>11. ASSUME NEW q \in InvestmentWork, Remembers(q) PROVE Remembers(q)'
  <2>1. \A a, j : j \in items /\ Current(a, j) => Current(a, j)'
    BY <1>2, <1>3, <1>7 DEF Current
  <2> QED BY <1>2, <1>3, <1>7, <1>11, <2>1 DEF Remembers, LinkedStill
<1> QED
  BY <1>2, <1>3, <1>4, <1>5, <1>6, <1>7, <1>8, <1>9, <1>10, <1>11, SharedKeeps
  DEF InvestmentSafe, InvestmentTypes, Investments!TypeOK

LEMMA StoreKeepsAll ==
    ASSUME Investments!HoldingsAssumption, InvestmentSafe, NEW w \in Worker, NEW a \in Acct,
           Investments!StoreAccount(w, a),
           UNCHANGED << overlapped, ragged >>, relinked' = relinked \union RelinkedNow
    PROVE  InvestmentSafe'
<1>1. working[w].at = "store" /\ a \in working[w].todo /\ Busy(w) /\ Remembers(working[w])
      /\ working[w] \in InvestmentWork
  BY WorkTyped DEF Investments!StoreAccount, Busy, Investments!Idle, InvestmentSafe, RequestsSound
<1>2. working[w] \in StoreWork
  BY <1>1, WorkKinds
<1>3. UNCHANGED << serving, items, snapshot, asset, pro, session >>
  BY DEF Investments!StoreAccount, Investments!plaid
<1> DEFINE i == working[w].item
           new == [item |-> i, status |-> "active"]
<1>4. i \in items /\ i \in Budget
  BY <1>1, <1>2 DEF Remembers, StoreWork
<1>5. new \in Investments!Rows /\ new.item = i /\ new.status = "active" /\ new # None
  BY <1>4 DEF Investments!Rows, Investments!HoldingsAssumption, Investments!HoldingsAssumption
<1>6. account \in [Acct -> Investments!Rows \union {None}]
  BY DEF InvestmentSafe, InvestmentTypes, Investments!TypeOK
<1>7. account' = [account EXCEPT ![a] = new]
  BY DEF Investments!StoreAccount
<1> HIDE DEF new
<1>8. /\ account' \in [Acct -> Investments!Rows \union {None}]
      /\ account'[a] = new /\ \A b \in Acct : b # a => account'[b] = account[b]
  BY <1>5, <1>6, <1>7
<1>9. \E r \in InvestmentWork :
        Investments!Put(w, r) /\ Remembers(r)' /\ r.at \in {"idle", "store"}
  <2>1. CASE working[w].todo = {a}
    <3>1. Investments!Put(w, Investments!Idle)
      BY <2>1 DEF Investments!StoreAccount, Investments!End
    <3>2. Investments!Idle \in InvestmentWork /\ Remembers(Investments!Idle)'
          /\ Investments!Idle.at = "idle"
      BY DEF InvestmentWork, Remembers, Investments!Idle
    <3> QED BY <3>1, <3>2
  <2>2. CASE working[w].todo # {a}
    <3>1. PICK r : r = [working[w] EXCEPT !.todo = @ \ {a}]
      OBVIOUS
    <3>2. Investments!Put(w, r)
      BY <2>2, <3>1 DEF Investments!StoreAccount
    <3>3. r \in StoreWork /\ r.at = "store" /\ r.item = i
      BY <1>2, <3>1 DEF StoreWork
    <3>4. r \in InvestmentWork
      BY <3>3 DEF InvestmentWork
    <3>5. Remembers(r)'
      BY <3>3, <1>3, <1>4 DEF Remembers
    <3> QED BY <3>2, <3>3, <3>4, <3>5
  <2> QED BY <2>1, <2>2
<1>10. PICK r \in InvestmentWork :
        Investments!Put(w, r) /\ Remembers(r)' /\ r.at \in {"idle", "store"}
  BY <1>9
<1>11. relinked' \subseteq Acct /\ relinked \subseteq relinked'
       /\ (account[a] # None /\ account[a].status = "active" /\ account[a].item # i => a \in relinked')
  BY <1>5, <1>8 DEF RelinkedNow, InvestmentSafe, InvestmentTypes
<1> HIDE DEF i
<1>12. AccountsSound'
  BY <1>3, <1>4, <1>5, <1>8 DEF InvestmentSafe, AccountsSound
<1>13. \A b \in Acct : LinkedStill(b) => LinkedStill(b)'
  BY <1>5, <1>8, <1>11 DEF LinkedStill
<1>14. asset \in [Assets -> Investments!AssetRows \union {None}]
       /\ \A x \in Assets : asset[x] # None => asset[x].of \in Acct
  BY DEF InvestmentSafe, InvestmentTypes, Investments!TypeOK, Investments!AssetRows
<1>15. AssetsSound'
  <2> SUFFICES ASSUME NEW x \in Assets, asset[x] # None
               PROVE  /\ account'[asset[x].of] # None
                      /\ asset[x].status = "active" /\ (asset[x].holdings # None \/ asset[x].balance # None) =>
                           LinkedStill(asset[x].of)'
    BY <1>3 DEF AssetsSound, LinkedStill
  <2>1. account'[asset[x].of] # None
    BY <1>5, <1>8, <1>14 DEF InvestmentSafe, AssetsSound
  <2>2. ASSUME NEW b, b = asset[x].of, LinkedStill(b) PROVE LinkedStill(b)'
    BY <1>13, <1>14, <2>2
  <2> QED BY <1>3, <2>1, <2>2 DEF InvestmentSafe, AssetsSound, LinkedStill
<1>16. \A b \in Acct : \A j : Current(b, j) => Current(b, j)'
  <2> SUFFICES ASSUME NEW b \in Acct, NEW j, Current(b, j) PROVE Current(b, j)'
    OBVIOUS
  <2> QED BY <1>3, <1>5, <1>8, <1>11 DEF Current
<1>17. OneByOne'
  BY <1>1, <1>3, <1>10, OneByOneKept
<1>18. ASSUME NEW q \in InvestmentWork, Remembers(q) PROVE Remembers(q)'
  <2>1. /\ q.at \in {"insert", "fetch", "holdings", "balance"} => q.of \in Acct
        /\ q.at \in {"poll", "fetch", "holdings", "balance"} =>
             \A p \in q.todo : p[1] \in Acct
    BY WorkKinds DEF InsertWork, PollWork, FetchWork, WriteWork, Investments!Polled
  <2>2. q.at = "insert" => account'[q.of] # None
    BY <1>5, <1>8, <1>18, <2>1 DEF Remembers
  <2>3. q.at \in {"insert", "fetch"} => Current(q.of, q.item)'
    BY <1>16, <1>18, <2>1 DEF Remembers
  <2>4. q.at \in {"holdings", "balance"} => (asset[q.asset].status = "active" => LinkedStill(q.of)')
    BY <1>13, <1>18, <2>1 DEF Remembers
  <2>5. q.at \in {"poll", "fetch", "holdings", "balance"} =>
          \A p \in q.todo : p[2] \in items /\ Current(p[1], p[2])'
    BY <1>16, <1>18, <2>1 DEF Remembers
  <2> QED BY <1>3, <1>18, <2>2, <2>3, <2>4, <2>5 DEF Remembers
<1> QED
  BY <1>3, <1>8, <1>10, <1>11, <1>12, <1>14, <1>15, <1>17, <1>18, SharedKeeps
  DEF InvestmentSafe, InvestmentTypes, Investments!TypeOK

LEMMA InsertKeeps ==
    ASSUME Investments!HoldingsAssumption, InvestmentSafe, NEW w \in Worker, Investments!insert_asset(w),
           UNCHANGED << overlapped, ragged >>, relinked' = relinked \union RelinkedNow
    PROVE  InvestmentSafe'
<1>1. working[w].at = "insert" /\ Busy(w) /\ Remembers(working[w])
      /\ working[w] \in InvestmentWork
  BY WorkTyped DEF Investments!insert_asset, Busy, Investments!Idle, InvestmentSafe, RequestsSound
<1>2. working[w] \in InsertWork
  BY <1>1, WorkKinds
<1>3. UNCHANGED << serving, items, snapshot, account, pro, session >>
  BY DEF Investments!insert_asset, Investments!plaid
<1>4. PICK a, i : a = working[w].of /\ i = working[w].item
  OBVIOUS
<1>5. a \in Acct /\ i \in Budget /\ i \in items /\ account[a] # None /\ Current(a, i)
  BY <1>1, <1>2, <1>4 DEF InsertWork, Remembers
<1>6. PICK new : new = [of |-> a, status |-> "active", holdings |-> None, balance |-> None]
  OBVIOUS
<1>7. /\ new \in Investments!AssetRows /\ new # None
      /\ new.of = a /\ new.holdings = None /\ new.balance = None
  <2>1. new \in Investments!AssetRows
    BY <1>5, <1>6 DEF Investments!AssetRows, Investments!Figure
  <2> QED BY <2>1, <1>6 DEF Investments!HoldingsAssumption, Investments!HoldingsAssumption
<1>8. PICK x \in Assets :
        /\ asset[x] = None
        /\ asset' = [asset EXCEPT ![x] = new]
        /\ Investments!Put(w, [at |-> "fetch", of |-> a, item |-> i, asset |-> x, todo |-> {}])
  BY <1>4, <1>6 DEF Investments!insert_asset
<1>9. asset \in [Assets -> Investments!AssetRows \union {None}]
  BY DEF InvestmentSafe, InvestmentTypes, Investments!TypeOK
<1>10. /\ asset' \in [Assets -> Investments!AssetRows \union {None}]
       /\ asset'[x] = new /\ \A y \in Assets : y # x => asset'[y] = asset[y]
  BY <1>7, <1>8, <1>9
<1>11. relinked' = relinked
  BY <1>3 DEF RelinkedNow
<1>12. PICK r : r = [at |-> "fetch", of |-> a, item |-> i, asset |-> x, todo |-> {}]
  OBVIOUS
<1>13. r \in InvestmentWork
  BY <1>5, <1>12 DEF InvestmentWork, FetchWork
<1>14. Remembers(r)'
  BY <1>3, <1>5, <1>7, <1>10, <1>11, <1>12 DEF Remembers, Current
<1>15. AccountsSound'
  BY <1>3 DEF InvestmentSafe, AccountsSound
<1>16. AssetsSound'
  BY <1>3, <1>5, <1>7, <1>10, <1>11 DEF InvestmentSafe, AssetsSound, LinkedStill
<1>17. ASSUME NEW q \in InvestmentWork, Remembers(q) PROVE Remembers(q)'
  <2>1. q.at \in {"fetch", "holdings", "balance"} => q.asset \in Assets /\ q.asset # x
    BY <1>8, <1>17, WorkKinds DEF Remembers, FetchWork, WriteWork
  <2>2. q.at \in {"fetch", "holdings", "balance"} => asset'[q.asset] = asset[q.asset]
    BY <2>1, <1>10
  <2> QED BY <1>3, <1>11, <1>17, <2>2 DEF Remembers, Current, LinkedStill
<1>18. OneByOne'
  <2> SUFFICES ASSUME ~ overlapped' PROVE OneByOne'
    BY DEF OneByOne
  <2>1. /\ working' \in [Worker -> InvestmentWork]
        /\ working'[w] = r
        /\ \A v \in Worker : v # w => working'[v] = working[v]
    BY <1>8, <1>12, <1>13, WorkPut DEF InvestmentSafe
  <2>2. \A v \in Worker : Busy(v) => v = w
    BY <1>1 DEF InvestmentSafe, OneByOne
  <2>3. \A u, v \in Worker : Busy(u)' /\ Busy(v)' => u = v
    BY <2>1, <2>2 DEF Busy
  <2>4. \A u \in Worker : working'[u].at # "insert"
    BY <2>1, <2>2, <1>12 DEF Busy, Investments!Idle
  <2>5. \A u \in Worker : working[u].at # "balance"
    BY <2>2, <1>1 DEF Busy, Investments!Idle
  <2>6. ASSUME ~ ragged', NEW y \in Assets, asset'[y] # None
        PROVE  asset'[y].holdings = asset'[y].balance
    <3>1. CASE y = x
      BY <3>1, <1>7, <1>10
    <3>2. CASE y # x
      BY <3>2, <2>5, <2>6, <1>10 DEF InvestmentSafe, OneByOne, BetweenWrites
    <3> QED BY <3>1, <3>2
  <2>7. \A y \in Assets : asset[y] # None => asset[y].of # a
    BY <1>1, <1>4 DEF InvestmentSafe, OneByOne
  <2>8. \A y, z \in Assets :
         asset'[y] # None /\ asset'[z] # None /\ asset'[y].of = asset'[z].of => y = z
    BY <2>7, <1>7, <1>10 DEF InvestmentSafe, OneByOne
  <2>9. \A u \in Worker : working'[u].at # "balance"
    BY <2>1, <2>5, <1>12
  <2> QED BY <2>3, <2>4, <2>6, <2>8, <2>9 DEF OneByOne
<1>19. Investments!Put(w, r)
  BY <1>8, <1>12
<1> QED
  BY <1>3, <1>10, <1>11, <1>13, <1>14, <1>15, <1>16, <1>17, <1>18, <1>19, SharedKeeps
  DEF InvestmentSafe, InvestmentTypes, Investments!TypeOK

\* What a sync writes into an asset.
LEMMA FigureKeeps ==
    ASSUME Investments!HoldingsAssumption, InvestmentSafe, NEW w \in Worker, NEW new \in Investments!AssetRows,
           NEW r \in InvestmentWork, Investments!Put(w, r),
           working[w].at \in {"holdings", "balance"},
           UNCHANGED << serving, items, snapshot, account, pro, session, overlapped, ragged, relinked >>,
           asset' = [asset EXCEPT ![working[w].asset] = new],
           new.of = working[w].of, new.status = asset[working[w].asset].status,
           r.at \in {"balance", "poll", "idle"},
           r.at = "balance" => r.asset = working[w].asset /\ r.of = working[w].of,
           r.at \in {"balance", "poll"} => r.todo = working[w].todo,
           r.at = "balance" => r.item = working[w].item,
           r.at = "balance" => r.got = new.holdings,
           ~ overlapped /\ ~ ragged => new.holdings = new.balance \/ r.at = "balance"
    PROVE  InvestmentSafe'
<1>1. Busy(w) /\ Remembers(working[w]) /\ working[w] \in InvestmentWork
  BY WorkTyped DEF Busy, Investments!Idle, InvestmentSafe, RequestsSound
<1>2. PICK x : x = working[w].asset
  OBVIOUS
<1>3. x \in Assets /\ asset[x] # None /\ asset[x].of = new.of /\ new.status = asset[x].status
  BY <1>1, <1>2, WorkKinds DEF WriteWork, Remembers
<1>4. asset \in [Assets -> Investments!AssetRows \union {None}]
  BY DEF InvestmentSafe, InvestmentTypes, Investments!TypeOK
<1>5. /\ asset' \in [Assets -> Investments!AssetRows \union {None}]
      /\ asset'[x] = new /\ \A y \in Assets : y # x => asset'[y] = asset[y]
  BY <1>2, <1>3, <1>4
<1>6. new # None
  BY DEF Investments!HoldingsAssumption, Investments!HoldingsAssumption
<1>7. new.status = "active" => LinkedStill(new.of)
  BY <1>1, <1>2, <1>3 DEF Remembers
<1>8. AccountsSound'
  BY DEF InvestmentSafe, AccountsSound
<1>9. AssetsSound'
  BY <1>3, <1>5, <1>6, <1>7 DEF InvestmentSafe, AssetsSound, LinkedStill
<1>10. ASSUME NEW q \in InvestmentWork, Remembers(q) PROVE Remembers(q)'
  <2>1. q.at \in {"fetch", "holdings", "balance"} => q.asset \in Assets
    BY WorkKinds DEF FetchWork, WriteWork
  <2>2. q.at \in {"fetch", "holdings", "balance"} =>
          /\ asset'[q.asset] # None /\ asset'[q.asset].of = asset[q.asset].of
          /\ asset'[q.asset].status = asset[q.asset].status
    BY <2>1, <1>3, <1>5, <1>6, <1>10 DEF Remembers
  <2> QED BY <1>10, <2>2 DEF Remembers, Current, LinkedStill
<1>11. Remembers(r)'
  BY <1>1, <1>2, <1>3, <1>5, <1>6 DEF Remembers, Current, LinkedStill
<1>12. OneByOne'
  <2> SUFFICES ASSUME ~ overlapped' PROVE OneByOne'
    BY DEF OneByOne
  <2>1. /\ working' \in [Worker -> InvestmentWork]
        /\ working'[w] = r
        /\ \A v \in Worker : v # w => working'[v] = working[v]
    BY WorkPut DEF InvestmentSafe
  <2>2. \A v \in Worker : Busy(v) => v = w
    BY <1>1 DEF InvestmentSafe, OneByOne
  <2>3. \A u, v \in Worker : Busy(u)' /\ Busy(v)' => u = v
    BY <2>1, <2>2 DEF Busy
  <2>4. \A u \in Worker : working'[u].at # "insert"
    BY <2>1, <2>2 DEF Busy, Investments!Idle
  <2>5. ASSUME ~ ragged', NEW y \in Assets, asset'[y] # None
        PROVE  asset'[y].holdings = asset'[y].balance \/ BetweenWrites(y)'
    <3>1. CASE y = x
      <4>1. asset'[y] = new /\ (new.holdings = new.balance \/ r.at = "balance")
        BY <3>1, <2>5, <1>5
      <4>2. r.at = "balance" => BetweenWrites(y)'
        BY <3>1, <1>2, <2>1 DEF BetweenWrites
      <4> QED BY <4>1, <4>2
    <3>2. CASE y # x
      <4>1. ~ BetweenWrites(y)
        BY <3>2, <1>2, <2>2 DEF BetweenWrites, Busy, Investments!Idle
      <4> QED BY <3>2, <4>1, <2>5, <1>5 DEF InvestmentSafe, OneByOne
    <3> QED BY <3>1, <3>2
  <2>6. \A y, z \in Assets :
         asset'[y] # None /\ asset'[z] # None /\ asset'[y].of = asset'[z].of => y = z
    BY <1>3, <1>5 DEF InvestmentSafe, OneByOne
  <2>7. \A u \in Worker :
          working'[u].at = "balance" => asset'[working'[u].asset].holdings = working'[u].got
    BY <1>2, <1>3, <1>5, <2>1, <2>2 DEF Busy, Investments!Idle
  <2> QED BY <2>3, <2>4, <2>5, <2>6, <2>7 DEF OneByOne
<1> QED
  BY <1>5, <1>8, <1>9, <1>10, <1>11, <1>12, SharedKeeps
  DEF InvestmentSafe, InvestmentTypes, Investments!TypeOK

LEMMA HoldingsKeep ==
    ASSUME Investments!HoldingsAssumption, InvestmentSafe, NEW w \in Worker,
           Investments!replace_holdings_for_asset(w),
           UNCHANGED << overlapped, ragged >>, relinked' = relinked \union RelinkedNow
    PROVE  InvestmentSafe'
<1>1. working[w].at = "holdings" /\ Remembers(working[w]) /\ working[w] \in InvestmentWork
  BY WorkTyped DEF Investments!replace_holdings_for_asset, InvestmentSafe, RequestsSound
<1>2. UNCHANGED << serving, items, snapshot, account, pro, session >>
  BY DEF Investments!replace_holdings_for_asset, Investments!plaid
<1>3. relinked' = relinked
  BY <1>2 DEF RelinkedNow
<1>4. working[w] \in WriteWork
  BY <1>1, WorkKinds
<1>5. PICK x, old : x = working[w].asset /\ old = asset[x]
  OBVIOUS
<1>6. x \in Assets /\ old # None /\ old.of = working[w].of
  BY <1>1, <1>4, <1>5 DEF WriteWork, Remembers
<1>7. old \in Investments!AssetRows
  BY <1>5, <1>6 DEF InvestmentSafe, InvestmentTypes, Investments!TypeOK
<1>8. working[w].got \in Investments!Figure
  BY <1>4 DEF WriteWork, Investments!Figure
<1>9. PICK new : new = [old EXCEPT !.holdings = working[w].got]
  OBVIOUS
<1>10. /\ new \in Investments!AssetRows
       /\ new.of = old.of /\ new.status = old.status /\ new.holdings = working[w].got
  BY <1>7, <1>8, <1>9 DEF Investments!AssetRows
<1>11. asset' = [asset EXCEPT ![working[w].asset] = new]
  BY <1>5, <1>9 DEF Investments!replace_holdings_for_asset
<1>12. PICK r : r = [working[w] EXCEPT !.at = "balance"]
  OBVIOUS
<1>13. /\ r \in WriteWork /\ r.at = "balance" /\ r.asset = working[w].asset
       /\ r.of = working[w].of /\ r.todo = working[w].todo /\ r.item = working[w].item
       /\ r.got = working[w].got
  BY <1>4, <1>12 DEF WriteWork
<1>14. r \in InvestmentWork
  BY <1>13 DEF InvestmentWork
<1>15. Investments!Put(w, r)
  BY <1>12 DEF Investments!replace_holdings_for_asset
<1> QED
  BY <1>1, <1>2, <1>3, <1>5, <1>6, <1>10, <1>11, <1>13, <1>14, <1>15, FigureKeeps

LEMMA BalanceKeeps ==
    ASSUME Investments!HoldingsAssumption, InvestmentSafe, NEW w \in Worker,
           Investments!update_reported_balance(w),
           UNCHANGED << overlapped, ragged >>, relinked' = relinked \union RelinkedNow
    PROVE  InvestmentSafe'
<1>1. working[w].at = "balance" /\ Remembers(working[w]) /\ working[w] \in InvestmentWork
  BY WorkTyped DEF Investments!update_reported_balance, InvestmentSafe, RequestsSound
<1>2. UNCHANGED << serving, items, snapshot, account, pro, session >>
  BY DEF Investments!update_reported_balance, Investments!plaid
<1>3. relinked' = relinked
  BY <1>2 DEF RelinkedNow
<1>4. working[w] \in WriteWork
  BY <1>1, WorkKinds
<1>5. PICK x, old : x = working[w].asset /\ old = asset[x]
  OBVIOUS
<1>6. x \in Assets /\ old # None /\ old.of = working[w].of
  BY <1>1, <1>4, <1>5 DEF WriteWork, Remembers
<1>7. old \in Investments!AssetRows
  BY <1>5, <1>6 DEF InvestmentSafe, InvestmentTypes, Investments!TypeOK
<1>8. working[w].got \in Investments!Figure
  BY <1>4 DEF WriteWork, Investments!Figure
<1>9. PICK new : new = [old EXCEPT !.balance = working[w].got]
  OBVIOUS
<1>10. /\ new \in Investments!AssetRows /\ new.of = old.of /\ new.status = old.status
       /\ new.holdings = old.holdings /\ new.balance = working[w].got
  BY <1>7, <1>8, <1>9 DEF Investments!AssetRows
<1>11. asset' = [asset EXCEPT ![working[w].asset] = new]
  BY <1>5, <1>9 DEF Investments!update_reported_balance, Investments!Reported
<1>12. ~ overlapped => new.holdings = new.balance
  BY <1>1, <1>5, <1>10 DEF InvestmentSafe, OneByOne
<1>13. Investments!AfterSync(w)
  BY DEF Investments!update_reported_balance
<1>14. CASE working[w].todo = {}
  <2>1. Investments!Put(w, Investments!Idle)
    BY <1>13, <1>14 DEF Investments!AfterSync, Investments!End
  <2>2. Investments!Idle \in InvestmentWork /\ Investments!Idle.at = "idle"
    BY DEF InvestmentWork, Investments!Idle
  <2> QED BY <1>1, <1>2, <1>3, <1>5, <1>6, <1>10, <1>11, <1>12, <2>1, <2>2, FigureKeeps
<1>15. CASE working[w].todo # {}
  <2>1. PICK r : r = [at |-> "poll", todo |-> working[w].todo]
    OBVIOUS
  <2>2. Investments!Put(w, r)
    BY <1>13, <1>15, <2>1 DEF Investments!AfterSync
  <2>3. r \in InvestmentWork /\ r.at = "poll" /\ r.todo = working[w].todo
    BY <1>4, <2>1 DEF InvestmentWork, PollWork, WriteWork
  <2> QED BY <1>1, <1>2, <1>3, <1>5, <1>6, <1>10, <1>11, <1>12, <2>2, <2>3, FigureKeeps
<1> QED BY <1>14, <1>15

LEMMA RemoveItemKeeps ==
    ASSUME InvestmentSafe, NEW w \in Worker, Investments!RemoveItem(w),
           UNCHANGED << overlapped, ragged >>, relinked' = relinked \union RelinkedNow
    PROVE  InvestmentSafe'
<1>1. working[w].at = "remove" /\ Busy(w) /\ Remembers(working[w])
      /\ working[w] \in InvestmentWork
  BY WorkTyped DEF Investments!RemoveItem, Busy, Investments!Idle, InvestmentSafe, RequestsSound
<1>2. working[w] \in RemoveWork
  BY <1>1, WorkKinds
<1>3. UNCHANGED << items, snapshot, account, asset, pro, session >>
  BY DEF Investments!RemoveItem
<1>4. relinked' = relinked
  BY <1>3 DEF RelinkedNow
<1>5. serving' = serving \ {working[w].item}
  BY DEF Investments!RemoveItem
<1>6. PICK r : r = [working[w] EXCEPT !.at = "disconnect"]
  OBVIOUS
<1>7. r \in RemoveWork /\ r.at = "disconnect" /\ r.item = working[w].item
  BY <1>2, <1>6 DEF RemoveWork
<1>8. r \in InvestmentWork /\ Investments!Put(w, r)
  BY <1>6, <1>7 DEF InvestmentWork, Investments!RemoveItem
<1>9. Remembers(r)'
  BY <1>1, <1>3, <1>5, <1>7 DEF Remembers
<1>10. AccountsSound'
  BY <1>3, <1>5 DEF InvestmentSafe, AccountsSound
<1>11. AssetsSound'
  BY <1>3, <1>4 DEF InvestmentSafe, AssetsSound, LinkedStill
<1>12. OneByOne'
  BY <1>1, <1>3, <1>7, <1>8, OneByOneKept
<1>13. ASSUME NEW q \in InvestmentWork, Remembers(q) PROVE Remembers(q)'
  BY <1>3, <1>4, <1>5, <1>13 DEF Remembers, Current, LinkedStill
<1> QED
  BY <1>3, <1>4, <1>5, <1>8, <1>9, <1>10, <1>11, <1>12, <1>13, SharedKeeps
  DEF InvestmentSafe, InvestmentTypes, Investments!TypeOK

\* The transaction closes every asset whose account it disconnects.
LEMMA DisconnectItemKeeps ==
    ASSUME Investments!HoldingsAssumption, InvestmentSafe, NEW w \in Worker, Investments!DisconnectItem(w),
           UNCHANGED << overlapped, ragged >>, relinked' = relinked \union RelinkedNow
    PROVE  InvestmentSafe'
<1>1. working[w].at = "disconnect" /\ Busy(w) /\ Remembers(working[w])
      /\ working[w] \in InvestmentWork
  BY WorkTyped DEF Investments!DisconnectItem, Busy, Investments!Idle, InvestmentSafe, RequestsSound
<1>2. UNCHANGED << serving, items, snapshot, pro, session >>
  BY DEF Investments!DisconnectItem, Investments!plaid
<1>3. PICK i : i = working[w].item
  OBVIOUS
<1>4. i \notin serving
  BY <1>1, <1>3 DEF Remembers
<1>5. PICK closing : closing = {a \in Acct : account[a] # None /\ account[a].item = i}
  OBVIOUS
<1>6. /\ account' = [a \in Acct |->
           IF a \in closing THEN [account[a] EXCEPT !.status = "disconnected"] ELSE account[a]]
      /\ asset' = [x \in Assets |-> IF asset[x] # None /\ asset[x].of \in closing
                      THEN [asset[x] EXCEPT !.status = "closed"] ELSE asset[x]]
      /\ Investments!Put(w, Investments!Idle)
  BY <1>3, <1>5 DEF Investments!DisconnectItem, Investments!Closes, Investments!End
<1>7. /\ account \in [Acct -> Investments!Rows \union {None}]
      /\ asset \in [Assets -> Investments!AssetRows \union {None}]
  BY DEF InvestmentSafe, InvestmentTypes, Investments!TypeOK
<1>8. None \notin Investments!Rows /\ None \notin Investments!AssetRows
  BY DEF Investments!HoldingsAssumption, Investments!HoldingsAssumption
<1>9. \A a \in Acct :
        /\ a \in closing => /\ account[a] # None /\ account[a].item = i
                            /\ account'[a] \in Investments!Rows
                            /\ account'[a].item = i /\ account'[a].status = "disconnected"
        /\ a \notin closing => account'[a] = account[a] /\ (account[a] = None \/ account[a].item # i)
  BY <1>5, <1>6, <1>7 DEF Investments!Rows
<1>10. account' \in [Acct -> Investments!Rows \union {None}]
  BY <1>6, <1>7, <1>9
<1>11. \A x \in Assets : asset[x] # None =>
         /\ asset'[x] \in Investments!AssetRows /\ asset'[x].of = asset[x].of
         /\ asset'[x].holdings = asset[x].holdings /\ asset'[x].balance = asset[x].balance
         /\ asset[x].of \in closing => asset'[x].status = "closed"
         /\ asset[x].of \notin closing => asset'[x] = asset[x]
  <2> SUFFICES ASSUME NEW x \in Assets, asset[x] # None
               PROVE  /\ asset'[x] \in Investments!AssetRows /\ asset'[x].of = asset[x].of
                      /\ asset'[x].holdings = asset[x].holdings /\ asset'[x].balance = asset[x].balance
                      /\ asset[x].of \in closing => asset'[x].status = "closed"
                      /\ asset[x].of \notin closing => asset'[x] = asset[x]
    OBVIOUS
  <2>1. asset[x] \in Investments!AssetRows
    BY <1>7
  <2>2. CASE asset[x].of \in closing
    <3>1. asset'[x] = [asset[x] EXCEPT !.status = "closed"]
      BY <1>6, <2>2
    <3> QED BY <2>1, <2>2, <3>1 DEF Investments!AssetRows
  <2>3. CASE asset[x].of \notin closing
    BY <1>6, <2>1, <2>3
  <2> QED BY <2>2, <2>3
<1>12. \A x \in Assets : asset[x] = None => asset'[x] = None
  BY <1>6
<1>13. asset' \in [Assets -> Investments!AssetRows \union {None}]
  BY <1>6, <1>11, <1>12
<1>14. relinked' = relinked
  BY <1>9 DEF RelinkedNow
<1>15. AccountsSound'
  BY <1>2, <1>4, <1>8, <1>9 DEF InvestmentSafe, AccountsSound
<1>16. \A x \in Assets : asset[x] # None => asset[x].of \in Acct
  BY <1>7 DEF Investments!AssetRows
<1>17. AssetsSound'
  <2> SUFFICES ASSUME NEW x \in Assets, asset'[x] # None
               PROVE  /\ account'[asset'[x].of] # None
                      /\ asset'[x].status = "active" /\ (asset'[x].holdings # None \/ asset'[x].balance # None) =>
                           LinkedStill(asset[x].of)'
    BY <1>11, <1>12, <1>14 DEF AssetsSound, LinkedStill
  <2>1. asset[x] # None /\ asset[x].of \in Acct
    BY <1>12, <1>16
  <2>2. CASE asset[x].of \in closing
    BY <2>1, <2>2, <1>8, <1>9, <1>11
  <2>3. CASE asset[x].of \notin closing
    <3>1. asset'[x] = asset[x] /\ account'[asset[x].of] = account[asset[x].of]
      BY <2>1, <2>3, <1>9, <1>11
    <3> QED BY <2>1, <3>1, <1>11, <1>14 DEF InvestmentSafe, AssetsSound, LinkedStill
  <2> QED BY <2>2, <2>3
<1>18. PICK r : r = Investments!Idle
  OBVIOUS
<1>19. r \in InvestmentWork /\ r.at \notin {"insert", "balance"} /\ Remembers(r)'
       /\ Investments!Put(w, r)
  BY <1>6, <1>18 DEF InvestmentWork, Remembers, Investments!Idle
<1>20. OneByOne'
  BY <1>1, <1>11, <1>12, <1>19, OneByOneKept
<1>21. ASSUME NEW q \in InvestmentWork, Remembers(q) PROVE Remembers(q)'
  <2>1. /\ q.at \in {"insert", "fetch", "holdings", "balance"} => q.of \in Acct
        /\ q.at \in {"fetch", "holdings", "balance"} => q.asset \in Assets
        /\ q.at \in {"poll", "fetch", "holdings", "balance"} =>
             \A p \in q.todo : p[1] \in Acct
    BY WorkKinds DEF InsertWork, PollWork, FetchWork, WriteWork, Investments!Polled
  <2>2. \A a \in Acct : \A j : Current(a, j) => Current(a, j)'
    BY <1>2, <1>4, <1>9, <1>14 DEF Current
  <2>3. q.at = "insert" => account'[q.of] # None
    BY <1>8, <1>9, <1>21, <2>1 DEF Remembers
  <2>4. q.at \in {"insert", "fetch"} => Current(q.of, q.item)'
    BY <1>21, <2>1, <2>2 DEF Remembers
  <2>5. q.at \in {"fetch", "holdings", "balance"} =>
          asset'[q.asset] # None /\ asset'[q.asset].of = q.of
    BY <1>8, <1>11, <1>21, <2>1 DEF Remembers
  <2>6. q.at \in {"holdings", "balance"} => (asset'[q.asset].status = "active" => LinkedStill(q.of)')
    <3> SUFFICES ASSUME q.at \in {"holdings", "balance"}, asset'[q.asset].status = "active"
                 PROVE  LinkedStill(q.of)'
      OBVIOUS
    <3>1. asset[q.asset] # None /\ asset[q.asset].of = q.of /\ q.of \in Acct /\ q.asset \in Assets
      BY <1>21, <2>1 DEF Remembers
    <3>2. q.of \notin closing
      BY <1>11, <3>1
    <3> QED BY <3>1, <3>2, <1>9, <1>11, <1>14, <1>21 DEF Remembers, LinkedStill
  <2>7. q.at \in {"poll", "fetch", "holdings", "balance"} =>
          \A p \in q.todo : p[2] \in items /\ Current(p[1], p[2])'
    BY <1>21, <2>1, <2>2 DEF Remembers
  <2> QED BY <1>2, <1>21, <2>3, <2>4, <2>5, <2>6, <2>7 DEF Remembers
<1> QED
  BY <1>2, <1>10, <1>13, <1>14, <1>15, <1>17, <1>19, <1>20, <1>21, SharedKeeps
  DEF InvestmentSafe, InvestmentTypes, Investments!TypeOK

\* The markets, the subscriptions and the link sessions touch nothing that is remembered.
LEMMA WorldKeeps ==
    ASSUME Investments!HoldingsAssumption, InvestmentSafe,
           \/ Investments!Report \/ Investments!ChangeTier
           \/ \E s \in Session : Investments!create_investment_link_token(s),
           UNCHANGED << overlapped, ragged, relinked, requests >>
    PROVE  InvestmentSafe'
<1>1. UNCHANGED << serving, items, account, asset, working >>
  BY DEF Investments!Report, Investments!ChangeTier, Investments!create_investment_link_token,
         Investments!plaid
<1>2. /\ snapshot' \in Investments!Snapshots /\ pro' \in BOOLEAN
      /\ session' \in [Session -> {"none", "pending", "completed"}]
  <2>1. /\ snapshot \in Investments!Snapshots /\ pro \in BOOLEAN
        /\ session \in [Session -> {"none", "pending", "completed"}]
    BY DEF InvestmentSafe, InvestmentTypes, Investments!TypeOK
  <2>2. CASE Investments!Report
    BY <2>1, <2>2 DEF Investments!Report, Investments!Snapshots, Investments!HoldingsAssumption,
       Investments!HoldingsAssumption
  <2>3. CASE Investments!ChangeTier
    BY <2>1, <2>3 DEF Investments!ChangeTier, Investments!plaid
  <2>4. CASE \E s \in Session : Investments!create_investment_link_token(s)
    BY <2>1, <2>4 DEF Investments!create_investment_link_token, Investments!plaid
  <2> QED BY <2>2, <2>3, <2>4
<1>3. InvestmentTypes'
  BY <1>1, <1>2 DEF InvestmentSafe, InvestmentTypes, Investments!TypeOK
<1>4. AccountsSound' /\ AssetsSound'
  BY <1>1 DEF InvestmentSafe, AccountsSound, AssetsSound, LinkedStill
<1>5. RequestsSound'
  BY <1>1 DEF InvestmentSafe, RequestsSound, Remembers, Current, LinkedStill
<1>6. OneByOne'
  BY <1>1 DEF InvestmentSafe, OneByOne, Busy, BetweenWrites
<1> QED BY <1>3, <1>4, <1>5, <1>6 DEF InvestmentSafe

LEMMA InvestmentsKeep ==
    ASSUME Investments!HoldingsAssumption, InvestmentSafe, Investments!MCNext
    PROVE  InvestmentSafe'
<1>1. CASE /\ \/ Investments!Report \/ Investments!ChangeTier
              \/ \E s \in Session : Investments!create_investment_link_token(s)
           /\ UNCHANGED << overlapped, ragged, relinked, requests >>
  BY <1>1, WorldKeeps
<1>2. ASSUME NEW w \in Worker, Investments!Starting(w),
             overlapped' = (overlapped \/ \E v \in Worker : working[v] # Investments!Idle),
             UNCHANGED << ragged, relinked >>
      PROVE  InvestmentSafe'
  BY <1>2, StartKeeps
<1>3. ASSUME NEW w \in Worker, Investments!Advancing(w), relinked' = relinked \union RelinkedNow,
             UNCHANGED << overlapped, ragged >>
      PROVE  InvestmentSafe'
  BY <1>3, ExchangeKeeps, InsertKeeps, PollNextKeeps, RemoveItemKeeps, DisconnectItemKeeps,
     StoreKeepsAll, FetchKeepsAll, HoldingsKeep, BalanceKeeps DEF Investments!Advancing
<1>4. ASSUME NEW w \in Worker, Investments!Fails(w) \/ Investments!BalanceNotReported(w),
             ragged' = TRUE, UNCHANGED << overlapped, relinked >>
      PROVE  InvestmentSafe'
  BY <1>4, FailureKeeps
<1> QED
  BY <1>1, <1>2, <1>3, <1>4 DEF Investments!MCNext, Investments!histories, RelinkedNow

LEMMA SameCardinality ==
    ASSUME NEW S
    PROVE  Investments!Cardinality(S) = Cardinality(S)
BY Zenon DEF Investments!Cardinality, Cardinality

LEMMA OneAtMost ==
    ASSUME NEW S, \A x, y \in S : x = y
    PROVE  Cardinality(S) <= 1
<1>1. CASE S = {}
  BY <1>1, FS_EmptySet
<1>2. CASE S # {}
  <2>1. PICK x : S = {x}
    BY <1>2
  <2> QED BY <2>1, FS_Singleton
<1> QED BY <1>1, <1>2

LEMMA InvestmentsPromise ==
    ASSUME InvestmentSafe
    PROVE  Investments!TypeOK /\ Investments!CountedIsLinked /\ Investments!OneSnapshotAlone
<1>1. Investments!CountedIsLinked
  BY DEF InvestmentSafe, AssetsSound, LinkedStill, Investments!CountedIsLinked
<1>2. ASSUME ~ overlapped, NEW a \in Acct
      PROVE  Investments!Cardinality(Investments!AssetsOf(a)) <= 1
  <2>1. \A x, y \in Investments!AssetsOf(a) : x = y
    BY <1>2 DEF InvestmentSafe, OneByOne, Investments!AssetsOf
  <2>2. Cardinality(Investments!AssetsOf(a)) <= 1
    BY <2>1, OneAtMost
  <2> QED BY <2>2, SameCardinality
<1>3. ASSUME ~ overlapped, ~ ragged, \A w \in Worker : working[w] = Investments!Idle,
             NEW x \in Assets, asset[x] # None
      PROVE  asset[x].holdings = asset[x].balance
  <2>1. ~ BetweenWrites(x)
    BY <1>3 DEF BetweenWrites, Investments!Idle
  <2> QED BY <1>3, <2>1 DEF InvestmentSafe, OneByOne
<1> QED BY <1>1, <1>2, <1>3 DEF Investments!OneSnapshotAlone, InvestmentSafe, InvestmentTypes

-----------------------------------------------------------------------------
\* All of it, in the behaviours that show the investments.
InvestmentsInv == part = "investments" => InvestmentSafe

LEMMA InvestmentsStart ==
    ASSUME Investments!HoldingsAssumption, ConnectionsInit
    PROVE  InvestmentsInv
BY InvestmentStart DEF ConnectionsInit, InvestmentsInv

LEMMA InvestmentsStep ==
    ASSUME Investments!HoldingsAssumption, InvestmentsInv,
           [ConnectionsNext]_<<part, vars, bankVars, investmentVars, planVars>>
    PROVE  InvestmentsInv'
<1> SUFFICES ASSUME part = "investments", InvestmentSafe PROVE InvestmentSafe'
  BY DEF InvestmentsInv, ConnectionsNext
<1>1. CASE Investments!MCNext
  BY <1>1, InvestmentsKeep
<1>2. CASE ~ Investments!MCNext
  <2>1. UNCHANGED investmentVars
    BY <1>2 DEF ConnectionsNext
  <2>2. UNCHANGED << serving, items, account, asset, working, snapshot, pro, session,
                     overlapped, ragged, relinked >>
    BY <2>1 DEF investmentVars
  <2> QED
    BY <2>2 DEF InvestmentSafe, InvestmentTypes, Investments!TypeOK, AccountsSound, AssetsSound,
       RequestsSound, Remembers, Current, LinkedStill, OneByOne, Busy, BetweenWrites
<1> QED BY <1>1, <1>2

\* What an active asset counts is of an account that is linked, whatever a sync or a
\* classification under way does after the disconnection (disconnect_investment_account).
THEOREM CountedOnlyWhileLinked ==
    ASSUME Investments!HoldingsAssumption
    PROVE  ConnectionsSpec => []CountedIsLinked
<1>1. ConnectionsInit => InvestmentsInv
  BY InvestmentsStart
<1>2. InvestmentsInv /\ [ConnectionsNext]_<<part, vars, bankVars, investmentVars, planVars>>
        => InvestmentsInv'
  BY InvestmentsStep
<1>3. InvestmentsInv => CountedIsLinked
  BY InvestmentsPromise DEF InvestmentsInv, CountedIsLinked
<1> QED BY <1>1, <1>2, <1>3, PTL DEF ConnectionsSpec

\* One by one, requests leave an account with one asset at most, and the two figures of
\* an asset of one snapshot (classify, sync_investment_holdings).
THEOREM OneAssetOneSnapshot ==
    ASSUME Investments!HoldingsAssumption
    PROVE  ConnectionsSpec => []OneSnapshotAlone
<1>1. ConnectionsInit => InvestmentsInv
  BY InvestmentsStart
<1>2. InvestmentsInv /\ [ConnectionsNext]_<<part, vars, bankVars, investmentVars, planVars>>
        => InvestmentsInv'
  BY InvestmentsStep
<1>3. InvestmentsInv => OneSnapshotAlone
  BY InvestmentsPromise DEF InvestmentsInv, OneSnapshotAlone
<1> QED BY <1>1, <1>2, <1>3, PTL DEF ConnectionsSpec

-----------------------------------------------------------------------------
(* Bank links. *)

CompleteWork == [op : {"complete"}, s : Session, todo : SUBSET Bank!Pairs,
                 pair : Bank!Pairs \union {None}, onto : Bank!RowIds \union {None},
                 done : SUBSET Bank!RowIds, conflict : BOOLEAN]
SyncWork     == [op : {"sync", "expire"}, row : Bank!RowIds, pid : Acct \union Bank!Pairs,
                 ref : Session]
ReleaseWork  == [op : {"revoke", "flip"}, row : Bank!RowIds, pid : Acct \union Bank!Pairs,
                 ref : Session, siblings : BOOLEAN, all : BOOLEAN]
BankWork ==
  {Bank!Idle} \union SyncWork \union CompleteWork \union ReleaseWork
    \union [op : {"next", "erase"}]

BankTypes ==
  Bank!TypeOK /\ granted \subseteq Bank!Pairs /\ disturbed \in BOOLEAN

\* The consent of an account was given; of Basiq's, the provider serves all or none
\* of the accounts of a connection.
Known(p) ==
  /\ covers[p[1]] # None
  /\ provider = "basiq" => (p \in live <=> \E q \in live : q[1] = p[1])

PairOf(i) == <<rows[i].ref, rows[i].acct>>

Consented ==
  /\ provider \in {"belvo", "basiq"} => ~ stable
  /\ \A s \in Session : status[s] # "none" => budget[s] # None
  /\ \A p \in live \union granted : covers[p[1]] # None
  /\ \A i \in DOMAIN rows : Known(PairOf(i)) /\ (~ stable => rows[i].pid = PairOf(i))

\* What a completion goes by.
Knows(r) ==
  r.op = "complete" =>
    /\ status[r.s] # "none"
    /\ \A p \in r.todo : Known(p)
    /\ r.pair # None => Known(r.pair)

\* The promise is kept where disconnecting ends the consent.
Sure == provider # "akahu" /\ (provider = "gocardless" => ~ stable)

Owns(i, p) ==
  /\ rows[i].status # "disconnected"
  /\ IF provider = "basiq" THEN rows[i].ref = p[1] ELSE rows[i].pid = Bank!Pid(p)

OwnHeld == Sure => \A p \in granted \intersect live : \E i \in DOMAIN rows : Owns(i, p)

\* Only consents that are over are waiting for a new one.
ExpiredIsOver ==
  ~ stable => \A i \in DOMAIN rows : rows[i].status = "consent_expired" => rows[i].pid \notin live

\* A provider that no row needs any more serves nothing that was linked.
Freed(r) ==
  CASE provider = "stripe" -> \A p \in granted \intersect live : Bank!Pid(p) # r.pid
    [] provider = "basiq"  -> (r.siblings /\ Bank!Shared(r.row)) \/ \A p \in live : p[1] # r.ref
    [] OTHER               -> \A p \in live : p[1] # r.ref

\* What a request alone remembers is true still.
Steady(r) ==
  /\ r.op \in {"sync", "expire", "revoke", "flip"} =>
       r.row \in DOMAIN rows /\ rows[r.row].pid = r.pid /\ rows[r.row].ref = r.ref
  /\ r.op = "expire" /\ ~ stable => r.pid \notin live
  /\ r.op = "revoke" /\ provider = "basiq" =>
       IF r.siblings THEN Bank!Shared(r.row) \/ \A p \in live : p[1] # r.ref
       ELSE ~ Bank!Shared(r.row)
  /\ r.op = "flip" /\ Sure => Freed(r)
  /\ r.op = "erase" /\ Sure => granted \intersect live = {}
  /\ r.op = "complete" =>
       /\ \A i \in r.done \intersect DOMAIN rows : rows[i].budget = budget[r.s]
       /\ r.pair # None => \A i \in Bank!RowsOf(Bank!Pid(r.pair)) : rows[i].budget = budget[r.s]
       /\ r.onto # None => /\ r.onto \in DOMAIN rows /\ rows[r.onto].budget = budget[r.s]
                           /\ rows[r.onto].status = "consent_expired"

Working(w) == req[w] # Bank!Idle

Undisturbed ==
  ~ disturbed =>
    /\ \A v, w \in Worker : Working(v) /\ Working(w) => v = w
    /\ OwnHeld /\ ExpiredIsOver
    /\ \A w \in Worker : Steady(req[w])

BankSafe ==
  BankTypes /\ Consented /\ (\A w \in Worker : Knows(req[w])) /\ Undisturbed

LEMMA BankKinds ==
    ASSUME NEW r \in BankWork
    PROVE  /\ r.op \in {"sync", "expire"} => r \in SyncWork
           /\ r.op = "complete" => r \in CompleteWork
           /\ r.op \in {"revoke", "flip"} => r \in ReleaseWork
           /\ r.op \in {"idle", "sync", "expire", "complete", "revoke", "flip", "next", "erase"}
           /\ r.op = "idle" <=> r = Bank!Idle
BY DEF BankWork, SyncWork, CompleteWork, ReleaseWork, Bank!Idle

LEMMA BankTyped ==
    ASSUME BankTypes
    PROVE  req \in [Worker -> BankWork]
BY DEF BankTypes, Bank!TypeOK, Bank!Work, Bank!Syncs, BankWork, SyncWork, CompleteWork, ReleaseWork

LEMMA BankTypedBack ==
    ASSUME req' \in [Worker -> BankWork]
    PROVE  req' \in [Worker -> Bank!Work]
BY DEF Bank!Work, Bank!Syncs, BankWork, SyncWork, CompleteWork, ReleaseWork

LEMMA BankPut ==
    ASSUME BankTypes, NEW w \in Worker, NEW r \in BankWork, Bank!Become(w, r)
    PROVE  /\ req' \in [Worker -> BankWork]
           /\ req'[w] = r
           /\ \A v \in Worker : v # w => req'[v] = req[v]
<1>1. req \in [Worker -> BankWork]
  BY BankTyped
<1> QED BY <1>1 DEF Bank!Become

LEMMA BankStart ==
    ASSUME Bank!BankLinkAssumption, Bank!MCInit
    PROVE  BankSafe
<1>1. /\ provider \in Bank!Providers /\ stable \in BOOLEAN /\ live = {} /\ events = {}
      /\ provider \in {"belvo", "basiq"} => ~ stable
      /\ rows = << >> /\ gone = FALSE /\ granted = {} /\ disturbed = FALSE
      /\ req \in [Worker -> {Bank!Idle}] /\ status \in [Session -> {"none"}]
      /\ budget \in [Session -> {None}] /\ covers \in [Session -> {None}]
  BY DEF Bank!MCInit, Bank!Init
<1>2. rows \in Seq(Bank!Rows) /\ Len(rows) = 0 /\ DOMAIN rows = {}
  BY <1>1
<1>3. BankTypes
  <2>2. req \in [Worker -> Bank!Work]
    BY <1>1 DEF Bank!Work
  <2>3. Len(rows) <= MaxRow
    BY <1>2 DEF Bank!BankLinkAssumption
  <2>4. /\ status \in [Session -> {"none", "pending", "completed"}]
        /\ budget \in [Session -> Budget \union {None}]
        /\ covers \in [Session -> (SUBSET Acct) \union {None}]
    BY <1>1
  <2> QED BY <1>1, <1>2, <2>2, <2>3, <2>4 DEF BankTypes, Bank!TypeOK
<1>4. Consented
  BY <1>1, <1>2 DEF Consented
<1>5. \A w \in Worker : Knows(req[w])
  BY <1>1 DEF Knows, Bank!Idle
<1>6. Undisturbed
  BY <1>1, <1>2 DEF Undisturbed, Working, OwnHeld, ExpiredIsOver, Steady, Bank!Idle
<1> QED BY <1>3, <1>4, <1>5, <1>6 DEF BankSafe

\* The flag that the check keeps, and what the others are while it is down.
Disturbs == disturbed' = (disturbed \/ (Bank!Overlap)' \/ Bank!LateReport)

\* What a request does to the rest, by its parts.
SharedTypes ==
  /\ status \in [Session -> {"none", "pending", "completed"}]
  /\ budget \in [Session -> Budget \union {None}]
  /\ covers \in [Session -> (SUBSET Acct) \union {None}]
  /\ live \subseteq Bank!Pairs
  /\ events \subseteq Session \union Acct \union Bank!Pairs
  /\ rows \in Seq(Bank!Rows) /\ Len(rows) <= MaxRow
  /\ \A i, j \in DOMAIN rows : rows[i].pid = rows[j].pid => i = j
  /\ gone \in BOOLEAN
  /\ granted \subseteq Bank!Pairs

LEMMA TypesShared ==
    ASSUME BankTypes
    PROVE  SharedTypes /\ provider \in Bank!Providers /\ stable \in BOOLEAN
BY DEF BankTypes, Bank!TypeOK, SharedTypes

LEMMA OthersIdle ==
    ASSUME BankSafe, NEW w \in Worker, NEW r \in BankWork, Bank!Become(w, r),
           r # Bank!Idle \/ Working(w), Disturbs, ~ disturbed'
    PROVE  /\ ~ disturbed
           /\ \A v \in Worker : v # w => req[v] = Bank!Idle /\ req'[v] = Bank!Idle
<1>1. /\ req' \in [Worker -> BankWork]
      /\ req'[w] = r
      /\ \A v \in Worker : v # w => req'[v] = req[v]
  BY BankPut DEF BankSafe
<1>2. ~ disturbed /\ ~ (Bank!Overlap)'
  BY DEF Disturbs, BankSafe, BankTypes
<1>3. ASSUME NEW v \in Worker, v # w, req[v] # Bank!Idle PROVE FALSE
  <2>1. CASE Working(w)
    BY <2>1, <1>2, <1>3 DEF BankSafe, Undisturbed, Working
  <2>2. CASE r # Bank!Idle
    BY <2>2, <1>1, <1>2, <1>3 DEF Bank!Overlap
  <2> QED BY <2>1, <2>2
<1> QED BY <1>1, <1>2, <1>3

LEMMA BankStepKeeps ==
    ASSUME BankSafe, NEW w \in Worker, NEW r \in BankWork, Bank!Become(w, r),
           r # Bank!Idle \/ Working(w), Disturbs,
           UNCHANGED << provider, stable >>, SharedTypes', Consented',
           Knows(r)', \A q \in BankWork : Knows(q) => Knows(q)',
           ~ disturbed' => OwnHeld' /\ ExpiredIsOver' /\ Steady(r)'
    PROVE  BankSafe'
<1>1. /\ req' \in [Worker -> BankWork]
      /\ req'[w] = r
      /\ \A v \in Worker : v # w => req'[v] = req[v]
  BY BankPut DEF BankSafe
<1>2. BankTypes'
  <2>1. req' \in [Worker -> Bank!Work]
    BY <1>1, BankTypedBack
  <2>2. provider \in Bank!Providers /\ stable \in BOOLEAN
    BY TypesShared DEF BankSafe
  <2>3. disturbed' \in BOOLEAN
    BY DEF Disturbs
  <2> QED BY <2>1, <2>2, <2>3 DEF BankTypes, Bank!TypeOK, SharedTypes
<1>3. ASSUME NEW v \in Worker, NEW q, q = req'[v] PROVE Knows(q)'
  <2>1. CASE v = w
    BY <1>1, <1>3, <2>1
  <2>2. CASE v # w
    <3>1. q \in BankWork /\ Knows(q)
      BY <1>1, <1>3, <2>2, BankTyped DEF BankSafe
    <3> QED BY <3>1
  <2> QED BY <2>1, <2>2
<1>4. \A v \in Worker : Knows(req[v])'
  BY <1>3
<1>5. Undisturbed'
  <2> SUFFICES ASSUME ~ disturbed'
               PROVE  /\ \A u, v \in Worker : Working(u)' /\ Working(v)' => u = v
                      /\ OwnHeld' /\ ExpiredIsOver'
                      /\ \A v \in Worker : Steady(req[v])'
    BY DEF Undisturbed
  <2>1. \A v \in Worker : v # w => req'[v] = Bank!Idle
    BY OthersIdle
  <2>2. \A u, v \in Worker : Working(u)' /\ Working(v)' => u = v
    BY <2>1 DEF Working
  <2>3. ASSUME NEW v \in Worker, NEW q, q = req'[v] PROVE Steady(q)'
    <3>1. CASE v = w
      BY <1>1, <2>3, <3>1
    <3>2. CASE v # w
      BY <2>1, <2>3, <3>2 DEF Steady, Bank!Idle
    <3> QED BY <3>1, <3>2
  <2>4. \A v \in Worker : Steady(req[v])'
    BY <2>3
  <2> QED BY <2>2, <2>4
<1> QED BY <1>2, <1>4, <1>5 DEF BankSafe

\* A step that only moves one request on, and may complete a session.
LEMMA BankMoveKeeps ==
    ASSUME BankSafe, NEW w \in Worker, NEW r \in BankWork, Bank!Become(w, r),
           r # Bank!Idle \/ Working(w), Disturbs,
           UNCHANGED << provider, stable, covers, live, events, budget, rows, gone, granted >>,
           status' \in [Session -> {"none", "pending", "completed"}],
           \A s \in Session : status[s] # "none" <=> status'[s] # "none",
           Knows(r), ~ disturbed' => Steady(r)
    PROVE  BankSafe'
<1>1. SharedTypes'
  BY TypesShared DEF BankSafe, SharedTypes
<1>2. Consented'
  BY DEF BankSafe, Consented, Known, PairOf
<1>3. \A p : Known(p) => Known(p)'
  BY DEF Known
<1>4. ASSUME NEW q \in BankWork, Knows(q) PROVE Knows(q)'
  <2>1. q.op = "complete" => q.s \in Session
    BY BankKinds DEF CompleteWork
  <2> QED BY <1>3, <1>4, <2>1 DEF Knows
<1>5. ~ disturbed' => OwnHeld' /\ ExpiredIsOver'
  BY DEF Disturbs, BankSafe, Undisturbed, BankTypes, OwnHeld, ExpiredIsOver, Sure, Owns, Bank!Pid
<1>6. ~ disturbed' => Steady(r)'
  BY DEF Steady, Freed, Sure, Bank!Shared, Bank!RowsOf, Bank!Pid
<1>7. Knows(r)'
  BY <1>4
<1> QED BY <1>1, <1>2, <1>4, <1>5, <1>6, <1>7, BankStepKeeps

\* What is counted as linked.
Grants ==
  granted' = granted \union
    {req[w].pair : w \in {v \in Worker : Bank!Linking(v) /\ req'[v] # req[v] /\ req'[v] # Bank!Idle}}

LEMMA GrantsNothing ==
    ASSUME BankSafe, NEW w \in Worker, NEW r \in BankWork, Bank!Become(w, r), Grants,
           ~ Bank!Linking(w) \/ r = Bank!Idle
    PROVE  granted' = granted
<1>1. /\ req'[w] = r
      /\ \A v \in Worker : v # w => req'[v] = req[v]
  BY BankPut DEF BankSafe
<1>2. {v \in Worker : Bank!Linking(v) /\ req'[v] # req[v] /\ req'[v] # Bank!Idle} = {}
  BY <1>1 DEF Bank!Linking
<1> QED BY <1>2 DEF Grants

LEMMA GrantsPair ==
    ASSUME BankSafe, NEW w \in Worker, NEW r \in BankWork, Bank!Become(w, r), Grants,
           Bank!Linking(w), r # Bank!Idle, r # req[w]
    PROVE  granted' = granted \union {req[w].pair}
<1>1. /\ req'[w] = r
      /\ \A v \in Worker : v # w => req'[v] = req[v]
  BY BankPut DEF BankSafe
<1>2. {v \in Worker : Bank!Linking(v) /\ req'[v] # req[v] /\ req'[v] # Bank!Idle} = {w}
  BY <1>1
<1> QED BY <1>2 DEF Grants

\* A request ends, whatever it was in the middle of.
LEMMA RefusedKeeps ==
    ASSUME BankSafe, NEW w \in Worker, Working(w), Bank!Refused(w), Grants, Disturbs
    PROVE  BankSafe'
<1>1. Bank!Idle \in BankWork /\ Bank!Become(w, Bank!Idle)
  BY DEF BankWork, Bank!Refused, Bank!Finish
<1>2. granted' = granted
  BY <1>1, GrantsNothing
<1>3. UNCHANGED << provider, stable, covers, live, events, status, budget, rows, gone >>
  BY DEF Bank!Refused, Bank!bank
<1>4. status' \in [Session -> {"none", "pending", "completed"}]
  BY <1>3, TypesShared DEF BankSafe, SharedTypes
<1>5. Knows(Bank!Idle) /\ Steady(Bank!Idle)
  BY DEF Knows, Steady, Bank!Idle
<1> QED BY <1>1, <1>2, <1>3, <1>4, <1>5, BankMoveKeeps

LEMMA BeginCompleteKeeps ==
    ASSUME BankSafe, NEW w \in Worker, NEW s \in Session, Bank!BeginComplete(w, s), Grants, Disturbs
    PROVE  BankSafe'
<1>1. SharedTypes /\ provider \in Bank!Providers
  BY TypesShared DEF BankSafe
<1>2. PICK r : r = [op |-> "complete", s |-> s, todo |-> Bank!Listed(s), pair |-> None,
                    onto |-> None, done |-> {}, conflict |-> FALSE]
  OBVIOUS
<1>3. Bank!Become(w, r) /\ status[s] = "pending" /\ Bank!CanList(s)
      /\ UNCHANGED << provider, stable, covers, live, events, status, budget, rows, gone >>
      /\ req[w] = Bank!Idle
  BY <1>2 DEF Bank!BeginComplete, Bank!bank
<1>4. Bank!Listed(s) \in SUBSET Bank!Pairs /\ \A p \in Bank!Listed(s) : Known(p)
  <2>1. CASE provider = "basiq"
    BY <1>1, <2>1 DEF Bank!Listed, SharedTypes, Known, Consented, BankSafe
  <2>2. CASE provider # "basiq" /\ covers[s] = None
    BY <2>2 DEF Bank!Listed
  <2>3. CASE provider # "basiq" /\ covers[s] # None
    BY <1>1, <2>3 DEF Bank!Listed, SharedTypes, Bank!Pairs, Known
  <2> QED BY <2>1, <2>2, <2>3
<1>5. r \in CompleteWork
  BY <1>2, <1>4 DEF CompleteWork
<1>6. r \in BankWork /\ r # Bank!Idle
  BY <1>2, <1>5 DEF BankWork, Bank!Idle
<1>7. Knows(r)
  BY <1>2, <1>3, <1>4 DEF Knows
<1>8. Steady(r)
  BY <1>2 DEF Steady
<1>9. granted' = granted
  BY <1>3, <1>6, GrantsNothing DEF Bank!Linking, Bank!Idle
<1> QED BY <1>1, <1>3, <1>6, <1>7, <1>8, <1>9, BankMoveKeeps DEF SharedTypes

LEMMA RowIdsAre ==
    ASSUME Bank!BankLinkAssumption, BankSafe
    PROVE  /\ rows \in Seq(Bank!Rows) /\ DOMAIN rows = 1 .. Len(rows) /\ Len(rows) \in Nat
           /\ DOMAIN rows \subseteq Bank!RowIds
           /\ \A i \in DOMAIN rows : rows[i] \in Bank!Rows /\ i # None
<1>1. rows \in Seq(Bank!Rows) /\ Len(rows) <= MaxRow
  BY TypesShared DEF BankSafe, SharedTypes
<1>2. DOMAIN rows = 1 .. Len(rows) /\ Len(rows) \in Nat /\ \A i \in DOMAIN rows : rows[i] \in Bank!Rows
  BY <1>1
<1> QED BY <1>1, <1>2 DEF Bank!RowIds, Bank!BankLinkAssumption

\* An account of the list is to be linked, to a new row or a row that was found.
LEMMA ChosenKeeps ==
    ASSUME Bank!BankLinkAssumption, BankSafe, NEW w \in Worker, NEW p \in Bank!Pairs, NEW onto,
           Bank!Checking(w, p), ~ Bank!Elsewhere(w, p), Bank!Chosen(w, p, onto),
           onto \in {None} \union Bank!Expired(budget[req[w].s]), Grants, Disturbs
    PROVE  BankSafe'
<1>1. req[w].op = "complete" /\ req[w].pair = None /\ p \in req[w].todo /\ req[w] \in BankWork
  BY BankTyped DEF Bank!Checking, BankSafe
<1>2. req[w] \in CompleteWork
  BY <1>1, BankKinds
<1>3. PICK old : old = req[w]
  OBVIOUS
<1>4. PICK r : r = [old EXCEPT !.pair = p, !.onto = onto]
  OBVIOUS
<1>5. onto \in Bank!RowIds \union {None}
      /\ (onto # None => /\ onto \in DOMAIN rows /\ rows[onto].budget = budget[old.s]
                         /\ rows[onto].status = "consent_expired")
  <2>3. CASE onto = None
    BY <2>3
  <2>4. CASE onto \in Bank!Expired(budget[old.s])
    <3>1. onto \in DOMAIN rows /\ rows[onto].budget = budget[old.s]
          /\ rows[onto].status = "consent_expired"
      BY <2>4 DEF Bank!Expired
    <3>2. onto \in Bank!RowIds
      BY <3>1, RowIdsAre
    <3> QED BY <3>1, <3>2
  <2> QED BY <1>3, <2>3, <2>4
<1>6. /\ r \in CompleteWork /\ r.op = "complete" /\ r.s = old.s /\ r.todo = old.todo
      /\ r.pair = p /\ r.onto = onto /\ r.done = old.done
  BY <1>2, <1>3, <1>4, <1>5 DEF CompleteWork
<1>7. r \in BankWork /\ r # Bank!Idle
  BY <1>6 DEF BankWork, Bank!Idle
<1>8. Bank!Become(w, r)
      /\ UNCHANGED << provider, stable, covers, live, events, status, budget, rows, gone >>
  BY <1>3, <1>4 DEF Bank!Chosen, Bank!bank
<1>9. Knows(old)
  BY <1>3 DEF BankSafe
<1>10. Knows(r)
  BY <1>1, <1>3, <1>6, <1>9 DEF Knows
<1>11. ASSUME ~ disturbed' PROVE Steady(r)
  <2>1. Steady(old)
    BY <1>3, <1>11 DEF Disturbs, BankSafe, Undisturbed, BankTypes
  <2>2. \A i \in Bank!RowsOf(Bank!Pid(p)) : rows[i].budget = budget[r.s]
    BY <1>3, <1>6 DEF Bank!Elsewhere
  <2> QED BY <1>1, <1>3, <1>5, <1>6, <2>1, <2>2 DEF Steady
<1>12. granted' = granted
  BY <1>1, <1>7, <1>8, GrantsNothing DEF Bank!Linking
<1>13. status \in [Session -> {"none", "pending", "completed"}]
  BY TypesShared DEF BankSafe, SharedTypes
<1> QED BY <1>7, <1>8, <1>10, <1>11, <1>12, <1>13, BankMoveKeeps

\* Basiq and Akahu: an account that is linked elsewhere is skipped.
LEMMA SkipKeeps ==
    ASSUME BankSafe, NEW w \in Worker, NEW p \in Bank!Pairs,
           Bank!Checking(w, p), Bank!Elsewhere(w, p), Bank!CheckOrSkip(w, p), Grants, Disturbs
    PROVE  BankSafe'
<1>1. req[w].op = "complete" /\ req[w].pair = None /\ p \in req[w].todo /\ req[w] \in BankWork
  BY BankTyped DEF Bank!Checking, BankSafe
<1>2. req[w] \in CompleteWork
  BY <1>1, BankKinds
<1>3. PICK old : old = req[w]
  OBVIOUS
<1>4. PICK r : r = [old EXCEPT !.todo = @ \ {p}, !.conflict = TRUE]
  OBVIOUS
<1>5. /\ r \in CompleteWork /\ r.op = "complete" /\ r.s = old.s /\ r.todo = old.todo \ {p}
      /\ r.pair = old.pair /\ r.onto = old.onto /\ r.done = old.done
  BY <1>2, <1>3, <1>4 DEF CompleteWork
<1>6. r \in BankWork /\ r # Bank!Idle
  BY <1>5 DEF BankWork, Bank!Idle
<1>7. Bank!Become(w, r)
      /\ UNCHANGED << provider, stable, covers, live, events, status, budget, rows, gone >>
  BY <1>3, <1>4 DEF Bank!CheckOrSkip, Bank!bank
<1>8. Knows(r)
  BY <1>1, <1>3, <1>5 DEF BankSafe, Knows
<1>9. ASSUME ~ disturbed' PROVE Steady(r)
  <2>1. Steady(old)
    BY <1>3, <1>9 DEF Disturbs, BankSafe, Undisturbed, BankTypes
  <2> QED BY <1>1, <1>3, <1>5, <2>1 DEF Steady
<1>10. granted' = granted
  BY <1>1, <1>6, <1>7, GrantsNothing DEF Bank!Linking
<1>11. status \in [Session -> {"none", "pending", "completed"}]
  BY TypesShared DEF BankSafe, SharedTypes
<1> QED BY <1>6, <1>7, <1>8, <1>9, <1>10, <1>11, BankMoveKeeps

LEMMA CheckKeeps ==
    ASSUME Bank!BankLinkAssumption, BankSafe, NEW w \in Worker, NEW p \in Bank!Pairs,
           \/ Bank!CheckStripe(w, p) \/ Bank!CheckGoCardless(w, p) \/ Bank!CheckBelvo(w, p)
           \/ Bank!CheckBasiq(w, p) \/ Bank!CheckAkahu(w, p),
           Grants, Disturbs
    PROVE  BankSafe'
<1>1. Bank!Checking(w, p)
  BY DEF Bank!CheckStripe, Bank!CheckGoCardless, Bank!CheckBelvo, Bank!CheckBasiq, Bank!CheckAkahu
<1>2. Working(w)
  BY <1>1 DEF Working, Bank!Checking, Bank!Idle
<1>3. CASE Bank!Elsewhere(w, p)
  <2>1. Bank!Refused(w) \/ Bank!CheckOrSkip(w, p)
    BY <1>3 DEF Bank!CheckStripe, Bank!CheckGoCardless, Bank!CheckBelvo, Bank!CheckBasiq,
       Bank!CheckAkahu
  <2> QED BY <1>1, <1>2, <1>3, <2>1, RefusedKeeps, SkipKeeps
<1>4. CASE ~ Bank!Elsewhere(w, p)
  <2>1. \E onto \in {None} \union Bank!Expired(budget[req[w].s]) : Bank!Chosen(w, p, onto)
    BY <1>4 DEF Bank!CheckStripe, Bank!CheckGoCardless, Bank!CheckBelvo, Bank!CheckBasiq,
       Bank!CheckAkahu, Bank!CheckOrSkip
  <2> QED BY <1>1, <1>4, <2>1, ChosenKeeps
<1> QED BY <1>3, <1>4

LEMMA EndCompleteKeeps ==
    ASSUME BankSafe, NEW w \in Worker, Bank!EndComplete(w), Grants, Disturbs
    PROVE  BankSafe'
<1>1. req[w].op = "complete" /\ req[w].pair = None /\ req[w] \in BankWork /\ Working(w)
  BY BankTyped DEF Bank!EndComplete, BankSafe, Working, Bank!Idle
<1>2. Bank!Idle \in BankWork /\ Bank!Become(w, Bank!Idle)
  BY DEF BankWork, Bank!EndComplete, Bank!Finish
<1>3. granted' = granted
  BY <1>2, GrantsNothing
<1>4. UNCHANGED << provider, stable, covers, live, events, budget, rows, gone >>
      /\ status' \in {status, [status EXCEPT ![req[w].s] = "completed"]}
  BY DEF Bank!EndComplete, Bank!bank
<1>5. status \in [Session -> {"none", "pending", "completed"}]
  BY TypesShared DEF BankSafe, SharedTypes
<1>6. /\ status' \in [Session -> {"none", "pending", "completed"}]
      /\ \A s \in Session : status[s] # "none" <=> status'[s] # "none"
  <2>1. status[req[w].s] # "none"
    BY <1>1 DEF BankSafe, Knows
  <2> QED BY <1>4, <1>5, <2>1
<1>7. Knows(Bank!Idle) /\ Steady(Bank!Idle)
  BY DEF Knows, Steady, Bank!Idle
<1> QED BY <1>1, <1>2, <1>3, <1>4, <1>6, <1>7, BankMoveKeeps

\* A sync begins, hears that the consent is over, or ends.
LEMMA SyncMovesKeep ==
    ASSUME Bank!BankLinkAssumption, BankSafe, NEW w \in Worker,
           (\E i \in DOMAIN rows : Bank!BeginSync(w, i)) \/ Bank!HearExpired(w) \/ Bank!EndSync(w),
           Grants, Disturbs
    PROVE  BankSafe'
<1>1. status \in [Session -> {"none", "pending", "completed"}]
  BY TypesShared DEF BankSafe, SharedTypes
<1>2. ASSUME NEW i \in DOMAIN rows, Bank!BeginSync(w, i) PROVE BankSafe'
  <2>1. PICK r : r = [op |-> "sync", row |-> i, pid |-> rows[i].pid, ref |-> rows[i].ref]
    OBVIOUS
  <2>2. Bank!Become(w, r) /\ req[w] = Bank!Idle
        /\ UNCHANGED << provider, stable, covers, live, events, status, budget, rows, gone >>
    BY <1>2, <2>1 DEF Bank!BeginSync, Bank!bank
  <2>3. rows[i] \in Bank!Rows /\ i \in Bank!RowIds
    BY RowIdsAre
  <2>4. r \in SyncWork
    BY <2>1, <2>3 DEF SyncWork, Bank!Rows
  <2>5. r \in BankWork /\ r # Bank!Idle
    BY <2>1, <2>4 DEF BankWork, Bank!Idle
  <2>6. Knows(r) /\ Steady(r)
    BY <2>1 DEF Knows, Steady
  <2>7. granted' = granted
    BY <2>2, <2>5, GrantsNothing DEF Bank!Linking, Bank!Idle
  <2> QED BY <1>1, <2>2, <2>5, <2>6, <2>7, BankMoveKeeps
<1>3. CASE Bank!HearExpired(w)
  <2>1. req[w].op = "sync" /\ ~ Bank!Serves(req[w].pid, req[w].ref) /\ req[w] \in BankWork
    BY <1>3, BankTyped DEF Bank!HearExpired, BankSafe
  <2>2. req[w] \in SyncWork
    BY <2>1, BankKinds
  <2>3. PICK old : old = req[w]
    OBVIOUS
  <2>4. PICK r : r = [old EXCEPT !.op = "expire"]
    OBVIOUS
  <2>5. /\ r \in SyncWork /\ r.op = "expire" /\ r.row = old.row /\ r.pid = old.pid
        /\ r.ref = old.ref
    BY <2>2, <2>3, <2>4 DEF SyncWork
  <2>6. r \in BankWork /\ r # Bank!Idle
    BY <2>5 DEF BankWork, Bank!Idle
  <2>7. Bank!Become(w, r)
        /\ UNCHANGED << provider, stable, covers, live, events, status, budget, rows, gone >>
    BY <1>3, <2>3, <2>4 DEF Bank!HearExpired, Bank!bank
  <2>8. ASSUME ~ disturbed' PROVE Steady(r)
    <3>1. Steady(old)
      BY <2>3, <2>8 DEF Disturbs, BankSafe, Undisturbed, BankTypes
    <3>2. ~ stable => r.pid \notin live
      <4> SUFFICES ASSUME ~ stable, r.pid \in live PROVE FALSE
        OBVIOUS
      <4>1. r.row \in DOMAIN rows /\ rows[r.row].pid = r.pid /\ rows[r.row].ref = r.ref
        BY <2>1, <2>3, <2>5, <3>1 DEF Steady
      <4>2. r.pid = <<r.ref, rows[r.row].acct>>
        BY <4>1 DEF BankSafe, Consented, PairOf
      <4>3. Bank!Serves(r.pid, r.ref)
        BY <4>2 DEF Bank!Serves, Bank!Pid
      <4> QED BY <2>1, <2>3, <2>5, <4>3
    <3> QED BY <2>1, <2>3, <2>5, <3>1, <3>2 DEF Steady
  <2>9. Knows(r)
    BY <2>5 DEF Knows
  <2>10. granted' = granted
    BY <2>1, <2>6, <2>7, GrantsNothing DEF Bank!Linking
  <2> QED BY <1>1, <2>6, <2>7, <2>8, <2>9, <2>10, BankMoveKeeps
<1>4. CASE Bank!EndSync(w)
  BY <1>4, RefusedKeeps DEF Bank!EndSync, Bank!Refused, Working, Bank!Idle
<1> QED BY <1>2, <1>3, <1>4

\* A row is looked up, to be disconnected.
LEMMA DispatchKeeps ==
    ASSUME Bank!BankLinkAssumption, BankSafe, NEW w \in Worker, NEW i \in DOMAIN rows,
           NEW all \in BOOLEAN, Bank!Dispatch(w, i, all), ~ Bank!Linking(w),
           UNCHANGED << provider, stable, covers, live, events, status, budget, rows, gone >>,
           Grants, Disturbs
    PROVE  BankSafe'
<1>1. PICK r : r = [op |-> "revoke", row |-> i, pid |-> rows[i].pid, ref |-> rows[i].ref,
                    siblings |-> provider = "basiq" /\ Bank!Shared(i), all |-> all]
  OBVIOUS
<1>2. Bank!Become(w, r)
  BY <1>1 DEF Bank!Dispatch
<1>3. rows[i] \in Bank!Rows /\ i \in Bank!RowIds
  BY RowIdsAre
<1>4. (provider = "basiq" /\ Bank!Shared(i)) \in BOOLEAN
  OBVIOUS
<1>5. rows[i].pid \in Acct \union Bank!Pairs /\ rows[i].ref \in Session
  BY <1>3 DEF Bank!Rows
<1>6. r \in ReleaseWork
  BY <1>1, <1>3, <1>4, <1>5 DEF ReleaseWork
<1>7. r \in BankWork /\ r # Bank!Idle
  BY <1>1, <1>6 DEF BankWork, Bank!Idle
<1>8. Knows(r) /\ Steady(r)
  BY <1>1 DEF Knows, Steady
<1>9. granted' = granted
  BY <1>2, <1>7, GrantsNothing
<1>10. status \in [Session -> {"none", "pending", "completed"}]
  BY TypesShared DEF BankSafe, SharedTypes
<1> QED BY <1>2, <1>7, <1>8, <1>9, <1>10, BankMoveKeeps

\* Of a set of numbers there is a least.
LEMMA Least ==
    ASSUME NEW S, S \subseteq Nat, S # {}
    PROVE  \E i \in S : \A j \in S : i <= j
<1>1. \E i \in S : \A j \in S : ~ (<<j, i>> \in OpToRel(<, Nat))
  BY NatLessThanWellFounded, WFMin
<1>2. PICK i \in S : \A j \in S : ~ (<<j, i>> \in OpToRel(<, Nat))
  BY <1>1
<1>3. ASSUME NEW j \in S PROVE i <= j
  <2>1. i \in Nat /\ j \in Nat
    OBVIOUS
  <2>2. ~ (j < i)
    BY <1>2, <2>1 DEF OpToRel
  <2> QED BY <2>1, <2>2
<1> QED BY <1>3

\* The deletion of the account begins, and goes on to the next row, or to the end.
LEMMA NextAccountKeeps ==
    ASSUME Bank!BankLinkAssumption, BankSafe, NEW w \in Worker,
           Bank!NextAccount(w) \/ Bank!DeleteAccount(w), Grants, Disturbs
    PROVE  BankSafe'
<1>1. UNCHANGED << provider, stable, covers, live, events, status, budget, rows, gone >>
      /\ req[w].op \in {"idle", "next"}
  <2>1. CASE Bank!NextAccount(w)
    <3>1. req[w].op = "next" /\ UNCHANGED << Bank!bank, status, budget, rows, gone >>
      BY <2>1 DEF Bank!NextAccount
    <3> QED BY <3>1 DEF Bank!bank
  <2>2. CASE Bank!DeleteAccount(w)
    <3>1. req[w] = Bank!Idle /\ UNCHANGED << Bank!bank, status, budget, rows, gone >>
      BY <2>2 DEF Bank!DeleteAccount
    <3> QED BY <3>1 DEF Bank!bank, Bank!Idle
  <2> QED BY <2>1, <2>2
<1>2. status \in [Session -> {"none", "pending", "completed"}]
  BY TypesShared DEF BankSafe, SharedTypes
<1>3. ~ Bank!Linking(w)
  BY <1>1 DEF Bank!Linking
<1>4. CASE Bank!DeleteAccount(w) \/ (Bank!NextAccount(w) /\ Bank!Unreleased = {})
  <2>1. PICK r : /\ r \in [op : {"next", "erase"}] /\ Bank!Become(w, r)
                 /\ r.op = "erase" => Bank!Unreleased = {}
    <3>1. Bank!Become(w, [op |-> "next"]) \/ (Bank!Become(w, [op |-> "erase"]) /\ Bank!Unreleased = {})
      BY <1>4 DEF Bank!DeleteAccount, Bank!NextAccount
    <3> QED BY <3>1
  <2>2. r \in BankWork /\ r # Bank!Idle
    BY <2>1 DEF BankWork, Bank!Idle
  <2>3. Knows(r)
    BY <2>1 DEF Knows
  <2>4. ASSUME ~ disturbed' PROVE Steady(r)
    <3>1. Bank!Unreleased = {} /\ Sure => granted \intersect live = {}
      BY <2>4 DEF Bank!Unreleased, Disturbs, BankSafe, Undisturbed, BankTypes, OwnHeld, Owns
    <3> QED BY <2>1, <3>1 DEF Steady
  <2>5. granted' = granted
    BY <1>3, <2>1, <2>2, GrantsNothing
  <2> QED BY <1>1, <1>2, <2>1, <2>2, <2>3, <2>4, <2>5, BankMoveKeeps
<1>5. CASE Bank!NextAccount(w) /\ Bank!Unreleased # {}
  <2>1. Bank!Unreleased \subseteq DOMAIN rows /\ Bank!Unreleased \subseteq Nat
    BY RowIdsAre DEF Bank!Unreleased
  <2>2. \E i \in Bank!Unreleased : \A j \in Bank!Unreleased : i <= j
    BY <1>5, <2>1, Least
  <2>3. PICK i \in DOMAIN rows : Bank!Dispatch(w, i, TRUE)
    BY <1>5, <2>1, <2>2 DEF Bank!NextAccount
  <2> QED BY <1>1, <1>3, <2>3, DispatchKeeps
<1> QED BY <1>4, <1>5

LEMMA DisconnectKeeps ==
    ASSUME Bank!BankLinkAssumption, BankSafe, NEW w \in Worker, NEW i \in DOMAIN rows,
           Bank!Disconnect(w, i), Grants, Disturbs
    PROVE  BankSafe'
<1>1. /\ req[w] = Bank!Idle /\ UNCHANGED << Bank!bank, status, budget, rows, gone >>
      /\ Bank!Dispatch(w, i, FALSE)
  BY DEF Bank!Disconnect
<1>2. UNCHANGED << provider, stable, covers, live, events, status, budget, rows, gone >>
      /\ ~ Bank!Linking(w)
  BY <1>1 DEF Bank!bank, Bank!Linking, Bank!Idle
<1> QED BY <1>1, <1>2, DispatchKeeps

Statuses == {"active", "consent_expired", "disconnected"}

\* One row is written.
LEMMA RowPut ==
    ASSUME Bank!BankLinkAssumption, BankSafe, NEW i \in DOMAIN rows, NEW new \in Bank!Rows,
           rows' = [rows EXCEPT ![i] = new]
    PROVE  /\ rows' \in Seq(Bank!Rows) /\ Len(rows') = Len(rows) /\ DOMAIN rows' = DOMAIN rows
           /\ rows'[i] = new
           /\ \A j \in DOMAIN rows : j # i => rows'[j] = rows[j]
<1>1. /\ rows \in Seq(Bank!Rows) /\ DOMAIN rows = 1 .. Len(rows) /\ Len(rows) \in Nat
  BY RowIdsAre
<1> QED BY <1>1

\* Rows whose status alone changes are of the same accounts, consents and budgets.
SameRows ==
  /\ rows' \in Seq(Bank!Rows) /\ Len(rows') = Len(rows) /\ DOMAIN rows' = DOMAIN rows
  /\ \A j \in DOMAIN rows :
       /\ rows'[j].pid = rows[j].pid /\ rows'[j].ref = rows[j].ref
       /\ rows'[j].acct = rows[j].acct /\ rows'[j].budget = rows[j].budget

LEMMA StatusPut ==
    ASSUME Bank!BankLinkAssumption, BankSafe, NEW i \in DOMAIN rows, NEW st \in Statuses,
           Bank!SetStatus(i, st)
    PROVE  /\ SameRows
           /\ rows'[i].status = st
           /\ \A j \in DOMAIN rows : j # i => rows'[j] = rows[j]
<1>1. PICK new : new = [rows[i] EXCEPT !.status = st]
  OBVIOUS
<1>2. rows[i] \in Bank!Rows
  BY RowIdsAre
<1>3. /\ new \in Bank!Rows /\ new.pid = rows[i].pid /\ new.ref = rows[i].ref
      /\ new.acct = rows[i].acct /\ new.budget = rows[i].budget /\ new.status = st
  BY <1>1, <1>2 DEF Bank!Rows, Statuses
<1>4. rows' = [rows EXCEPT ![i] = new]
  BY <1>1 DEF Bank!SetStatus
<1>5. /\ rows' \in Seq(Bank!Rows) /\ Len(rows') = Len(rows) /\ DOMAIN rows' = DOMAIN rows
      /\ rows'[i] = new
      /\ \A j \in DOMAIN rows : j # i => rows'[j] = rows[j]
  BY <1>3, <1>4, RowPut
<1> QED BY <1>3, <1>5 DEF SameRows

\* What holds of the rows whatever their status.
LEMMA SameRowsKeep ==
    ASSUME Bank!BankLinkAssumption, BankSafe, SameRows,
           UNCHANGED << provider, stable, covers, live, events, status, budget, gone, granted >>
    PROVE  SharedTypes' /\ Consented' /\ \A q \in BankWork : Knows(q) => Knows(q)'
<1>1. SharedTypes
  BY TypesShared DEF BankSafe
<1>2. SharedTypes'
  <2>1. \A i, j \in DOMAIN rows' : rows'[i].pid = rows'[j].pid => i = j
    BY <1>1 DEF SharedTypes, SameRows
  <2>2. Len(rows') <= MaxRow
    BY <1>1 DEF SharedTypes, SameRows
  <2> QED BY <1>1, <2>1, <2>2 DEF SharedTypes, SameRows
<1>3. \A p : Known(p) => Known(p)'
  BY DEF Known
<1>4. Consented'
  <2>1. ASSUME NEW i \in DOMAIN rows' PROVE Known(PairOf(i))' /\ (~ stable' => rows'[i].pid = PairOf(i)')
    <3>1. PICK p : p = PairOf(i)
      OBVIOUS
    <3>2. i \in DOMAIN rows /\ PairOf(i)' = p
      BY <2>1, <3>1 DEF SameRows, PairOf
    <3>3. Known(p) /\ (~ stable => rows[i].pid = p)
      BY <3>1, <3>2 DEF BankSafe, Consented
    <3>4. Known(p)'
      BY <1>3, <3>3
    <3> QED BY <3>2, <3>3, <3>4 DEF SameRows, Known
  <2> QED BY <2>1 DEF BankSafe, Consented
<1>5. ASSUME NEW q \in BankWork, Knows(q) PROVE Knows(q)'
  BY <1>3, <1>5 DEF Knows
<1> QED BY <1>2, <1>4, <1>5

LEMMA ExpireKeeps ==
    ASSUME Bank!BankLinkAssumption, BankSafe, NEW w \in Worker, Bank!Expire(w), Grants, Disturbs
    PROVE  BankSafe'
<1>1. req[w].op = "expire" /\ Bank!Become(w, Bank!Idle) /\ Working(w)
      /\ UNCHANGED << provider, stable, covers, live, events, status, budget, gone >>
  BY DEF Bank!Expire, Bank!Finish, Bank!bank, Working, Bank!Idle
<1>2. Bank!Idle \in BankWork /\ Knows(Bank!Idle)' /\ Steady(Bank!Idle)'
  BY DEF BankWork, Knows, Steady, Bank!Idle
<1>3. granted' = granted
  BY <1>1, <1>2, GrantsNothing
<1>4. PICK i : i = req[w].row
  OBVIOUS
<1>5. CASE rows' = rows
  BY <1>1, <1>3, <1>5, RefusedKeeps DEF Bank!Refused, Bank!Finish, Bank!bank
<1>6. CASE rows' # rows
  <2>1. i \in DOMAIN rows /\ rows[i].status # "disconnected" /\ Bank!SetStatus(i, "consent_expired")
    BY <1>4, <1>6 DEF Bank!Expire, Bank!SetStatus
  <2>2. /\ SameRows /\ rows'[i].status = "consent_expired"
        /\ \A j \in DOMAIN rows : j # i => rows'[j] = rows[j]
    BY <2>1, StatusPut DEF Statuses
  <2>3. SharedTypes' /\ Consented' /\ \A q \in BankWork : Knows(q) => Knows(q)'
    BY <1>1, <1>3, <2>2, SameRowsKeep
  <2>4. ASSUME ~ disturbed' PROVE OwnHeld' /\ ExpiredIsOver'
    <3>1. OwnHeld /\ ExpiredIsOver /\ Steady(req[w])
      BY <2>4 DEF Disturbs, BankSafe, Undisturbed, BankTypes
    <3>2. \A p, j : Owns(j, p) /\ j \in DOMAIN rows => Owns(j, p)'
      BY <1>1, <2>2 DEF Owns, SameRows, Bank!Pid
    <3>3. OwnHeld'
      BY <1>1, <1>3, <2>2, <3>1, <3>2 DEF OwnHeld, Sure, SameRows
    <3>4. ~ stable => rows[i].pid \notin live
      BY <1>1, <1>4, <3>1 DEF Steady
    <3>5. ExpiredIsOver'
      BY <1>1, <2>2, <3>1, <3>4 DEF ExpiredIsOver, SameRows
    <3> QED BY <3>3, <3>5
  <2> QED BY <1>1, <1>2, <2>3, <2>4, BankStepKeeps
<1> QED BY <1>5, <1>6

\* Only a row whose consent the provider has ended, or that others share, is flipped.
LEMMA FlipKeeps ==
    ASSUME Bank!BankLinkAssumption, BankSafe, NEW w \in Worker, Bank!Flip(w), Grants, Disturbs
    PROVE  BankSafe'
<1>1. req[w].op = "flip" /\ Working(w)
      /\ UNCHANGED << provider, stable, covers, live, events, status, budget, gone >>
  BY DEF Bank!Flip, Bank!bank, Working, Bank!Idle
<1>2. PICK r : Bank!Become(w, r) /\ r \in {[op |-> "next"], Bank!Idle}
  BY DEF Bank!Flip
<1>3. r \in BankWork /\ Knows(r)' /\ Steady(r)'
  BY <1>2 DEF BankWork, Knows, Steady, Bank!Idle
<1>4. granted' = granted
  BY <1>1, <1>2, <1>3, GrantsNothing DEF Bank!Linking
<1>5. PICK i, old : i = req[w].row /\ old = req[w]
  OBVIOUS
<1>6. Bank!SetStatus(i, "disconnected")
  BY <1>5 DEF Bank!Flip
<1>7. CASE i \in DOMAIN rows
  <2>1. /\ SameRows /\ rows'[i].status = "disconnected"
        /\ \A j \in DOMAIN rows : j # i => rows'[j] = rows[j]
    BY <1>6, <1>7, StatusPut DEF Statuses
  <2>2. SharedTypes' /\ Consented' /\ \A q \in BankWork : Knows(q) => Knows(q)'
    BY <1>1, <1>4, <2>1, SameRowsKeep
  <2>3. ASSUME ~ disturbed' PROVE OwnHeld' /\ ExpiredIsOver'
    <3>1. OwnHeld /\ ExpiredIsOver /\ Steady(old)
      BY <1>5, <2>3 DEF Disturbs, BankSafe, Undisturbed, BankTypes
    <3>2. ExpiredIsOver'
      BY <1>1, <2>1, <3>1 DEF ExpiredIsOver, SameRows
    <3>3. \A p, j : Owns(j, p) /\ j \in DOMAIN rows /\ j # i => Owns(j, p)'
      BY <1>1, <2>1 DEF Owns, SameRows, Bank!Pid
    <3>4. ASSUME Sure, NEW p \in granted \intersect live
          PROVE  \E j \in DOMAIN rows : Owns(j, p)'
      <4>1. PICK k \in DOMAIN rows : Owns(k, p)
        BY <3>1, <3>4 DEF OwnHeld
      <4>2. CASE k # i
        BY <3>3, <4>1, <4>2
      <4>3. CASE k = i
        <5>1. rows[i].pid = old.pid /\ rows[i].ref = old.ref /\ old.row = i /\ Freed(old)
          BY <1>1, <1>5, <3>1, <3>4 DEF Steady
        <5>2. provider # "stripe"
          BY <4>1, <4>3, <5>1 DEF Owns, Freed
        <5>3. p[1] = rows[i].ref
          <6>1. CASE provider = "basiq"
            BY <4>1, <4>3, <6>1 DEF Owns
          <6>2. CASE provider # "basiq"
            <7>1. ~ stable /\ provider \in Bank!Providers
              BY <3>4, <5>2, <6>2, TypesShared DEF Sure, BankSafe, Consented, Bank!Providers
            <7>2. p = PairOf(i)
              BY <4>1, <4>3, <6>2, <7>1, <1>7 DEF Owns, Bank!Pid, BankSafe, Consented
            <7> QED BY <7>2 DEF PairOf
          <6> QED BY <6>1, <6>2
        <5>4. provider = "basiq" /\ Bank!Shared(i)
          BY <5>1, <5>2, <5>3, <3>4 DEF Freed
        <5>5. PICK j \in DOMAIN rows : j # i /\ rows[j].ref = rows[i].ref /\ rows[j].status = "active"
          BY <5>4 DEF Bank!Shared
        <5>6. Owns(j, p)
          BY <5>3, <5>4, <5>5 DEF Owns
        <5> QED BY <3>3, <5>5, <5>6
      <4> QED BY <4>2, <4>3
    <3>5. OwnHeld'
      BY <1>1, <1>4, <2>1, <3>4 DEF OwnHeld, Sure, SameRows
    <3> QED BY <3>2, <3>5
  <2> QED BY <1>1, <1>2, <1>3, <2>2, <2>3, BankStepKeeps
<1>8. CASE i \notin DOMAIN rows
  <2>1. UNCHANGED rows
    BY <1>6, <1>8 DEF Bank!SetStatus
  <2>2. Knows(r) /\ Steady(r)
    BY <1>2 DEF Knows, Steady, Bank!Idle
  <2>3. status \in [Session -> {"none", "pending", "completed"}]
    BY TypesShared DEF BankSafe, SharedTypes
  <2> QED BY <1>1, <1>2, <1>3, <1>4, <2>1, <2>2, <2>3, BankMoveKeeps
<1> QED BY <1>7, <1>8

\* Cutting at the provider: of Basiq, a whole connection.
LEMMA CutKeeps ==
    ASSUME Bank!BankLinkAssumption, BankSafe, NEW pairs, pairs \subseteq Bank!Pairs, Bank!Cut(pairs),
           UNCHANGED << provider, stable, status, budget, rows, gone, granted >>,
           covers' \in [Session -> (SUBSET Acct) \union {None}],
           \A s \in Session : covers[s] # None => covers'[s] # None,
           provider = "basiq" => pairs = {} \/ \E s \in Session : pairs = {s} \X Acct
    PROVE  /\ SharedTypes' /\ Consented' /\ \A q \in BankWork : Knows(q) => Knows(q)'
           /\ live' = live \ pairs
           /\ OwnHeld => OwnHeld'
           /\ ExpiredIsOver => ExpiredIsOver'
<1>1. SharedTypes
  BY TypesShared DEF BankSafe
<1>2. live' = live \ pairs /\ events' = events \union Bank!Reported(live \intersect pairs)
  BY DEF Bank!Cut
<1>3. Bank!Reported(live \intersect pairs) \subseteq Session \union Acct \union Bank!Pairs
  <2>1. \A p \in Bank!Pairs : p[1] \in Session /\ Bank!Pid(p) \in Acct \union Bank!Pairs
    BY DEF Bank!Pairs, Bank!Pid
  <2>2. CASE provider = "stripe"
    BY <2>1, <2>2 DEF Bank!Reported
  <2>3. CASE provider = "basiq"
    BY <2>1, <2>3 DEF Bank!Reported
  <2>4. CASE provider \notin {"stripe", "basiq"}
    BY <2>4 DEF Bank!Reported
  <2> QED BY <2>2, <2>3, <2>4
<1>4. SharedTypes'
  BY <1>1, <1>2, <1>3 DEF SharedTypes
<1>5. ASSUME NEW p \in Bank!Pairs, Known(p) PROVE Known(p)'
  <2>1. p[1] \in Session /\ p[2] \in Acct /\ p = <<p[1], p[2]>>
    BY DEF Bank!Pairs
  <2>2. ASSUME provider = "basiq", NEW q \in live', q[1] = p[1] PROVE p \in live'
    <3>1. q \in live /\ q \in Bank!Pairs /\ p \in live
      BY <1>1, <1>2, <1>5, <2>2 DEF SharedTypes, Known
    <3>2. CASE pairs = {}
      BY <3>1, <3>2, <1>2
    <3>3. ASSUME NEW s \in Session, pairs = {s} \X Acct PROVE p \in live'
      <4>1. q[1] # s
        BY <3>1, <3>3, <2>2, <1>2 DEF Bank!Pairs
      <4> QED BY <4>1, <3>1, <3>3, <2>2, <1>2
    <3> QED BY <3>2, <3>3, <2>2
  <2> QED BY <1>5, <2>1, <2>2 DEF Known
<1>6. ASSUME NEW i \in DOMAIN rows PROVE Known(PairOf(i))' /\ PairOf(i) \in Bank!Pairs
  <2>1. PICK p : p = PairOf(i)
    OBVIOUS
  <2>2. PairOf(i)' = p
    BY <2>1 DEF PairOf
  <2>3. p \in Bank!Pairs
    BY <2>1, RowIdsAre DEF PairOf, Bank!Rows, Bank!Pairs
  <2>4. Known(p)'
    BY <1>5, <2>1, <2>3 DEF BankSafe, Consented
  <2> QED BY <2>1, <2>2, <2>3, <2>4 DEF Known
<1>7. Consented'
  <2>1. \A i \in DOMAIN rows' : Known(PairOf(i))' /\ (~ stable' => rows'[i].pid = PairOf(i)')
    BY <1>6 DEF BankSafe, Consented, PairOf
  <2>2. \A p \in live' \union granted' : covers'[p[1]] # None
    BY <1>1, <1>2 DEF BankSafe, Consented, SharedTypes, Bank!Pairs
  <2> QED BY <2>1, <2>2 DEF BankSafe, Consented
<1>8. ASSUME NEW q \in BankWork, Knows(q) PROVE Knows(q)'
  <2>1. q.op = "complete" => q.todo \subseteq Bank!Pairs /\ (q.pair # None => q.pair \in Bank!Pairs)
    BY BankKinds DEF CompleteWork
  <2> QED BY <1>5, <1>8, <2>1 DEF Knows
<1>9. OwnHeld => OwnHeld'
  BY <1>2 DEF OwnHeld, Sure, Owns, Bank!Pid
<1>10. ExpiredIsOver => ExpiredIsOver'
  BY <1>2 DEF ExpiredIsOver
<1> QED BY <1>2, <1>4, <1>7, <1>8, <1>9, <1>10

LEMMA RevokeKeeps ==
    ASSUME Bank!BankLinkAssumption, BankSafe, NEW w \in Worker,
           \/ Bank!RevokeStripe(w) \/ Bank!RevokeGoCardless(w) \/ Bank!RevokeBelvo(w)
           \/ Bank!RevokeBasiq(w) \/ Bank!RevokeAkahu(w),
           Grants, Disturbs
    PROVE  BankSafe'
<1>1. SharedTypes /\ provider \in Bank!Providers
  BY TypesShared DEF BankSafe
<1>2. req[w].op = "revoke" /\ req[w] \in BankWork /\ Working(w)
  BY BankTyped DEF Bank!RevokeStripe, Bank!RevokeGoCardless, Bank!RevokeBelvo, Bank!RevokeBasiq,
     Bank!RevokeAkahu, Bank!Revoking, BankSafe, Working, Bank!Idle
<1>3. PICK old : old = req[w]
  OBVIOUS
<1>4. old \in ReleaseWork /\ old.op = "revoke" /\ old.ref \in Session
  BY <1>2, <1>3, BankKinds DEF ReleaseWork
<1>5. PICK pairs :
        /\ Bank!Revoked(w, pairs, old.ref)
        /\ provider = "stripe" => pairs = {p \in Bank!Pairs : Bank!Pid(p) = old.pid}
        /\ provider \in {"gocardless", "belvo"} => pairs = {old.ref} \X Acct
        /\ provider = "basiq" => pairs = IF old.siblings THEN {} ELSE {old.ref} \X Acct
        /\ provider = "akahu" => pairs = {}
  <2>1. CASE Bank!RevokeStripe(w)
    BY <2>1, <1>3 DEF Bank!RevokeStripe, Bank!Revoking
  <2>2. CASE Bank!RevokeGoCardless(w)
    BY <2>2, <1>3 DEF Bank!RevokeGoCardless, Bank!Revoking
  <2>3. CASE Bank!RevokeBelvo(w)
    BY <2>3, <1>3 DEF Bank!RevokeBelvo, Bank!Revoking
  <2>4. CASE Bank!RevokeBasiq(w)
    BY <2>4, <1>3 DEF Bank!RevokeBasiq, Bank!Revoking
  <2>5. CASE Bank!RevokeAkahu(w)
    BY <2>5, <1>3 DEF Bank!RevokeAkahu, Bank!Revoking
  <2> QED BY <2>1, <2>2, <2>3, <2>4, <2>5
<1>6. PICK r : r = [old EXCEPT !.op = "flip"]
  OBVIOUS
<1>7. /\ r \in ReleaseWork /\ r.op = "flip" /\ r.row = old.row /\ r.pid = old.pid
      /\ r.ref = old.ref /\ r.siblings = old.siblings
  BY <1>4, <1>6 DEF ReleaseWork
<1>8. r \in BankWork /\ r # Bank!Idle
  BY <1>7 DEF BankWork, Bank!Idle
<1>9. /\ Bank!Become(w, r) /\ Bank!Cut(pairs)
      /\ UNCHANGED << provider, stable, status, budget, rows, gone >>
      /\ covers' \in {covers, [covers EXCEPT ![old.ref] = {}]}
  BY <1>3, <1>5, <1>6 DEF Bank!Revoked
<1>10. granted' = granted
  BY <1>2, <1>8, <1>9, GrantsNothing DEF Bank!Linking
<1>11. /\ covers' \in [Session -> (SUBSET Acct) \union {None}]
       /\ \A s \in Session : covers[s] # None => covers'[s] # None
  BY <1>1, <1>9 DEF SharedTypes, Bank!BankLinkAssumption
<1>12. pairs \subseteq Bank!Pairs
  BY <1>1, <1>4, <1>5 DEF Bank!Pairs, Bank!Providers
<1>13. provider = "basiq" => pairs = {} \/ \E s \in Session : pairs = {s} \X Acct
  BY <1>4, <1>5
<1>14. /\ SharedTypes' /\ Consented' /\ \A q \in BankWork : Knows(q) => Knows(q)'
       /\ live' = live \ pairs
       /\ OwnHeld => OwnHeld'
       /\ ExpiredIsOver => ExpiredIsOver'
  BY <1>9, <1>10, <1>11, <1>12, <1>13, CutKeeps
<1>15. Knows(r)'
  BY <1>7 DEF Knows
<1>16. ASSUME ~ disturbed' PROVE OwnHeld' /\ ExpiredIsOver' /\ Steady(r)'
  <2>1. OwnHeld /\ ExpiredIsOver /\ Steady(old)
    BY <1>3, <1>16 DEF Disturbs, BankSafe, Undisturbed, BankTypes
  <2>2. \A p \in live' : p \in live /\ p \notin pairs /\ p \in Bank!Pairs
    BY <1>1, <1>14 DEF SharedTypes
  <2>3. \A p \in Bank!Pairs : p \notin {old.ref} \X Acct => p[1] # old.ref
    BY DEF Bank!Pairs
  <2>4. Sure => Freed(r)'
    <3>1. CASE provider = "stripe"
      <4>1. \A p \in live' : Bank!Pid(p) # r.pid
        BY <1>5, <1>7, <2>2, <3>1
      <4> QED BY <1>9, <3>1, <4>1 DEF Freed, Bank!Pid
    <3>2. CASE provider = "basiq" /\ old.siblings
      <4>1. Bank!Shared(old.row) \/ \A p \in live : p[1] # old.ref
        BY <1>4, <2>1, <3>2 DEF Steady
      <4> QED BY <1>7, <1>9, <2>2, <3>2, <4>1 DEF Freed, Bank!Shared
    <3>3. CASE provider \in {"gocardless", "belvo"} \/ (provider = "basiq" /\ ~ old.siblings)
      <4>1. \A p \in live' : p[1] # r.ref
        BY <1>5, <1>7, <2>2, <2>3, <3>3
      <4> QED BY <1>9, <3>3, <4>1 DEF Freed
    <3>4. CASE provider = "akahu"
      BY <3>4 DEF Sure
    <3> QED BY <1>1, <3>1, <3>2, <3>3, <3>4 DEF Bank!Providers
  <2>5. Sure' => Freed(r)'
    BY <1>9, <2>4 DEF Sure
  <2>6. Steady(r)'
    BY <1>4, <1>7, <1>9, <2>1, <2>5 DEF Steady
  <2> QED BY <1>14, <2>1, <2>6
<1> QED BY <1>8, <1>9, <1>10, <1>14, <1>15, <1>16, BankStepKeeps

\* The deletion ends, with nothing left alive that was linked.
LEMMA EraseKeeps ==
    ASSUME Bank!BankLinkAssumption, BankSafe, NEW w \in Worker, Bank!Erase(w), Grants, Disturbs
    PROVE  BankSafe'
<1>1. /\ req[w].op = "erase" /\ Working(w) /\ Bank!Become(w, Bank!Idle)
      /\ UNCHANGED << provider, stable, covers, live, events, status, budget >>
      /\ rows' = << >> /\ gone' = TRUE
  BY DEF Bank!Erase, Bank!bank, Bank!Finish, Working, Bank!Idle
<1>2. Bank!Idle \in BankWork /\ Knows(Bank!Idle)' /\ Steady(Bank!Idle)'
  BY DEF BankWork, Knows, Steady, Bank!Idle
<1>3. granted' = granted
  BY <1>1, <1>2, GrantsNothing
<1>4. rows' \in Seq(Bank!Rows) /\ Len(rows') = 0 /\ DOMAIN rows' = {}
  BY <1>1
<1>5. SharedTypes'
  BY <1>1, <1>3, <1>4, TypesShared DEF BankSafe, SharedTypes, Bank!BankLinkAssumption
<1>6. Consented'
  BY <1>1, <1>3, <1>4 DEF BankSafe, Consented
<1>7. \A q \in BankWork : Knows(q) => Knows(q)'
  BY <1>1 DEF Knows, Known
<1>8. ASSUME ~ disturbed' PROVE OwnHeld' /\ ExpiredIsOver'
  <2>1. Steady(req[w])
    BY <1>8 DEF Disturbs, BankSafe, Undisturbed, BankTypes
  <2> QED BY <1>1, <1>3, <1>4, <2>1 DEF OwnHeld, ExpiredIsOver, Steady, Sure
<1> QED BY <1>1, <1>2, <1>5, <1>6, <1>7, <1>8, BankStepKeeps

\* An account is linked to row i, which is there or is new.
LEMMA LinkedKeeps ==
    ASSUME Bank!BankLinkAssumption, BankSafe, NEW w \in Worker, Bank!Linking(w), NEW i \in Bank!RowIds,
           Bank!Linked(w, i), NEW p, p = req[w].pair,
           rows' \in Seq(Bank!Rows), Len(rows') <= MaxRow,
           DOMAIN rows \subseteq DOMAIN rows', DOMAIN rows' = DOMAIN rows \union {i},
           \A j \in DOMAIN rows : j # i => rows'[j] = rows[j] /\ rows[j].pid # Bank!Pid(p),
           rows'[i].pid = Bank!Pid(p),
           rows'[i].status \in Bank!AfterSync(Bank!Pid(p), rows'[i].ref),
           covers[rows'[i].ref] # None,
           ~ stable => rows'[i].acct = p[2] /\ rows'[i].ref = p[1],
           ~ disturbed /\ Steady(req[w]) => rows'[i].budget = budget[req[w].s],
           i \in DOMAIN rows /\ rows[i].pid # Bank!Pid(p) =>
             /\ provider \in {"gocardless", "belvo"}
             /\ ~ disturbed /\ Steady(req[w]) => rows[i].status = "consent_expired",
           Grants, Disturbs
    PROVE  BankSafe'
<1>1. SharedTypes /\ provider \in Bank!Providers /\ stable \in BOOLEAN
  BY TypesShared DEF BankSafe
<1>2. req[w].op = "complete" /\ p # None /\ req[w] \in BankWork /\ Working(w)
  BY BankTyped DEF Bank!Linking, BankSafe, Working, Bank!Idle
<1>3. PICK old : old = req[w]
  OBVIOUS
<1>4. old \in CompleteWork /\ old.op = "complete" /\ old.pair = p
  BY <1>2, <1>3, BankKinds
<1>5. p \in Bank!Pairs /\ p = <<p[1], p[2]>> /\ p[1] \in Session /\ p[2] \in Acct
  BY <1>2, <1>4 DEF CompleteWork, Bank!Pairs
<1>6. PICK r : r = [old EXCEPT !.todo = @ \ {old.pair}, !.pair = None, !.onto = None,
                               !.done = @ \union {i}]
  OBVIOUS
<1>7. /\ r \in CompleteWork /\ r.op = "complete" /\ r.s = old.s /\ r.todo = old.todo \ {p}
      /\ r.pair = None /\ r.onto = None /\ r.done = old.done \union {i}
  BY <1>4, <1>6 DEF CompleteWork
<1>8. r \in BankWork /\ r # Bank!Idle /\ r # old
  BY <1>2, <1>4, <1>7 DEF BankWork, Bank!Idle
<1>9. Bank!Become(w, r)
      /\ UNCHANGED << provider, stable, covers, live, events, status, budget, gone >>
  BY <1>3, <1>6 DEF Bank!Linked, Bank!bank
<1>10. granted' = granted \union {p}
  BY <1>3, <1>8, <1>9, GrantsPair
<1>11. SharedTypes'
  <2>1. \A j, k \in DOMAIN rows' : rows'[j].pid = rows'[k].pid => j = k
    <3>1. ASSUME NEW j \in DOMAIN rows', NEW k \in DOMAIN rows', rows'[j].pid = rows'[k].pid, j # k
          PROVE  FALSE
      <4>1. CASE j # i /\ k # i
        BY <1>1, <3>1, <4>1 DEF SharedTypes
      <4>2. CASE j = i \/ k = i
        BY <3>1, <4>2
      <4> QED BY <4>1, <4>2
    <3> QED BY <3>1
  <2> QED BY <1>1, <1>5, <1>9, <1>10, <2>1 DEF SharedTypes
<1>12. Knows(old) /\ Known(p)
  BY <1>2, <1>3, <1>4 DEF BankSafe, Knows
<1>13. \A q : Known(q) => Known(q)'
  BY <1>9 DEF Known
<1>14. Consented'
  <2>1. ASSUME NEW j \in DOMAIN rows' PROVE Known(PairOf(j))' /\ (~ stable' => rows'[j].pid = PairOf(j)')
    <3>1. PICK q : q = PairOf(j)'
      OBVIOUS
    <3>2. CASE j # i
      <4>1. q = PairOf(j) /\ j \in DOMAIN rows /\ rows'[j] = rows[j]
        BY <3>1, <3>2, <2>1 DEF PairOf
      <4>2. Known(q) /\ (~ stable => rows[j].pid = q)
        BY <4>1 DEF BankSafe, Consented
      <4>3. Known(q)'
        BY <1>13, <4>2
      <4> QED BY <3>1, <4>1, <4>2, <4>3, <1>9 DEF Known
    <3>3. CASE j = i /\ stable
      <4>1. provider # "basiq"
        BY <3>3 DEF BankSafe, Consented
      <4>2. q[1] = rows'[i].ref
        BY <3>1, <3>3 DEF PairOf
      <4> QED BY <3>1, <3>3, <4>1, <4>2, <1>9 DEF Known
    <3>4. CASE j = i /\ ~ stable
      <4>1. q = p
        BY <3>1, <3>4, <1>5 DEF PairOf
      <4>2. Known(q)'
        BY <1>12, <1>13, <4>1
      <4> QED BY <3>1, <3>4, <4>1, <4>2, <1>9 DEF Known, Bank!Pid
    <3> QED BY <1>1, <3>2, <3>3, <3>4
  <2>2. \A q \in live' \union granted' : covers'[q[1]] # None
    BY <1>9, <1>10, <1>12 DEF BankSafe, Consented, Known
  <2> QED BY <1>9, <2>1, <2>2 DEF BankSafe, Consented
<1>15. \A q \in BankWork : Knows(q) => Knows(q)'
  BY <1>9, <1>13 DEF Knows
<1>16. Knows(r)'
  <2>1. Knows(r)
    BY <1>7, <1>12, <1>4 DEF Knows
  <2> QED BY <1>8, <1>15, <2>1
<1>17. ASSUME ~ disturbed' PROVE OwnHeld' /\ ExpiredIsOver' /\ Steady(r)'
  <2>1. ~ disturbed /\ OwnHeld /\ ExpiredIsOver /\ Steady(old)
    BY <1>3, <1>17 DEF Disturbs, BankSafe, Undisturbed, BankTypes
  <2>2. rows'[i].budget = budget[old.s]
    BY <1>3, <2>1
  <2>3. rows'[i].status \in {"active", "consent_expired"}
        /\ (rows'[i].status = "consent_expired" => ~ Bank!Serves(Bank!Pid(p), rows'[i].ref))
    BY DEF Bank!AfterSync
  <2>4. ASSUME Sure, NEW q \in granted' \intersect live' PROVE \E j \in DOMAIN rows' : Owns(j, q)'
    <3>1. provider = "basiq" => ~ stable
      BY DEF BankSafe, Consented
    <3>2. CASE q = p
      BY <1>9, <2>3, <3>1, <3>2 DEF Owns, Bank!Pid
    <3>3. CASE q # p
      <4>1. q \in granted \intersect live
        BY <1>9, <1>10, <2>4, <3>3
      <4>2. PICK k \in DOMAIN rows : Owns(k, q)
        BY <2>1, <2>4, <4>1 DEF OwnHeld
      <4>3. CASE k # i
        BY <1>9, <4>2, <4>3 DEF Owns, Bank!Pid
      <4>4. CASE k = i /\ rows[i].pid = Bank!Pid(p)
        <5>1. CASE provider = "basiq"
          <6>1. PairOf(i) = p
            BY <3>1, <4>4, <5>1 DEF BankSafe, Consented, Bank!Pid
          <6>2. rows'[i].ref = rows[i].ref
            BY <3>1, <5>1, <6>1 DEF PairOf
          <6> QED BY <1>9, <2>3, <4>2, <4>4, <5>1, <6>2 DEF Owns
        <5>2. CASE provider # "basiq"
          BY <1>9, <2>3, <4>2, <4>4, <5>2 DEF Owns, Bank!Pid
        <5> QED BY <5>1, <5>2
      <4>5. CASE k = i /\ rows[i].pid # Bank!Pid(p)
        <5>1. provider \in {"gocardless", "belvo"} /\ rows[i].status = "consent_expired"
          BY <1>3, <2>1, <4>5
        <5>2. ~ stable
          BY <5>1, <2>4 DEF Sure, BankSafe, Consented
        <5>3. rows[i].pid \notin live
          BY <2>1, <4>5, <5>1, <5>2 DEF ExpiredIsOver
        <5> QED BY <4>1, <4>2, <4>5, <5>1, <5>2, <5>3 DEF Owns, Bank!Pid
      <4> QED BY <4>3, <4>4, <4>5
    <3> QED BY <3>2, <3>3
  <2>5. OwnHeld'
    BY <1>9, <2>4 DEF OwnHeld, Sure
  <2>6. ExpiredIsOver'
    <3> SUFFICES ASSUME ~ stable, NEW j \in DOMAIN rows', rows'[j].status = "consent_expired"
                 PROVE  rows'[j].pid \notin live
      BY <1>9 DEF ExpiredIsOver
    <3>1. CASE j # i
      BY <2>1, <3>1 DEF ExpiredIsOver
    <3>2. CASE j = i
      BY <2>3, <3>2 DEF Bank!Serves, Bank!Pid
    <3> QED BY <3>1, <3>2
  <2>7. \A j \in r.done \intersect DOMAIN rows' : rows'[j].budget = budget'[r.s]
    <3>1. \A j \in old.done \intersect DOMAIN rows : rows[j].budget = budget[old.s]
      BY <1>4, <2>1 DEF Steady
    <3> QED BY <1>7, <1>9, <2>2, <3>1
  <2>8. Steady(r)'
    BY <1>7, <2>7 DEF Steady
  <2> QED BY <2>5, <2>6, <2>8
<1> QED BY <1>8, <1>9, <1>11, <1>14, <1>15, <1>16, <1>17, BankStepKeeps

\* INSERT ... ON CONFLICT DO UPDATE.
LEMMA UpsertKeeps ==
    ASSUME Bank!BankLinkAssumption, BankSafe, NEW w \in Worker, Bank!LinkUpserting(w),
           Grants, Disturbs
    PROVE  BankSafe'
<1>1. SharedTypes /\ provider \in Bank!Providers
  BY TypesShared DEF BankSafe
<1>2. Bank!Linking(w) /\ Bank!Upsert(w) /\ req[w].op = "complete" /\ req[w] \in BankWork /\ Working(w)
  BY BankTyped DEF Bank!LinkUpserting, Bank!Linking, BankSafe, Working, Bank!Idle
<1>3. PICK p : p = req[w].pair
  OBVIOUS
<1>4. req[w] \in CompleteWork /\ p # None
  BY <1>2, <1>3, BankKinds DEF Bank!Linking
<1>5. /\ p \in Bank!Pairs /\ p = <<p[1], p[2]>> /\ p[1] \in Session /\ p[2] \in Acct
      /\ Bank!Pid(p) \in Acct \union Bank!Pairs /\ req[w].s \in Session
  BY <1>3, <1>4 DEF CompleteWork, Bank!Pairs, Bank!Pid
<1>6. status[req[w].s] # "none" /\ Known(p)
  BY <1>2, <1>3, <1>4 DEF BankSafe, Knows
<1>7. CASE gone
  BY <1>2, <1>7, RefusedKeeps DEF Bank!Upsert
<1>8. ASSUME NEW i \in Bank!RowsOf(Bank!Pid(p)), NEW st \in Bank!AfterSync(Bank!Pid(p), Bank!RefAfter(w, i)),
             rows' = [rows EXCEPT ![i].status = st, ![i].ref = Bank!RefAfter(w, i)], Bank!Linked(w, i)
      PROVE  BankSafe'
  <2>1. i \in DOMAIN rows /\ rows[i].pid = Bank!Pid(p) /\ rows[i] \in Bank!Rows /\ i \in Bank!RowIds
    BY RowIdsAre DEF Bank!RowsOf
  <2>2. PICK ref : ref = Bank!RefAfter(w, i)
    OBVIOUS
  <2>3. ref \in {p[1], rows[i].ref} /\ ref \in Session
    BY <1>3, <1>5, <2>1, <2>2 DEF Bank!RefAfter, Bank!Rows
  <2>4. covers[ref] # None
    BY <1>6, <2>1, <2>3 DEF Known, BankSafe, Consented, PairOf
  <2>5. st \in Statuses
    BY DEF Bank!AfterSync, Statuses
  <2>6. PICK new : new = [rows[i] EXCEPT !.status = st, !.ref = ref]
    OBVIOUS
  <2>7. /\ new \in Bank!Rows /\ new.pid = Bank!Pid(p) /\ new.ref = ref /\ new.status = st
        /\ new.acct = rows[i].acct /\ new.budget = rows[i].budget
    BY <2>1, <2>3, <2>5, <2>6 DEF Bank!Rows, Statuses
  <2>8. rows' = [rows EXCEPT ![i] = new]
    BY <1>8, <2>1, <2>2, <2>6
  <2>9. /\ rows' \in Seq(Bank!Rows) /\ Len(rows') = Len(rows) /\ DOMAIN rows' = DOMAIN rows
        /\ rows'[i] = new
        /\ \A j \in DOMAIN rows : j # i => rows'[j] = rows[j]
    BY <2>1, <2>7, <2>8, RowPut
  <2>10. \A j \in DOMAIN rows : j # i => rows[j].pid # Bank!Pid(p)
    BY <1>1, <2>1 DEF SharedTypes
  <2>11. ~ stable => rows'[i].acct = p[2] /\ rows'[i].ref = p[1]
    <3>1. ~ stable => PairOf(i) = p
      BY <2>1 DEF BankSafe, Consented, Bank!Pid
    <3> QED BY <2>1, <2>3, <2>7, <2>9, <3>1, <1>5 DEF PairOf
  <2>12. Steady(req[w]) => rows[i].budget = budget[req[w].s]
    BY <1>2, <1>3, <1>4 DEF Steady
  <2>13. Len(rows') <= MaxRow
    BY <1>1, <2>9 DEF SharedTypes
  <2>14. /\ rows'[i].pid = Bank!Pid(p)
         /\ rows'[i].status \in Bank!AfterSync(Bank!Pid(p), rows'[i].ref)
         /\ covers[rows'[i].ref] # None
         /\ rows'[i].budget = rows[i].budget
    BY <1>8, <2>2, <2>4, <2>7, <2>9
  <2>15. DOMAIN rows \subseteq DOMAIN rows' /\ DOMAIN rows' = DOMAIN rows \union {i}
    BY <2>1, <2>9
  <2>16. ~ disturbed /\ Steady(req[w]) => rows'[i].budget = budget[req[w].s]
    BY <2>12, <2>14
  <2> HIDE DEF Statuses
  <2> QED BY <1>2, <1>3, <1>8, <2>1, <2>9, <2>10, <2>11, <2>13, <2>14, <2>15, <2>16, LinkedKeeps
<1>9. ASSUME Bank!RowsOf(Bank!Pid(p)) = {}, NEW st \in Bank!AfterSync(Bank!Pid(p), p[1]), Len(rows) < MaxRow,
             rows' = Append(rows, [pid |-> Bank!Pid(p), acct |-> p[2], ref |-> p[1],
                                   budget |-> budget[req[w].s], status |-> st]),
             Bank!Linked(w, Len(rows'))
      PROVE  BankSafe'
  <2>1. rows \in Seq(Bank!Rows) /\ DOMAIN rows = 1 .. Len(rows) /\ Len(rows) \in Nat
    BY RowIdsAre
  <2>2. PICK new : new = [pid |-> Bank!Pid(p), acct |-> p[2], ref |-> p[1],
                          budget |-> budget[req[w].s], status |-> st]
    OBVIOUS
  <2>3. budget[req[w].s] \in Budget
    BY <1>1, <1>5, <1>6 DEF SharedTypes, BankSafe, Consented
  <2>4. st \in {"active", "consent_expired", "disconnected"}
    BY DEF Bank!AfterSync
  <2>5. new \in Bank!Rows
    BY <1>5, <2>2, <2>3, <2>4 DEF Bank!Rows
  <2>6. PICK i : i = Len(rows) + 1
    OBVIOUS
  <2>7. rows' = Append(rows, new)
    BY <1>9, <2>2
  <2>8. /\ rows' \in Seq(Bank!Rows) /\ Len(rows') = i /\ DOMAIN rows' = DOMAIN rows \union {i}
        /\ rows'[i] = new /\ i \notin DOMAIN rows
        /\ \A j \in DOMAIN rows : rows'[j] = rows[j]
    BY <2>1, <2>5, <2>6, <2>7
  <2>9. i \in Bank!RowIds /\ Len(rows') <= MaxRow
    BY <1>9, <2>1, <2>6, <2>8 DEF Bank!RowIds, Bank!BankLinkAssumption
  <2>10. \A j \in DOMAIN rows : rows[j].pid # Bank!Pid(p)
    BY <1>9 DEF Bank!RowsOf
  <2>11. /\ rows'[i].pid = Bank!Pid(p) /\ rows'[i].ref = p[1] /\ rows'[i].acct = p[2]
         /\ rows'[i].status \in Bank!AfterSync(Bank!Pid(p), rows'[i].ref)
         /\ covers[rows'[i].ref] # None
         /\ rows'[i].budget = budget[req[w].s]
    BY <1>6, <2>2, <2>8 DEF Known
  <2>12. Bank!Linked(w, i)
    BY <1>9, <2>8
  <2>13. DOMAIN rows \subseteq DOMAIN rows'
    BY <2>8
  <2> QED BY <1>2, <1>3, <2>8, <2>9, <2>10, <2>11, <2>12, <2>13, LinkedKeeps
<1>10. CASE ~ gone
  BY <1>2, <1>3, <1>8, <1>9, <1>10 DEF Bank!Upsert
<1> QED BY <1>1, <1>7, <1>10

\* UPDATE ... WHERE id, of a row that waits for a new consent.
LEMMA ReuseKeeps ==
    ASSUME Bank!BankLinkAssumption, BankSafe, NEW w \in Worker, Bank!Linking(w),
           req[w].onto # None, Bank!Reuse(w, req[w].onto), provider \in {"gocardless", "belvo"},
           Grants, Disturbs
    PROVE  BankSafe'
<1>1. SharedTypes
  BY TypesShared DEF BankSafe
<1>2. req[w].op = "complete" /\ req[w] \in BankWork /\ Working(w)
  BY BankTyped DEF Bank!Linking, BankSafe, Working, Bank!Idle
<1>3. PICK p, i : p = req[w].pair /\ i = req[w].onto
  OBVIOUS
<1>4. req[w] \in CompleteWork /\ p # None /\ i # None
  BY <1>2, <1>3, BankKinds DEF Bank!Linking
<1>5. /\ p \in Bank!Pairs /\ p[1] \in Session /\ p[2] \in Acct
      /\ Bank!Pid(p) \in Acct \union Bank!Pairs /\ i \in Bank!RowIds
  BY <1>3, <1>4 DEF CompleteWork, Bank!Pairs, Bank!Pid
<1>6. Known(p)
  BY <1>2, <1>3, <1>4 DEF BankSafe, Knows
<1>7. CASE i \notin DOMAIN rows \/ Bank!RowsOf(Bank!Pid(p)) \ {i} # {}
  BY <1>2, <1>3, <1>7, RefusedKeeps DEF Bank!Reuse
<1>8. ASSUME i \in DOMAIN rows, Bank!RowsOf(Bank!Pid(p)) \ {i} = {},
             NEW st \in Bank!AfterSync(Bank!Pid(p), p[1]),
             rows' = [rows EXCEPT ![i] = [@ EXCEPT !.pid = Bank!Pid(p), !.acct = p[2],
                                                   !.ref = p[1], !.status = st]],
             Bank!Linked(w, i)
      PROVE  BankSafe'
  <2>1. rows[i] \in Bank!Rows
    BY <1>8, RowIdsAre
  <2>2. st \in {"active", "consent_expired", "disconnected"}
    BY DEF Bank!AfterSync
  <2>3. PICK new : new = [rows[i] EXCEPT !.pid = Bank!Pid(p), !.acct = p[2], !.ref = p[1], !.status = st]
    OBVIOUS
  <2>4. /\ new \in Bank!Rows /\ new.pid = Bank!Pid(p) /\ new.ref = p[1] /\ new.status = st
        /\ new.acct = p[2] /\ new.budget = rows[i].budget
    BY <1>5, <2>1, <2>2, <2>3 DEF Bank!Rows
  <2>5. rows' = [rows EXCEPT ![i] = new]
    BY <1>8, <2>3
  <2>6. /\ rows' \in Seq(Bank!Rows) /\ Len(rows') = Len(rows) /\ DOMAIN rows' = DOMAIN rows
        /\ rows'[i] = new
        /\ \A j \in DOMAIN rows : j # i => rows'[j] = rows[j]
    BY <1>8, <2>4, <2>5, RowPut
  <2>7. \A j \in DOMAIN rows : j # i => rows[j].pid # Bank!Pid(p)
    BY <1>8 DEF Bank!RowsOf
  <2>8. Steady(req[w]) => rows[i].budget = budget[req[w].s] /\ rows[i].status = "consent_expired"
    BY <1>2, <1>3, <1>4 DEF Steady
  <2>9. Len(rows') <= MaxRow /\ DOMAIN rows \subseteq DOMAIN rows' /\ DOMAIN rows' = DOMAIN rows \union {i}
    BY <1>1, <1>8, <2>6 DEF SharedTypes
  <2>10. /\ rows'[i].pid = Bank!Pid(p)
         /\ rows'[i].status \in Bank!AfterSync(Bank!Pid(p), rows'[i].ref)
         /\ covers[rows'[i].ref] # None
         /\ ~ stable => rows'[i].acct = p[2] /\ rows'[i].ref = p[1]
         /\ rows'[i].budget = rows[i].budget
    BY <1>6, <1>8, <2>4, <2>6 DEF Known
  <2>11. ~ disturbed /\ Steady(req[w]) => rows'[i].budget = budget[req[w].s]
    BY <2>8, <2>10
  <2> QED BY <1>3, <1>5, <1>8, <2>6, <2>7, <2>8, <2>9, <2>10, <2>11, LinkedKeeps
<1> QED BY <1>3, <1>7, <1>8 DEF Bank!Reuse

LEMMA LinkKeeps ==
    ASSUME Bank!BankLinkAssumption, BankSafe, NEW w \in Worker,
           \/ Bank!LinkStripe(w) \/ Bank!LinkGoCardless(w) \/ Bank!LinkBelvo(w)
           \/ Bank!LinkBasiq(w) \/ Bank!LinkAkahu(w),
           Grants, Disturbs
    PROVE  BankSafe'
<1>1. CASE Bank!LinkUpserting(w)
  BY <1>1, UpsertKeeps
<1>2. CASE ~ Bank!LinkUpserting(w)
  <2>1. /\ req[w].onto # None /\ Bank!Linking(w) /\ Bank!Reuse(w, req[w].onto)
        /\ provider \in {"gocardless", "belvo"}
    BY <1>2 DEF Bank!LinkStripe, Bank!LinkGoCardless, Bank!LinkBelvo, Bank!LinkBasiq,
       Bank!LinkAkahu, Bank!LinkOrReuse
  <2> QED BY <2>1, ReuseKeeps
<1> QED BY <1>1, <1>2

\* What happens outside the requests: at the bank, when a session is opened, and when
\* a provider reports.
LEMMA GrantsSame ==
    ASSUME UNCHANGED req, Grants
    PROVE  granted' = granted
BY DEF Grants

LEMMA OutsideKeeps ==
    ASSUME BankSafe, UNCHANGED << provider, stable, req >>, Disturbs, SharedTypes', Consented',
           \A q \in BankWork : Knows(q) => Knows(q)',
           ~ disturbed /\ ~ Bank!LateReport /\ OwnHeld /\ ExpiredIsOver =>
             /\ OwnHeld' /\ ExpiredIsOver'
             /\ \A q \in BankWork : Knows(q) /\ Steady(q) => Steady(q)'
    PROVE  BankSafe'
<1>1. req \in [Worker -> BankWork]
  BY BankTyped DEF BankSafe
<1>2. BankTypes'
  <2>1. req' \in [Worker -> Bank!Work]
    BY DEF BankSafe, BankTypes, Bank!TypeOK
  <2>2. provider \in Bank!Providers /\ stable \in BOOLEAN
    BY TypesShared DEF BankSafe
  <2>3. disturbed' \in BOOLEAN
    BY DEF Disturbs
  <2> QED BY <2>1, <2>2, <2>3 DEF BankTypes, Bank!TypeOK, SharedTypes
<1>3. ASSUME NEW v \in Worker, NEW q, q = req[v] PROVE q \in BankWork /\ Knows(q) /\ Knows(q)'
  BY <1>1, <1>3 DEF BankSafe
<1>4. \A v \in Worker : Knows(req[v])'
  <2>1. ASSUME NEW v \in Worker, NEW q, q = req'[v] PROVE Knows(q)'
    BY <1>3, <2>1
  <2> QED BY <2>1
<1>5. Undisturbed'
  <2> SUFFICES ASSUME ~ disturbed'
               PROVE  /\ \A u, v \in Worker : Working(u)' /\ Working(v)' => u = v
                      /\ OwnHeld' /\ ExpiredIsOver'
                      /\ \A v \in Worker : Steady(req[v])'
    BY DEF Undisturbed
  <2>1. ~ disturbed /\ ~ Bank!LateReport
    BY DEF Disturbs
  <2>2. /\ OwnHeld /\ ExpiredIsOver
        /\ \A u, v \in Worker : Working(u) /\ Working(v) => u = v
        /\ \A v \in Worker : Steady(req[v])
    BY <2>1 DEF BankSafe, Undisturbed
  <2>3. \A u, v \in Worker : Working(u)' /\ Working(v)' => u = v
    BY <2>2 DEF Working
  <2>4. OwnHeld' /\ ExpiredIsOver' /\ \A q \in BankWork : Knows(q) /\ Steady(q) => Steady(q)'
    BY <2>1, <2>2
  <2>5. ASSUME NEW v \in Worker, NEW q, q = req'[v] PROVE Steady(q)'
    <3>1. q \in BankWork /\ Knows(q) /\ Steady(q)
      BY <1>3, <2>2, <2>5
    <3> QED BY <2>4, <3>1
  <2>6. \A v \in Worker : Steady(req[v])'
    BY <2>5
  <2> QED BY <2>3, <2>4, <2>6
<1> QED BY <1>2, <1>4, <1>5 DEF BankSafe

LEMMA OpenSessionKeeps ==
    ASSUME Bank!BankLinkAssumption, BankSafe, NEW s \in Session, NEW b \in Budget,
           Bank!OpenSession(s, b), Grants, Disturbs
    PROVE  BankSafe'
<1>1. SharedTypes
  BY TypesShared DEF BankSafe
<1>2. /\ status[s] = "none" /\ status' = [status EXCEPT ![s] = "pending"]
      /\ budget' = [budget EXCEPT ![s] = b]
      /\ UNCHANGED << provider, stable, covers, live, events, rows, gone, req >>
  BY DEF Bank!OpenSession, Bank!bank
<1>3. granted' = granted
  BY <1>2, GrantsSame
<1>4. b # None
  BY DEF Bank!BankLinkAssumption
<1>5. SharedTypes'
  BY <1>1, <1>2, <1>3 DEF SharedTypes
<1>6. \A p : Known(p) => Known(p)'
  BY <1>2 DEF Known
<1>7. Consented'
  <2>1. \A v \in Session : status'[v] # "none" => budget'[v] # None
    BY <1>1, <1>2, <1>4 DEF SharedTypes, BankSafe, Consented
  <2>2. \A i \in DOMAIN rows' : Known(PairOf(i))' /\ (~ stable' => rows'[i].pid = PairOf(i)')
    BY <1>2 DEF BankSafe, Consented, Known, PairOf
  <2> QED BY <1>2, <1>3, <2>1, <2>2 DEF BankSafe, Consented
<1>8. \A q \in BankWork : Knows(q) => Knows(q)'
  <2> SUFFICES ASSUME NEW q \in BankWork, Knows(q), q.op = "complete" PROVE Knows(q)'
    BY DEF Knows
  <2>1. q.s \in Session
    BY BankKinds DEF CompleteWork
  <2>2. status'[q.s] # "none"
    BY <1>1, <1>2, <2>1 DEF SharedTypes, Knows
  <2> QED BY <1>6, <2>2 DEF Knows
<1>9. OwnHeld /\ ExpiredIsOver => OwnHeld' /\ ExpiredIsOver'
  BY <1>2, <1>3 DEF OwnHeld, ExpiredIsOver, Sure, Owns, Bank!Pid
<1>10. ASSUME NEW q \in BankWork, Knows(q), Steady(q) PROVE Steady(q)'
  <2>1. q.op = "complete" => budget'[q.s] = budget[q.s]
    <3>1. q.op = "complete" => q.s \in Session
      BY BankKinds DEF CompleteWork
    <3> QED BY <1>1, <1>2, <1>10, <3>1 DEF SharedTypes, Knows
  <2> QED BY <1>2, <1>3, <1>10, <2>1 DEF Steady, Freed, Sure, Bank!Shared, Bank!RowsOf, Bank!Pid
<1> QED BY <1>2, <1>5, <1>7, <1>8, <1>9, <1>10, OutsideKeeps

LEMMA WithdrawKeeps ==
    ASSUME Bank!BankLinkAssumption, BankSafe, NEW s \in Session, Bank!Withdraw(s), Grants, Disturbs
    PROVE  BankSafe'
<1>1. SharedTypes
  BY TypesShared DEF BankSafe
<1>2. PICK pairs : pairs = {s} \X Acct
  OBVIOUS
<1>3. /\ Bank!Cut(pairs)
      /\ UNCHANGED << provider, stable, covers, status, budget, rows, gone, req >>
  BY <1>2 DEF Bank!Withdraw
<1>4. granted' = granted
  BY <1>3, GrantsSame
<1>5. pairs \subseteq Bank!Pairs
  BY <1>2 DEF Bank!Pairs
<1>6. /\ SharedTypes' /\ Consented' /\ \A q \in BankWork : Knows(q) => Knows(q)'
      /\ live' = live \ pairs
      /\ OwnHeld => OwnHeld'
      /\ ExpiredIsOver => ExpiredIsOver'
  BY <1>1, <1>2, <1>3, <1>4, <1>5, CutKeeps DEF SharedTypes
<1>7. ASSUME NEW q \in BankWork, Steady(q) PROVE Steady(q)'
  <2>1. live' \subseteq live
    BY <1>6
  <2>2. Freed(q) => Freed(q)'
    BY <1>3, <1>4, <2>1 DEF Freed, Bank!Shared, Bank!Pid
  <2>3. /\ Sure' = Sure /\ Bank!Shared(q.row)' = Bank!Shared(q.row)
        /\ Bank!RowsOf(Bank!Pid(q.pair))' = Bank!RowsOf(Bank!Pid(q.pair))
    BY <1>3 DEF Sure, Bank!Shared, Bank!RowsOf, Bank!Pid
  <2>4. granted' \intersect live' \subseteq granted \intersect live
    BY <1>4, <2>1
  <2> QED BY <1>3, <1>7, <2>1, <2>2, <2>3, <2>4 DEF Steady
<1> QED BY <1>3, <1>6, <1>7, OutsideKeeps

LEMMA ConsentKeeps ==
    ASSUME Bank!BankLinkAssumption, BankSafe, NEW s \in Session, NEW accts \in SUBSET Acct,
           Bank!Consent(s, accts), Grants, Disturbs
    PROVE  BankSafe'
<1>1. SharedTypes
  BY TypesShared DEF BankSafe
<1>2. /\ covers[s] = None /\ status[s] # "none"
      /\ covers' = [covers EXCEPT ![s] = accts] /\ live' = live \union ({s} \X accts)
      /\ UNCHANGED << provider, stable, events, status, budget, rows, gone, req >>
  BY DEF Bank!Consent
<1>3. granted' = granted
  BY <1>2, GrantsSame
<1>4. accts # None
  BY DEF Bank!BankLinkAssumption
<1>5. SharedTypes'
  <2>1. live' \subseteq Bank!Pairs
    BY <1>1, <1>2 DEF SharedTypes, Bank!Pairs
  <2>2. covers' \in [Session -> (SUBSET Acct) \union {None}]
    BY <1>1, <1>2 DEF SharedTypes
  <2> QED BY <1>1, <1>2, <1>3, <2>1, <2>2 DEF SharedTypes
<1>6. \A v \in Session : covers[v] # None => covers'[v] # None /\ v # s
  BY <1>1, <1>2, <1>4 DEF SharedTypes
<1>7. \A q : q[1] # s => (q \in live' <=> q \in live)
  BY <1>2
<1>8. ASSUME NEW p \in Bank!Pairs, Known(p) PROVE Known(p)' /\ p[1] # s
  <2>1. p[1] \in Session
    BY DEF Bank!Pairs
  <2>2. covers'[p[1]] # None /\ p[1] # s
    BY <1>6, <1>8, <2>1 DEF Known
  <2>3. p \in live' <=> p \in live
    BY <1>7, <2>2
  <2>4. (\E q \in live' : q[1] = p[1]) <=> (\E q \in live : q[1] = p[1])
    BY <1>2, <1>7, <2>2
  <2> QED BY <1>2, <1>8, <2>2, <2>3, <2>4 DEF Known
<1>9. ASSUME NEW i \in DOMAIN rows
      PROVE  Known(PairOf(i))' /\ rows[i].ref # s /\ (~ stable => rows[i].pid = PairOf(i))
  <2>1. PICK p : p = PairOf(i)
    OBVIOUS
  <2>2. PairOf(i)' = p /\ p[1] = rows[i].ref
    BY <1>2, <2>1 DEF PairOf
  <2>3. p \in Bank!Pairs
    BY <2>1, RowIdsAre DEF PairOf, Bank!Rows, Bank!Pairs
  <2>4. Known(p)' /\ p[1] # s
    BY <1>8, <2>1, <2>3 DEF BankSafe, Consented
  <2> QED BY <2>1, <2>2, <2>4 DEF Known, BankSafe, Consented
<1>10. Consented'
  <2>1. \A i \in DOMAIN rows' : Known(PairOf(i))' /\ (~ stable' => rows'[i].pid = PairOf(i)')
    BY <1>2, <1>9 DEF PairOf
  <2>2. \A p \in live \union granted : covers'[p[1]] # None
    BY <1>1, <1>6 DEF BankSafe, Consented, SharedTypes, Bank!Pairs
  <2>3. \A p \in live' \union granted' : covers'[p[1]] # None
    BY <1>1, <1>2, <1>3, <1>4, <2>2 DEF SharedTypes
  <2> QED BY <1>2, <2>1, <2>3 DEF BankSafe, Consented
<1>11. \A q \in BankWork : Knows(q) => Knows(q)'
  <2> SUFFICES ASSUME NEW q \in BankWork, Knows(q), q.op = "complete" PROVE Knows(q)'
    BY DEF Knows
  <2>1. q.todo \subseteq Bank!Pairs /\ (q.pair # None => q.pair \in Bank!Pairs)
    BY BankKinds DEF CompleteWork
  <2> QED BY <1>2, <1>8, <2>1 DEF Knows
<1>12. granted' \intersect live' = granted \intersect live
  <2>1. \A p \in granted : p[1] # s
    BY <1>1, <1>2 DEF BankSafe, Consented
  <2> QED BY <1>3, <1>7, <2>1
<1>13. OwnHeld => OwnHeld'
  BY <1>2, <1>12 DEF OwnHeld, Sure, Owns, Bank!Pid
<1>14. ~ stable => \A i \in DOMAIN rows : rows[i].pid \notin live => rows[i].pid \notin live'
  BY <1>7, <1>9 DEF PairOf
<1>15. ExpiredIsOver => ExpiredIsOver'
  BY <1>2, <1>14 DEF ExpiredIsOver
<1>16. ASSUME NEW q \in BankWork, Steady(q) PROVE Steady(q)'
  <2>1. /\ Sure' = Sure /\ Bank!Shared(q.row)' = Bank!Shared(q.row)
        /\ Bank!RowsOf(Bank!Pid(q.pair))' = Bank!RowsOf(Bank!Pid(q.pair))
    BY <1>2 DEF Sure, Bank!Shared, Bank!RowsOf, Bank!Pid
  <2>2. q.op \in {"sync", "expire", "revoke", "flip"} =>
          q.row \in DOMAIN rows /\ rows[q.row].pid = q.pid /\ rows[q.row].ref = q.ref /\ q.ref # s
    BY <1>9, <1>16 DEF Steady
  <2>3. q.op = "expire" /\ ~ stable => q.pid \notin live'
    BY <1>14, <1>16, <2>2 DEF Steady
  <2>4. q.op \in {"revoke", "flip"} =>
          ((\A p \in live : p[1] # q.ref) => (\A p \in live' : p[1] # q.ref))
    BY <1>2, <2>2
  <2>5. q.op = "flip" => (Freed(q) => Freed(q)')
    BY <1>2, <1>12, <2>1, <2>4 DEF Freed, Bank!Pid
  <2>6. q.op = "revoke" /\ provider = "basiq" =>
          IF q.siblings THEN Bank!Shared(q.row) \/ \A p \in live' : p[1] # q.ref
          ELSE ~ Bank!Shared(q.row)
    BY <1>16, <2>4 DEF Steady
  <2> QED BY <1>2, <1>12, <1>16, <2>1, <2>2, <2>3, <2>5, <2>6 DEF Steady
<1> QED BY <1>2, <1>5, <1>10, <1>11, <1>13, <1>15, <1>16, OutsideKeeps

LEMMA DeliverKeeps ==
    ASSUME Bank!BankLinkAssumption, BankSafe, NEW e \in events, Bank!Deliver(e), Grants, Disturbs
    PROVE  BankSafe'
<1>1. UNCHANGED << provider, stable, covers, live, events, status, budget, gone, req >>
  BY DEF Bank!Deliver, Bank!bank
<1>2. granted' = granted
  BY <1>1, GrantsSame
<1>3. rows \in Seq(Bank!Rows) /\ DOMAIN rows = 1 .. Len(rows) /\ Len(rows) \in Nat
      /\ \A i \in DOMAIN rows : rows[i] \in Bank!Rows
  BY RowIdsAre
<1>4. \E hit \in SUBSET DOMAIN rows :
        /\ \A i \in hit : rows[i].status = "active"
        /\ rows' = [i \in DOMAIN rows |->
                      IF i \in hit THEN [rows[i] EXCEPT !.status = "disconnected"] ELSE rows[i]]
  <2>1. PICK hit : hit = {i \in DOMAIN rows :
                            rows[i].status = "active"
                              /\ e = (IF provider = "stripe" THEN rows[i].pid ELSE rows[i].ref)}
    OBVIOUS
  <2>2. rows' = [i \in DOMAIN rows |->
                   IF i \in hit THEN [rows[i] EXCEPT !.status = "disconnected"] ELSE rows[i]]
    BY <2>1 DEF Bank!Deliver
  <2> QED BY <2>1, <2>2
<1>5. PICK hit \in SUBSET DOMAIN rows :
        /\ \A i \in hit : rows[i].status = "active"
        /\ rows' = [i \in DOMAIN rows |->
                      IF i \in hit THEN [rows[i] EXCEPT !.status = "disconnected"] ELSE rows[i]]
  BY <1>4
<1>6. ASSUME NEW i \in DOMAIN rows
      PROVE  /\ rows'[i] \in Bank!Rows
             /\ rows'[i].pid = rows[i].pid /\ rows'[i].ref = rows[i].ref
             /\ rows'[i].acct = rows[i].acct /\ rows'[i].budget = rows[i].budget
             /\ i \notin hit => rows'[i] = rows[i]
             /\ i \in hit => rows'[i].status = "disconnected"
  <2>1. CASE i \in hit
    <3>1. PICK old, new : old = rows[i] /\ new = [old EXCEPT !.status = "disconnected"]
      OBVIOUS
    <3>2. rows'[i] = new
      BY <1>5, <2>1, <3>1
    <3>3. old \in Bank!Rows
      BY <1>3, <3>1
    <3>4. /\ new \in Bank!Rows /\ new.pid = old.pid /\ new.ref = old.ref /\ new.acct = old.acct
          /\ new.budget = old.budget /\ new.status = "disconnected"
      BY <3>1, <3>3 DEF Bank!Rows
    <3> QED BY <2>1, <3>1, <3>2, <3>4
  <2>2. CASE i \notin hit
    BY <1>3, <1>5, <2>2
  <2> QED BY <2>1, <2>2
<1>7. SameRows
  <2>1. rows' \in [1 .. Len(rows) -> Bank!Rows]
    BY <1>3, <1>5, <1>6
  <2>2. rows' \in Seq(Bank!Rows) /\ Len(rows') = Len(rows) /\ DOMAIN rows' = DOMAIN rows
    BY <1>3, <2>1
  <2> QED BY <1>6, <2>2 DEF SameRows
<1>8. SharedTypes' /\ Consented' /\ \A q \in BankWork : Knows(q) => Knows(q)'
  BY <1>1, <1>2, <1>7, SameRowsKeep
<1>9. ASSUME ~ disturbed, ~ Bank!LateReport, OwnHeld, ExpiredIsOver
      PROVE  /\ OwnHeld' /\ ExpiredIsOver'
             /\ \A q \in BankWork : Knows(q) /\ Steady(q) => Steady(q)'
  <2>1. ASSUME NEW i \in hit PROVE ~ Bank!Serves(rows[i].pid, rows[i].ref)
    <3>1. i \in DOMAIN rows \intersect DOMAIN rows'
      BY <1>7 DEF SameRows
    <3>2. rows[i].status = "active" /\ rows'[i].status = "disconnected"
      BY <1>5, <1>6
    <3> QED BY <1>1, <1>9, <3>1, <3>2 DEF Bank!LateReport
  <2>2. ASSUME provider = "basiq", NEW i \in hit, NEW p \in live, p[1] = rows[i].ref PROVE FALSE
    <3>1. Known(PairOf(i)) /\ rows[i].pid = PairOf(i) /\ ~ stable
      BY <2>2 DEF BankSafe, Consented
    <3>2. PairOf(i) \in live
      BY <2>2, <3>1 DEF Known, PairOf
    <3> QED BY <2>1, <2>2, <3>1, <3>2 DEF Bank!Serves, Bank!Pid
  <2>3. ASSUME Sure, NEW p \in granted \intersect live PROVE \E j \in DOMAIN rows' : Owns(j, p)'
    <3>1. PICK k \in DOMAIN rows : Owns(k, p)
      BY <1>9, <2>3 DEF OwnHeld
    <3>2. CASE k \notin hit
      BY <1>1, <1>6, <1>7, <3>1, <3>2 DEF Owns, SameRows, Bank!Pid
    <3>3. CASE k \in hit
      <4>1. provider # "basiq"
        BY <2>2, <2>3, <3>1, <3>3 DEF Owns
      <4>2. rows[k].pid = Bank!Pid(p)
        BY <3>1, <4>1 DEF Owns
      <4>3. provider \in {"belvo", "akahu"} => p[1] = rows[k].ref
        <5>1. ~ stable => rows[k].pid = PairOf(k) /\ Bank!Pid(p) = p
          BY DEF BankSafe, Consented, Bank!Pid
        <5>2. provider \in {"belvo", "akahu"} => ~ stable
          BY <2>3 DEF Sure, BankSafe, Consented
        <5> QED BY <4>2, <5>1, <5>2 DEF PairOf
      <4>4. Bank!Serves(rows[k].pid, rows[k].ref)
        BY <2>3, <4>2, <4>3 DEF Bank!Serves
      <4> QED BY <2>1, <3>3, <4>4
    <3> QED BY <3>2, <3>3
  <2>4. OwnHeld'
    BY <1>1, <1>2, <2>3 DEF OwnHeld, Sure
  <2>5. ExpiredIsOver'
    BY <1>1, <1>6, <1>7, <1>9 DEF ExpiredIsOver, SameRows
  <2>6. ASSUME NEW q \in BankWork, Steady(q) PROVE Steady(q)'
    <3>1. q.op \in {"sync", "expire", "revoke", "flip"} =>
            q.row \in DOMAIN rows /\ rows[q.row].pid = q.pid /\ rows[q.row].ref = q.ref
      BY <2>6 DEF Steady
    <3>2. \A i \in DOMAIN rows : Bank!Shared(i)' => Bank!Shared(i)
      BY <1>6, <1>7 DEF Bank!Shared, SameRows
    <3>3. ASSUME NEW i \in DOMAIN rows, provider = "basiq", Bank!Shared(i), ~ Bank!Shared(i)'
          PROVE  \A p \in live : p[1] # rows[i].ref
      <4>1. PICK j \in DOMAIN rows : j # i /\ rows[j].ref = rows[i].ref /\ rows[j].status = "active"
        BY <3>3 DEF Bank!Shared
      <4>2. j \in hit
        BY <1>6, <1>7, <3>3, <4>1 DEF Bank!Shared, SameRows
      <4> QED BY <2>2, <3>3, <4>1, <4>2
    <3>4. Sure' = Sure
      BY <1>1 DEF Sure
    <3>5. q.op = "flip" => (Freed(q) => Freed(q)')
      <4>1. CASE provider = "basiq"
        BY <1>1, <3>1, <3>3, <4>1 DEF Freed
      <4>2. CASE provider # "basiq"
        BY <1>1, <1>2, <4>2 DEF Freed, Bank!Pid
      <4> QED BY <4>1, <4>2
    <3>6. q.op = "revoke" /\ provider = "basiq" =>
            IF q.siblings THEN Bank!Shared(q.row)' \/ \A p \in live : p[1] # q.ref
            ELSE ~ Bank!Shared(q.row)'
      BY <2>6, <3>1, <3>2, <3>3 DEF Steady
    <3>7. q.op = "complete" =>
            /\ \A i \in q.done \intersect DOMAIN rows' : rows'[i].budget = budget[q.s]
            /\ q.pair # None =>
                 \A i \in Bank!RowsOf(Bank!Pid(q.pair))' : rows'[i].budget = budget[q.s]
            /\ q.onto # None => /\ q.onto \in DOMAIN rows' /\ rows'[q.onto].budget = budget[q.s]
                                /\ rows'[q.onto].status = "consent_expired"
      <4> SUFFICES ASSUME q.op = "complete"
                   PROVE  /\ \A i \in q.done \intersect DOMAIN rows' : rows'[i].budget = budget[q.s]
                          /\ q.pair # None =>
                               \A i \in Bank!RowsOf(Bank!Pid(q.pair))' : rows'[i].budget = budget[q.s]
                          /\ q.onto # None => /\ q.onto \in DOMAIN rows' /\ rows'[q.onto].budget = budget[q.s]
                                              /\ rows'[q.onto].status = "consent_expired"
        OBVIOUS
      <4>1. /\ \A i \in q.done \intersect DOMAIN rows : rows[i].budget = budget[q.s]
            /\ q.pair # None => \A i \in Bank!RowsOf(Bank!Pid(q.pair)) : rows[i].budget = budget[q.s]
            /\ q.onto # None => /\ q.onto \in DOMAIN rows /\ rows[q.onto].budget = budget[q.s]
                                /\ rows[q.onto].status = "consent_expired"
        BY <2>6 DEF Steady
      <4>2. Bank!RowsOf(Bank!Pid(q.pair))' = Bank!RowsOf(Bank!Pid(q.pair))
        BY <1>1, <1>7 DEF Bank!RowsOf, Bank!Pid, SameRows
      <4>3. Bank!RowsOf(Bank!Pid(q.pair)) \subseteq DOMAIN rows
        BY DEF Bank!RowsOf
      <4>4. q.onto # None => q.onto \notin hit
        BY <1>5, <4>1
      <4>5. \A i \in DOMAIN rows : rows'[i].budget = rows[i].budget
        BY <1>6
      <4>6. \A i \in q.done \intersect DOMAIN rows' : rows'[i].budget = budget[q.s]
        BY <1>7, <4>1, <4>5 DEF SameRows
      <4>7. ASSUME q.pair # None, NEW i \in Bank!RowsOf(Bank!Pid(q.pair))'
            PROVE  rows'[i].budget = budget[q.s]
        <5>1. i \in Bank!RowsOf(Bank!Pid(q.pair)) /\ i \in DOMAIN rows
          BY <4>2, <4>3, <4>7
        <5> QED BY <4>1, <4>5, <4>7, <5>1
      <4>8. q.onto # None => /\ q.onto \in DOMAIN rows' /\ rows'[q.onto].budget = budget[q.s]
                             /\ rows'[q.onto].status = "consent_expired"
        BY <1>6, <1>7, <4>1, <4>4, <4>5 DEF SameRows
      <4> QED BY <4>6, <4>7, <4>8
    <3>8. DOMAIN rows' = DOMAIN rows
      BY <1>7 DEF SameRows
    <3>9. q.op \in {"sync", "expire", "revoke", "flip"} =>
            q.row \in DOMAIN rows' /\ rows'[q.row].pid = q.pid /\ rows'[q.row].ref = q.ref
      BY <1>6, <3>1, <3>8
    <3> QED BY <1>1, <1>2, <2>6, <3>4, <3>5, <3>6, <3>7, <3>9 DEF Steady
  <2> QED BY <2>4, <2>5, <2>6
<1> QED BY <1>1, <1>8, <1>9, OutsideKeeps

LEMMA RequestKeeps ==
    ASSUME Bank!BankLinkAssumption, BankSafe, NEW w \in Worker,
           Bank!Complete(w) \/ Bank!Sync(w) \/ Bank!Release(w) \/ Bank!Fails(w),
           Grants, Disturbs
    PROVE  BankSafe'
<1>1. CASE Bank!Complete(w)
  <2>1. CASE \E s \in Session : Bank!BeginComplete(w, s)
    BY <2>1, BeginCompleteKeeps
  <2>2. CASE \E p \in Bank!Pairs :
               \/ Bank!CheckStripe(w, p) \/ Bank!CheckGoCardless(w, p) \/ Bank!CheckBelvo(w, p)
               \/ Bank!CheckBasiq(w, p) \/ Bank!CheckAkahu(w, p)
    BY <2>2, CheckKeeps
  <2>3. CASE \/ Bank!LinkStripe(w) \/ Bank!LinkGoCardless(w) \/ Bank!LinkBelvo(w)
             \/ Bank!LinkBasiq(w) \/ Bank!LinkAkahu(w)
    BY <2>3, LinkKeeps
  <2>4. CASE Bank!EndComplete(w)
    BY <2>4, EndCompleteKeeps
  <2> QED BY <1>1, <2>1, <2>2, <2>3, <2>4 DEF Bank!Complete
<1>2. CASE Bank!Sync(w)
  <2>1. CASE (\E i \in DOMAIN rows : Bank!BeginSync(w, i)) \/ Bank!HearExpired(w) \/ Bank!EndSync(w)
    BY <2>1, SyncMovesKeep
  <2>2. CASE Bank!Expire(w)
    BY <2>2, ExpireKeeps
  <2> QED BY <1>2, <2>1, <2>2 DEF Bank!Sync
<1>3. CASE Bank!Release(w)
  <2>1. CASE \E i \in DOMAIN rows : Bank!Disconnect(w, i)
    BY <2>1, DisconnectKeeps
  <2>2. CASE \/ Bank!RevokeStripe(w) \/ Bank!RevokeGoCardless(w) \/ Bank!RevokeBelvo(w)
             \/ Bank!RevokeBasiq(w) \/ Bank!RevokeAkahu(w)
    BY <2>2, RevokeKeeps
  <2>3. CASE Bank!Flip(w)
    BY <2>3, FlipKeeps
  <2>4. CASE Bank!DeleteAccount(w) \/ Bank!NextAccount(w)
    BY <2>4, NextAccountKeeps
  <2>5. CASE Bank!Erase(w)
    BY <2>5, EraseKeeps
  <2> QED BY <1>3, <2>1, <2>2, <2>3, <2>4, <2>5 DEF Bank!Release
<1>4. CASE Bank!Fails(w)
  BY <1>4, RefusedKeeps DEF Bank!Fails, Working
<1> QED BY <1>1, <1>2, <1>3, <1>4

LEMMA BankKept ==
    ASSUME Bank!BankLinkAssumption, BankSafe, Bank!MCNext
    PROVE  BankSafe'
<1>1. Bank!Next /\ Grants /\ Disturbs
  BY DEF Bank!MCNext, Grants, Disturbs
<1>2. CASE \E s \in Session, accts \in SUBSET Acct : Bank!Consent(s, accts)
  BY <1>1, <1>2, ConsentKeeps
<1>3. CASE \E s \in Session : Bank!Withdraw(s)
  BY <1>1, <1>3, WithdrawKeeps
<1>4. CASE \E s \in Session, b \in Budget : Bank!Start(s, b)
  <2>1. PICK s \in Session, b \in Budget : Bank!Start(s, b)
    BY <1>4
  <2>2. Bank!OpenSession(s, b)
    BY <2>1 DEF Bank!Start, Bank!StartStripe, Bank!StartGoCardless, Bank!StartBelvo,
       Bank!StartBasiq, Bank!StartAkahu
  <2> QED BY <1>1, <2>2, OpenSessionKeeps
<1>5. CASE \E e \in events : Bank!Deliver(e)
  BY <1>1, <1>5, DeliverKeeps
<1>6. CASE \E w \in Worker : Bank!Complete(w) \/ Bank!Sync(w) \/ Bank!Release(w) \/ Bank!Fails(w)
  BY <1>1, <1>6, RequestKeeps
<1> QED BY <1>1, <1>2, <1>3, <1>4, <1>5, <1>6 DEF Bank!Next

BankInv ==
  IF part = "bank" THEN BankSafe ELSE disturbed = TRUE

LEMMA BankInvKept ==
    ASSUME Bank!BankLinkAssumption, BankInv,
           [ConnectionsNext]_<<part, vars, bankVars, investmentVars, planVars>>
    PROVE  BankInv'
<1>1. CASE UNCHANGED << part, bankVars >>
  <2>1. UNCHANGED << part, provider, stable, status, budget, covers, live, events, rows, gone, req,
                     granted, disturbed >>
    BY <1>1 DEF bankVars
  <2>2. ASSUME BankSafe PROVE BankSafe'
    <3>1. BankTypes'
      BY <2>1, <2>2 DEF BankSafe, BankTypes, Bank!TypeOK
    <3>2. Consented'
      BY <2>1, <2>2 DEF BankSafe, Consented, Known, PairOf
    <3>3. \A w \in Worker : Knows(req[w])'
      BY <2>1, <2>2 DEF BankSafe, Knows, Known
    <3>4. Undisturbed'
      BY <2>1, <2>2 DEF BankSafe, Undisturbed, Working, OwnHeld, Owns, Sure, ExpiredIsOver, Steady,
         Freed, Bank!Pid, Bank!Shared, Bank!RowsOf
    <3> QED BY <3>1, <3>2, <3>3, <3>4 DEF BankSafe
  <2> QED BY <2>1, <2>2 DEF BankInv
<1>2. CASE part = "bank" /\ Bank!MCNext /\ UNCHANGED part
  BY <1>2, BankKept DEF BankInv
<1> QED BY <1>1, <1>2 DEF ConnectionsNext

LEMMA BankInvHolds ==
    ASSUME Bank!BankLinkAssumption
    PROVE  ConnectionsSpec => []BankInv
<1>1. ConnectionsInit => BankInv
  BY BankStart DEF ConnectionsInit, BankInv, NoBank
<1>2. BankInv /\ [ConnectionsNext]_<<part, vars, bankVars, investmentVars, planVars>> => BankInv'
  BY BankInvKept
<1> QED BY <1>1, <1>2, PTL DEF ConnectionsSpec

\* What a completion has linked, and the provider still serves, has a row to disconnect
\* it by, and a completion reports the accounts of its budget.
THEOREM HeldHere ==
    ASSUME Bank!BankLinkAssumption
    PROVE  ConnectionsSpec => []HeldHereAlone
<1>1. BankInv => HeldHereAlone
  <2>1. CASE part # "bank"
    BY <2>1 DEF BankInv, HeldHereAlone, Bank!HeldAlone, Bank!ReportedHereAlone
  <2>2. ASSUME BankSafe, ~ disturbed PROVE Bank!HeldAlone
    <3>1. OwnHeld
      BY <2>2 DEF BankSafe, Undisturbed
    <3>2. \A i, p : Owns(i, p) => Bank!Holds(i, p)
      BY DEF Owns, Bank!Holds
    <3> QED BY <3>1, <3>2 DEF OwnHeld, Sure, Bank!HeldAlone, Bank!Held
  <2>3. ASSUME BankSafe, ~ disturbed PROVE Bank!ReportedHereAlone
    BY <2>3 DEF BankSafe, Undisturbed, Steady, Bank!ReportedHereAlone
  <2>4. BankSafe => HeldHereAlone
    BY <2>2, <2>3 DEF HeldHereAlone, Bank!HeldAlone, Bank!ReportedHereAlone
  <2> QED BY <2>1, <2>4 DEF BankInv
<1> QED BY <1>1, BankInvHolds, PTL

\* Each step moves one request at most.
LEMMA OneMoves ==
    ASSUME BankSafe, NEW w \in Worker, NEW v \in Worker, v # w,
           Bank!Complete(v) \/ Bank!Sync(v) \/ Bank!Release(v) \/ Bank!Fails(v)
    PROVE  req'[w] = req[w]
<1>1. req \in [Worker -> BankWork]
  BY BankTyped DEF BankSafe
<1>2. \A r : Bank!Become(v, r) => req'[w] = req[w]
  BY <1>1 DEF Bank!Become
<1>3. CASE Bank!Complete(v)
  <2>1. ASSUME NEW s \in Session, Bank!BeginComplete(v, s) PROVE req'[w] = req[w]
    BY <1>2, <2>1 DEF Bank!BeginComplete
  <2>2. ASSUME NEW p, \/ Bank!CheckStripe(v, p) \/ Bank!CheckGoCardless(v, p) \/ Bank!CheckBelvo(v, p)
                      \/ Bank!CheckBasiq(v, p) \/ Bank!CheckAkahu(v, p)
        PROVE  req'[w] = req[w]
    BY <1>2, <2>2 DEF Bank!CheckStripe, Bank!CheckGoCardless, Bank!CheckBelvo, Bank!CheckBasiq,
       Bank!CheckAkahu, Bank!CheckOrSkip, Bank!Refused, Bank!Finish, Bank!Chosen
  <2>3. CASE \/ Bank!LinkStripe(v) \/ Bank!LinkGoCardless(v) \/ Bank!LinkBelvo(v)
             \/ Bank!LinkBasiq(v) \/ Bank!LinkAkahu(v)
    <3>1. Bank!Upsert(v) \/ Bank!Reuse(v, req[v].onto)
      BY <2>3 DEF Bank!LinkStripe, Bank!LinkGoCardless, Bank!LinkBelvo, Bank!LinkBasiq,
         Bank!LinkAkahu, Bank!LinkOrReuse, Bank!LinkUpserting
    <3>2. Bank!Refused(v) \/ \E i : Bank!Linked(v, i)
      BY <3>1 DEF Bank!Upsert, Bank!Reuse
    <3> QED BY <1>2, <3>2 DEF Bank!Refused, Bank!Finish, Bank!Linked
  <2>4. CASE Bank!EndComplete(v)
    BY <1>2, <2>4 DEF Bank!EndComplete, Bank!Finish
  <2> QED BY <1>3, <2>1, <2>2, <2>3, <2>4 DEF Bank!Complete
<1>4. CASE Bank!Sync(v)
  BY <1>2, <1>4 DEF Bank!Sync, Bank!BeginSync, Bank!HearExpired, Bank!EndSync, Bank!Expire, Bank!Finish
<1>5. CASE Bank!Release(v)
  <2>1. \E r : Bank!Become(v, r)
    BY <1>5 DEF Bank!Release, Bank!Disconnect, Bank!Dispatch, Bank!RevokeStripe,
       Bank!RevokeGoCardless, Bank!RevokeBelvo, Bank!RevokeBasiq, Bank!RevokeAkahu, Bank!Revoked,
       Bank!Flip, Bank!DeleteAccount, Bank!NextAccount, Bank!Erase, Bank!Finish
  <2> QED BY <1>2, <2>1
<1>6. CASE Bank!Fails(v)
  BY <1>2, <1>6 DEF Bank!Fails, Bank!Refused, Bank!Finish
<1> QED BY <1>3, <1>4, <1>5, <1>6

\* What was revoked was revoked by the request's own step.
LEMMA RevokedItself ==
    ASSUME BankSafe, Bank!MCNext, NEW w \in Worker, req[w].op = "revoke", req'[w].op = "flip"
    PROVE  \/ Bank!RevokeStripe(w) \/ Bank!RevokeGoCardless(w) \/ Bank!RevokeBelvo(w)
           \/ Bank!RevokeBasiq(w) \/ Bank!RevokeAkahu(w)
<1>1. req' # req
  OBVIOUS
<1>2. PICK v \in Worker : Bank!Complete(v) \/ Bank!Sync(v) \/ Bank!Release(v) \/ Bank!Fails(v)
  BY <1>1 DEF Bank!MCNext, Bank!Next, Bank!Consent, Bank!Withdraw, Bank!Start, Bank!StartStripe,
     Bank!StartGoCardless, Bank!StartBelvo, Bank!StartBasiq, Bank!StartAkahu, Bank!OpenSession,
     Bank!Deliver
<1>3. v = w
  BY <1>2, OneMoves
<1>4. req[w] # Bank!Idle
  BY DEF Bank!Idle
<1>5. ~ Bank!Complete(w)
  <2>1. \A s : ~ Bank!BeginComplete(w, s)
    BY <1>4 DEF Bank!BeginComplete
  <2>2. \A p : ~ Bank!Checking(w, p)
    BY DEF Bank!Checking
  <2>3. ~ Bank!Linking(w)
    BY DEF Bank!Linking
  <2>4. ~ Bank!EndComplete(w)
    BY DEF Bank!EndComplete
  <2> QED BY <2>1, <2>2, <2>3, <2>4 DEF Bank!Complete, Bank!CheckStripe, Bank!CheckGoCardless,
     Bank!CheckBelvo, Bank!CheckBasiq, Bank!CheckAkahu, Bank!LinkStripe, Bank!LinkGoCardless,
     Bank!LinkBelvo, Bank!LinkBasiq, Bank!LinkAkahu, Bank!LinkOrReuse, Bank!LinkUpserting
<1>6. ~ Bank!Sync(w)
  <2>1. \A i : ~ Bank!BeginSync(w, i)
    BY <1>4 DEF Bank!BeginSync
  <2>2. ~ Bank!HearExpired(w)
    BY DEF Bank!HearExpired
  <2>3. ~ Bank!EndSync(w)
    BY DEF Bank!EndSync
  <2>4. ~ Bank!Expire(w)
    BY DEF Bank!Expire
  <2> QED BY <2>1, <2>2, <2>3, <2>4 DEF Bank!Sync
<1>7. ~ Bank!Fails(w)
  <2>1. Bank!Idle \in BankWork
    BY DEF BankWork
  <2> QED BY <2>1, BankPut DEF Bank!Fails, Bank!Refused, Bank!Finish, Bank!Idle, BankSafe
<1>8. Bank!Release(w)
  BY <1>2, <1>3, <1>5, <1>6, <1>7
<1>9. \A i : ~ Bank!Disconnect(w, i)
  BY <1>4 DEF Bank!Disconnect
<1>10. ~ Bank!Flip(w)
  BY DEF Bank!Flip
<1>11. ~ Bank!DeleteAccount(w)
  BY <1>4 DEF Bank!DeleteAccount
<1>12. ~ Bank!NextAccount(w)
  BY DEF Bank!NextAccount
<1>13. ~ Bank!Erase(w)
  BY DEF Bank!Erase
<1> QED BY <1>8, <1>9, <1>10, <1>11, <1>12, <1>13 DEF Bank!Release

LEMMA SiblingsStay ==
    ASSUME Bank!BankLinkAssumption, BankSafe, BankSafe', Bank!MCNext, ~ disturbed',
           provider \in {"stripe", "basiq", "akahu"},
           NEW w \in Worker, req[w].op = "revoke", req'[w].op = "flip",
           NEW i \in DOMAIN rows \ {req[w].row}, rows[i].status = "active",
           Bank!Serves(rows[i].pid, rows[i].ref)
    PROVE  Bank!Serves(rows[i].pid, rows[i].ref)'
<1>1. PICK old : old = req[w]
  OBVIOUS
<1>2. Steady(old) /\ old.op = "revoke"
  BY <1>1 DEF Bank!MCNext, BankSafe, BankTypes, Undisturbed
<1>3. old.row \in DOMAIN rows /\ rows[old.row].pid = old.pid /\ rows[old.row].ref = old.ref
  BY <1>2 DEF Steady
<1>4. PICK pairs :
        /\ Bank!Revoked(w, pairs, old.ref)
        /\ provider = "stripe" => pairs = {p \in Bank!Pairs : Bank!Pid(p) = old.pid}
        /\ provider = "basiq" => pairs = IF old.siblings THEN {} ELSE {old.ref} \X Acct
        /\ provider = "akahu" => pairs = {}
  <2>1. CASE Bank!RevokeStripe(w)
    BY <2>1, <1>1 DEF Bank!RevokeStripe, Bank!Revoking
  <2>2. CASE Bank!RevokeBasiq(w)
    BY <2>2, <1>1 DEF Bank!RevokeBasiq, Bank!Revoking
  <2>3. CASE Bank!RevokeAkahu(w)
    BY <2>3, <1>1 DEF Bank!RevokeAkahu, Bank!Revoking
  <2> QED BY <2>1, <2>2, <2>3, RevokedItself DEF Bank!RevokeGoCardless, Bank!RevokeBelvo, Bank!Revoking
<1>5. live' = live \ pairs /\ UNCHANGED << provider, stable, rows >>
  BY <1>4 DEF Bank!Revoked, Bank!Cut
<1>6. PICK p \in live : Bank!Pid(p) = rows[i].pid /\ (provider \in {"belvo", "akahu"} => p[1] = rows[i].ref)
  BY DEF Bank!Serves
<1>7. p \notin pairs
  <2>1. CASE provider = "stripe"
    <3>1. rows[i].pid # old.pid
      BY <1>1, <1>3, TypesShared DEF SharedTypes, BankSafe
    <3> QED BY <1>4, <1>6, <2>1, <3>1
  <2>2. CASE provider = "basiq" /\ ~ old.siblings
    <3>1. ~ Bank!Shared(old.row)
      BY <1>2, <2>2 DEF Steady
    <3>2. rows[i].ref # old.ref
      BY <1>1, <1>3, <3>1 DEF Bank!Shared
    <3>3. p = PairOf(i)
      BY <1>6, <2>2 DEF BankSafe, Consented, Bank!Pid
    <3>4. p[1] # old.ref
      BY <3>2, <3>3 DEF PairOf
    <3> QED BY <1>4, <2>2, <3>4
  <2>3. CASE provider = "akahu" \/ (provider = "basiq" /\ old.siblings)
    BY <1>4, <2>3
  <2> QED BY <2>1, <2>2, <2>3
<1> QED BY <1>5, <1>6, <1>7 DEF Bank!Serves, Bank!Pid

\* A disconnected row comes back only by a completion.
LEMMA OnlyLinked ==
    ASSUME Bank!BankLinkAssumption, BankSafe, Bank!MCNext,
           NEW i \in DOMAIN rows \intersect DOMAIN rows',
           rows[i].status = "disconnected", rows'[i].status # "disconnected"
    PROVE  \E w \in Worker : Bank!Linking(w) /\ i \in req'[w].done
<1>1. rows' # rows
  OBVIOUS
<1>2. ~ \E e \in events : Bank!Deliver(e)
  BY DEF Bank!Deliver
<1>3. PICK w \in Worker : Bank!Complete(w) \/ Bank!Sync(w) \/ Bank!Release(w) \/ Bank!Fails(w)
  BY <1>1, <1>2 DEF Bank!MCNext, Bank!Next, Bank!Consent, Bank!Withdraw, Bank!Start,
     Bank!StartStripe, Bank!StartGoCardless, Bank!StartBelvo, Bank!StartBasiq, Bank!StartAkahu,
     Bank!OpenSession
<1>4. rows \in Seq(Bank!Rows) /\ DOMAIN rows = 1 .. Len(rows) /\ Len(rows) \in Nat
      /\ \A j \in DOMAIN rows : rows[j] \in Bank!Rows
  BY RowIdsAre
<1>5. \A j, st : Bank!SetStatus(j, st) => rows'[i] = rows[i] \/ (i = j /\ rows'[i].status = st)
  <2> SUFFICES ASSUME NEW j, NEW st, Bank!SetStatus(j, st)
               PROVE  rows'[i] = rows[i] \/ (i = j /\ rows'[i].status = st)
    OBVIOUS
  <2>1. CASE j \notin DOMAIN rows
    BY <2>1 DEF Bank!SetStatus
  <2>2. CASE j \in DOMAIN rows /\ j # i
    BY <1>4, <2>2 DEF Bank!SetStatus
  <2>3. CASE j \in DOMAIN rows /\ j = i
    <3>1. PICK old, new : old = rows[i] /\ new = [old EXCEPT !.status = st]
      OBVIOUS
    <3>2. rows'[i] = new
      BY <1>4, <2>3, <3>1 DEF Bank!SetStatus
    <3>3. old \in Bank!Rows
      BY <1>4, <3>1
    <3>4. new.status = st
      BY <3>1, <3>3 DEF Bank!Rows
    <3> QED BY <2>3, <3>2, <3>4
  <2> QED BY <2>1, <2>2, <2>3
<1>6. ~ (Bank!Sync(w) \/ Bank!Fails(w))
  <2>1. ~ Bank!Expire(w)
    BY <1>1, <1>5 DEF Bank!Expire, Bank!SetStatus
  <2>2. ~ Bank!Fails(w)
    BY <1>1 DEF Bank!Fails, Bank!Refused
  <2>3. \A j : ~ Bank!BeginSync(w, j)
    BY <1>1 DEF Bank!BeginSync
  <2>4. ~ Bank!HearExpired(w) /\ ~ Bank!EndSync(w)
    BY <1>1 DEF Bank!HearExpired, Bank!EndSync
  <2> QED BY <2>1, <2>2, <2>3, <2>4 DEF Bank!Sync
<1>7. ~ Bank!Release(w)
  <2>1. ~ Bank!Flip(w)
    BY <1>5 DEF Bank!Flip
  <2>2. ~ Bank!Erase(w)
    <3>1. rows' = << >> => i \notin DOMAIN rows'
      OBVIOUS
    <3> QED BY <3>1 DEF Bank!Erase
  <2>3. \A j : ~ Bank!Disconnect(w, j)
    BY <1>1 DEF Bank!Disconnect
  <2>4. ~ Bank!DeleteAccount(w) /\ ~ Bank!NextAccount(w)
    BY <1>1 DEF Bank!DeleteAccount, Bank!NextAccount
  <2>5. ~ (\/ Bank!RevokeStripe(w) \/ Bank!RevokeGoCardless(w) \/ Bank!RevokeBelvo(w)
           \/ Bank!RevokeBasiq(w) \/ Bank!RevokeAkahu(w))
    BY <1>1 DEF Bank!RevokeStripe, Bank!RevokeGoCardless, Bank!RevokeBelvo, Bank!RevokeBasiq,
       Bank!RevokeAkahu, Bank!Revoked
  <2> QED BY <2>1, <2>2, <2>3, <2>4, <2>5 DEF Bank!Release
<1>8. \/ Bank!LinkStripe(w) \/ Bank!LinkGoCardless(w) \/ Bank!LinkBelvo(w)
      \/ Bank!LinkBasiq(w) \/ Bank!LinkAkahu(w)
  <2>1. \A s : ~ Bank!BeginComplete(w, s)
    BY <1>1 DEF Bank!BeginComplete
  <2>2. ~ Bank!Refused(w) /\ \A p, onto : ~ Bank!Chosen(w, p, onto)
    BY <1>1 DEF Bank!Refused, Bank!Chosen
  <2>3. \A p : ~ (\/ Bank!CheckStripe(w, p) \/ Bank!CheckGoCardless(w, p) \/ Bank!CheckBelvo(w, p)
                  \/ Bank!CheckBasiq(w, p) \/ Bank!CheckAkahu(w, p))
    BY <1>1, <2>2 DEF Bank!CheckStripe, Bank!CheckGoCardless, Bank!CheckBelvo, Bank!CheckBasiq,
       Bank!CheckAkahu, Bank!CheckOrSkip
  <2>4. ~ Bank!EndComplete(w)
    BY <1>1 DEF Bank!EndComplete
  <2> QED BY <1>3, <1>6, <1>7, <2>1, <2>3, <2>4 DEF Bank!Complete
<1>9. Bank!Linking(w) /\ (Bank!Upsert(w) \/ Bank!Reuse(w, req[w].onto))
  BY <1>8 DEF Bank!LinkStripe, Bank!LinkGoCardless, Bank!LinkBelvo, Bank!LinkBasiq, Bank!LinkAkahu,
     Bank!LinkOrReuse, Bank!LinkUpserting
<1>10. Bank!Linked(w, i)
  <2>1. ~ Bank!Refused(w)
    BY <1>1 DEF Bank!Refused
  <2>2. CASE Bank!Upsert(w)
    <3>1. CASE Bank!RowsOf(Bank!Pid(req[w].pair)) # {}
      <4>1. PICK k \in Bank!RowsOf(Bank!Pid(req[w].pair)) :
              /\ \E st, ref : rows' = [rows EXCEPT ![k].status = st, ![k].ref = ref]
              /\ Bank!Linked(w, k)
        BY <2>1, <2>2, <3>1 DEF Bank!Upsert
      <4>2. k \in DOMAIN rows
        BY DEF Bank!RowsOf
      <4> QED BY <1>1, <1>4, <4>1, <4>2
    <3>2. CASE Bank!RowsOf(Bank!Pid(req[w].pair)) = {}
      <4>1. PICK new : rows' = Append(rows, new)
        BY <2>1, <2>2, <3>2 DEF Bank!Upsert
      <4>2. rows'[i] = rows[i]
        BY <1>4, <4>1
      <4> QED BY <4>2
    <3> QED BY <3>1, <3>2
  <2>3. CASE Bank!Reuse(w, req[w].onto)
    <3>1. PICK k : k = req[w].onto
      OBVIOUS
    <3>2. /\ k \in DOMAIN rows /\ Bank!Linked(w, k)
          /\ \E new : rows' = [rows EXCEPT ![k] = new]
      BY <2>1, <2>3, <3>1 DEF Bank!Reuse
    <3> QED BY <1>1, <1>4, <3>2
  <2> QED BY <1>9, <2>2, <2>3
<1>11. i \in req'[w].done
  <2>1. req[w] \in CompleteWork
    BY <1>9, BankTyped, BankKinds DEF Bank!Linking, BankSafe
  <2>2. PICK old, r : /\ old = req[w]
                      /\ r = [old EXCEPT !.todo = @ \ {old.pair}, !.pair = None, !.onto = None,
                                         !.done = @ \union {i}]
    OBVIOUS
  <2>3. r.done = old.done \union {i}
    BY <2>1, <2>2 DEF CompleteWork
  <2>4. req'[w] = r
    BY <1>10, <2>2, BankTyped DEF Bank!Linked, Bank!Become, BankSafe
  <2> QED BY <2>3, <2>4
<1> QED BY <1>9, <1>11

\* A disconnected row stays so but for a completion, and disconnecting one account leaves
\* the other active ones with their provider.
THEOREM DisconnectLasts ==
    ASSUME Bank!BankLinkAssumption
    PROVE  ConnectionsSpec => DisconnectsHold
<1> DEFINE Sticks == \A i \in DOMAIN rows \intersect DOMAIN rows' :
                       rows[i].status = "disconnected" /\ rows'[i].status # "disconnected"
                         => \E w \in Worker : Bank!Linking(w) /\ i \in req'[w].done
           Spares == ~ disturbed' /\ provider \in {"stripe", "basiq", "akahu"} =>
                       \A w \in Worker : req[w].op = "revoke" /\ req'[w].op = "flip" =>
                         \A i \in DOMAIN rows \ {req[w].row} :
                           rows[i].status = "active" /\ Bank!Serves(rows[i].pid, rows[i].ref)
                             => Bank!Serves(rows[i].pid, rows[i].ref)'
<1>1. ASSUME BankInv, BankInv', [ConnectionsNext]_<<part, vars, bankVars, investmentVars, planVars>>
      PROVE  [Sticks]_Bank!vars /\ [Spares]_Bank!MCvars
  <2>1. CASE UNCHANGED bankVars
    BY <2>1 DEF bankVars, Bank!vars, Bank!MCvars, Bank!bank
  <2>2. CASE part = "bank" /\ Bank!MCNext /\ UNCHANGED part
    <3>1. BankSafe /\ BankSafe'
      BY <1>1, <2>2 DEF BankInv
    <3>2. Sticks
      BY <2>2, <3>1, OnlyLinked
    <3>3. Spares
      BY <2>2, <3>1, SiblingsStay
    <3> QED BY <3>2, <3>3
  <2> QED BY <1>1, <2>1, <2>2 DEF ConnectionsNext
<1>2. ConnectionsSpec => [][[Sticks]_Bank!vars]_Bank!vars /\ [][[Spares]_Bank!MCvars]_Bank!MCvars
  BY <1>1, BankInvHolds, PTL DEF ConnectionsSpec
<1> QED BY <1>2, PTL DEF DisconnectsHold, Bank!DisconnectSticks, Bank!SiblingsSparedAlone

-----------------------------------------------------------------------------
(* The projection. *)

LEMMA Monotone ==
    ASSUME NEW a \in Nat, NEW b \in Nat, NEW c \in Nat, a <= b
    PROVE  c * a <= c * b
OBVIOUS

LEMMA PercentRange ==
    ASSUME NEW x \in Nat, NEW p \in Nat
    PROVE  /\ Planning!Percent(x, p) \in Nat
           /\ p <= 100 => Planning!Percent(x, p) <= x
<1> DEFINE product == x * p
<1>1. product \in Nat
  OBVIOUS
<1>2. p <= 100 => product <= 100 * x
  OBVIOUS
<1>3. Planning!Percent(x, p) = product \div 100
  BY DEF Planning!Percent
<1> HIDE DEF product
<1> QED BY <1>1, <1>2, <1>3

LEMMA GrownRange ==
    ASSUME NEW x \in Nat, NEW r \in -99 .. 1000
    PROVE  Planning!Grown(x, r) \in Nat
BY PercentRange DEF Planning!Grown

\* A required distribution is a part of what is there.
LEMMA RequiredRange ==
    ASSUME NEW age \in Int, NEW birth, NEW preTax \in Nat
    PROVE  Planning!rmd(age, birth, preTax) \in 0 .. preTax
<1>1. \A i \in 1 .. 48 :
        Planning!UNIFORM_LIFETIME_DIVISORS[i] \in Nat /\ Planning!UNIFORM_LIFETIME_DIVISORS[i] >= 20
  BY DEF Planning!UNIFORM_LIFETIME_DIVISORS
<1>2. CASE age < Planning!rmd_start_age(birth)
  BY <1>2 DEF Planning!rmd
<1>3. CASE ~ age < Planning!rmd_start_age(birth)
  <2>1. Planning!AtMost(age, 120) - 72 \in 1 .. 48
    BY <1>3 DEF Planning!AtMost, Planning!rmd_start_age
  <2>2. PICK d : d = Planning!UNIFORM_LIFETIME_DIVISORS[Planning!AtMost(age, 120) - 72]
    OBVIOUS
  <2>3. d \in Nat /\ d >= 20
    BY <1>1, <2>1, <2>2
  <2>4. Planning!rmd(age, birth, preTax) = (10 * preTax) \div d
    BY <1>3, <2>2 DEF Planning!rmd
  <2>5. d * preTax >= 20 * preTax
    BY <2>3
  <2>6. (10 * preTax) \div d \in Int /\ d * ((10 * preTax) \div d) <= 10 * preTax
        /\ 10 * preTax < d * ((10 * preTax) \div d) + d
    BY <2>3
  <2>7. PICK q : q = (10 * preTax) \div d
    OBVIOUS
  <2>8. q \in Int /\ d * q <= 10 * preTax /\ 10 * preTax < d * q + d
    BY <2>6, <2>7
  <2>9. q >= 0
    BY <2>3, <2>8
  <2>10. q <= preTax
    BY <2>3, <2>5, <2>8
  <2> QED BY <2>4, <2>7, <2>8, <2>9, <2>10
<1> QED BY <1>2, <1>3

\* The two parts of the pre-tax account give together what is required of them.
LEMMA SplitWhole ==
    ASSUME NEW own \in Nat, NEW employer \in Nat, NEW amount \in 0 .. (own + employer)
    PROVE  /\ Planning!split_rmd(amount, own, employer).own \in 0 .. own
           /\ Planning!split_rmd(amount, own, employer).employer \in 0 .. employer
           /\ Planning!split_rmd(amount, own, employer).own
                + Planning!split_rmd(amount, own, employer).employer = amount
<1>1. CASE own + employer = 0
  BY <1>1 DEF Planning!split_rmd, Planning!AtMost
<1>2. CASE own + employer # 0
  <2>1. PICK total, share : total = own + employer /\ share = (amount * own) \div total
    OBVIOUS
  <2>2. total \in Nat \ {0} /\ amount \in Nat /\ amount <= total
    BY <1>2, <2>1
  <2>3. amount * own \in Nat /\ amount * employer \in Nat
    BY <2>2
  <2>4. share \in Int /\ total * share <= amount * own /\ amount * own < total * share + total
    BY <2>1, <2>2, <2>3
  <2>5. amount * own + amount * employer = amount * total
    BY <2>1, <2>2
  <2>6. own * amount <= own * total /\ employer * amount <= employer * total
    BY <2>2, Monotone
  <2>7. share >= 0 /\ share <= own
    <3>1. share >= 0
      BY <2>2, <2>3, <2>4
    <3>2. total * share <= total * own
      BY <2>2, <2>4, <2>6
    <3> QED BY <2>2, <2>4, <3>1, <3>2
  <2>8. amount - share <= employer
    <3>1. total * (amount - share) = total * amount - total * share
      BY <2>2, <2>4
    <3>2. total * (amount - share) < total * employer + total
      BY <2>2, <2>4, <2>5, <2>6, <3>1
    <3>3. total * employer + total = total * (employer + 1)
      BY <2>2
    <3>4. total * (amount - share) < total * (employer + 1)
      BY <3>2, <3>3
    <3>5. amount - share < employer + 1
      BY <2>2, <2>4, <3>4
    <3> QED BY <2>2, <2>4, <3>5
  <2>9. share <= amount
    <3>1. own <= total
      BY <2>1
    <3>2. amount * own <= amount * total
      BY <2>2, <3>1, Monotone
    <3>3. total * share <= total * amount
      BY <2>2, <2>4, <3>2
    <3> QED BY <2>2, <2>4, <3>3
  <2>10. Planning!split_rmd(amount, own, employer) = [own |-> share, employer |-> amount - share]
    <3>1. Planning!AtMost(share, own) = share
      BY <2>4, <2>7 DEF Planning!AtMost
    <3>2. Planning!AtMost(amount - share, employer) = amount - share
      BY <2>2, <2>4, <2>8 DEF Planning!AtMost
    <3> QED BY <1>2, <2>1, <3>1, <3>2, Zenon DEF Planning!split_rmd
  <2> QED BY <2>2, <2>4, <2>7, <2>8, <2>9, <2>10
<1> QED BY <1>1, <1>2

LEMMA TakenWhole ==
    ASSUME NEW own \in Nat, NEW employer \in Nat, NEW amount \in 0 .. (own + employer)
    PROVE  /\ Planning!take_pre_tax(amount, own, employer).own \in 0 .. own
           /\ Planning!take_pre_tax(amount, own, employer).employer \in 0 .. employer
           /\ Planning!take_pre_tax(amount, own, employer).own
                + Planning!take_pre_tax(amount, own, employer).employer = amount
BY DEF Planning!take_pre_tax, Planning!AtMost

\* The gross of a net amount nets that amount, and a smaller gross no more.
LEMMA GrossedUp ==
    ASSUME NEW k \in 1 .. 100, NEW t \in 1 .. 100, k * t = 100, NEW need \in Nat, NEW there \in Nat
    PROVE  LET gross == (need * 100) \div t
               taken == Planning!AtMost(there, gross)
           IN  /\ taken \in 0 .. there
               /\ Planning!Percent(taken, t) \in 0 .. need
               /\ Planning!Percent(taken, t) < need => taken = there
<1>1. PICK gross : gross = k * need
  OBVIOUS
<1>2. gross \in Nat
  BY <1>1
<1>3. t * gross = need * 100
  <2>1. t * gross = (k * t) * need
    BY <1>1
  <2> QED BY <2>1
<1>4. (need * 100) \div t = gross
  BY <1>2, <1>3
<1>5. PICK taken : taken = Planning!AtMost(there, gross)
  OBVIOUS
<1>6. taken \in Nat /\ taken <= there /\ taken <= gross /\ (taken # there => taken = gross)
  BY <1>2, <1>5 DEF Planning!AtMost
<1>7. taken * t <= gross * t
  BY <1>2, <1>6
<1>8. taken * t \in Nat /\ taken * t <= 100 * need
  BY <1>2, <1>3, <1>6, <1>7
<1>9. Planning!Percent(taken, t) \in 0 .. need
  <2> DEFINE product == taken * t
  <2>1. Planning!Percent(taken, t) = product \div 100 /\ product \in Nat /\ product <= 100 * need
    BY <1>8 DEF Planning!Percent
  <2> HIDE DEF product
  <2> QED BY <2>1
<1>10. taken = gross => Planning!Percent(taken, t) = need
  <2>1. Planning!Percent(gross, t) = (need * 100) \div 100
    BY <1>2, <1>3 DEF Planning!Percent
  <2> QED BY <2>1
<1> QED BY <1>4, <1>5, <1>6, <1>9, <1>10

\* A run: what its accounts hold, and what its last year paid.
Balances == [own : Nat, employer : Nat, roth : Nat, taxable : Nat, depleted : BOOLEAN, years : Nat,
             income : Int, ss : Int, untaxed : Int, preTax : Int]

\* The projection reads the tables the profile is checked against.
LEMMA SameTables ==
    ASSUME NEW age \in Int, NEW born \in Int
    PROVE  Planning!FactorAt(age, born) = FactorAt(age, born)
<1>1. Planning!full_retirement_age(born) = full_retirement_age(born)
  BY DEF full_retirement_age, Planning!full_retirement_age
<1>2. Planning!delayed_credit(born) = delayed_credit(born)
  BY DEF delayed_credit, Planning!delayed_credit
<1>3. PICK fra, credit : fra = full_retirement_age(born) /\ credit = delayed_credit(born)
  OBVIOUS
<1>4. Planning!adjustment_factor(age, fra, credit) = adjustment_factor(age, fra, credit)
  BY DEF adjustment_factor, Planning!adjustment_factor, MAX_CLAIM_AGE_MONTHS,
     Planning!MAX_CLAIM_AGE_MONTHS, FULL, Planning!FULL
<1>5. Planning!FactorAt(age, born) = Planning!adjustment_factor(age, fra, credit)
  BY <1>1, <1>2, <1>3 DEF Planning!FactorAt
<1> QED BY <1>3, <1>4, <1>5 DEF FactorAt

\* Social Security is no negative amount.
LEMMA SocialSecurityRange ==
    ASSUME Planning!RequestAssumption, NEW q \in Asked, Planning!Valid(q)
    PROVE  Planning!ss_annual(q) \in Nat
<1>1. CASE q.ss = None
  BY <1>1 DEF Planning!ss_annual
<1>2. CASE q.ss # None
  <2>1. PICK answer : answer = Planning!claiming_adjustment(q.ss.benefit, q.ss.quoted, q.ss.claiming, q.birth)
    OBVIOUS
  <2>2. answer # Planning!Refused
    BY <1>2, <2>1 DEF Planning!Valid
  <2>3. q.birth \in [year : Int, md : Int] /\ q.ss \in [benefit : Nat, quoted : Int, claiming : Int]
    BY <1>2 DEF Planning!RequestAssumption
  <2>4. PICK born : born = Planning!fra_birth_year(q.birth)
    OBVIOUS
  <2>5. born \in Int
    BY <2>3, <2>4 DEF Planning!fra_birth_year
  <2>6. PICK above, below : /\ above = Planning!FactorAt(q.ss.claiming, born)
                            /\ below = Planning!FactorAt(q.ss.quoted, born)
    OBVIOUS
  <2>7. /\ Planning!check_claim_age(q.ss.quoted) /\ Planning!check_claim_age(q.ss.claiming)
        /\ answer = (q.ss.benefit * above) \div below
    BY <2>1, <2>2, <2>4, <2>6, Zenon DEF Planning!claiming_adjustment
  <2>8. /\ q.ss.quoted \in MIN_CLAIM_AGE_MONTHS .. MAX_CLAIM_AGE_MONTHS
        /\ q.ss.claiming \in MIN_CLAIM_AGE_MONTHS .. MAX_CLAIM_AGE_MONTHS
    BY <2>7 DEF Planning!check_claim_age, MIN_CLAIM_AGE_MONTHS, MAX_CLAIM_AGE_MONTHS,
                Planning!MIN_CLAIM_AGE_MONTHS, Planning!MAX_CLAIM_AGE_MONTHS
  <2>9. above = FactorAt(q.ss.claiming, born) /\ below = FactorAt(q.ss.quoted, born)
    BY <2>3, <2>5, <2>6, SameTables
  <2>10. \A age \in MIN_CLAIM_AGE_MONTHS .. MAX_CLAIM_AGE_MONTHS :
            FactorAt(age, born) \in Int /\ FactorAt(age, born) >= 5040
    BY <2>5, FactorRange
  <2>11. above \in Nat /\ below \in Nat \ {0}
    BY <2>8, <2>9, <2>10
  <2>12. PICK product : product = q.ss.benefit * above
    OBVIOUS
  <2>13. product \in Nat
    BY <2>3, <2>11, <2>12
  <2>14. answer \in Nat
    BY <2>7, <2>11, <2>12, <2>13
  <2> QED BY <1>2, <2>1, <2>14 DEF Planning!ss_annual
<1> QED BY <1>1, <1>2

\* A year of retirement, whatever the accounts.
LEMMA YearOfRetirement ==
    ASSUME Planning!RetirementProjectionAssumption, NEW q \in Asked, Planning!Valid(q),
           NEW s \in Balances, NEW r \in Return, NEW age \in Int, NEW target \in Nat,
           NEW d, d = Planning!decumulate(q, s, r, age, target)
    PROVE  /\ d \in Balances /\ d.years = s.years + 1
           /\ Planning!Held(d) + d.untaxed + d.preTax
                = Planning!Grown(s.own, r) + Planning!Grown(s.employer, r)
                    + Planning!Grown(s.roth, r) + Planning!Grown(s.taxable, r)
           /\ d.income \in LET net == d.ss + d.untaxed + Planning!Percent(d.preTax, 100 - q.tax)
                           IN  {net, net - 1}
           /\ d.depleted <=> d.income < target
           /\ d.income >= 0
<1> DEFINE own0      == Planning!Grown(s.own, r)
           employer0 == Planning!Grown(s.employer, r)
           roth0     == Planning!Grown(s.roth, r)
           taxable0  == Planning!Grown(s.taxable, r)
           t         == 100 - q.tax
           required  == Planning!rmd(age, q.birth, own0 + employer0)
           forced    == Planning!split_rmd(required, own0, employer0)
           own1      == own0 - forced.own
           employer1 == employer0 - forced.employer
           rmdNet    == Planning!Percent(required, t)
           ss        == IF q.ss # None /\ age >= q.ss.claiming \div 12 THEN Planning!ss_annual(q) ELSE 0
           need      == Planning!NotBelow0(target - ss - rmdNet)
           taxable   == Planning!AtMost(taxable0, need)
           need1     == need - taxable
           preTax    == IF q.tax = 100 THEN own1 + employer1
                        ELSE Planning!AtMost(own1 + employer1, (need1 * 100) \div t)
           taken     == Planning!take_pre_tax(preTax, own1, employer1)
           preTaxNet == Planning!Percent(preTax, t)
           need2     == need1 - preTaxNet
           roth      == Planning!AtMost(roth0, need2)
           depleted  == need2 - roth > 0
<1>1. d = [own      |-> IF depleted THEN 0 ELSE own1 - taken.own,
            employer |-> IF depleted THEN 0 ELSE employer1 - taken.employer,
            roth     |-> IF depleted THEN 0 ELSE roth0 - roth,
            taxable  |-> IF depleted THEN 0 ELSE taxable0 - taxable,
            depleted |-> depleted,
            years    |-> s.years + 1,
            income   |-> ss + rmdNet + taxable + preTaxNet + roth,
            ss       |-> ss,
            untaxed  |-> taxable + roth,
            preTax   |-> forced.own + forced.employer + taken.own + taken.employer]
  BY Zenon DEF Planning!decumulate
<1>2. /\ own0 = Planning!Grown(s.own, r) /\ employer0 = Planning!Grown(s.employer, r)
      /\ roth0 = Planning!Grown(s.roth, r) /\ taxable0 = Planning!Grown(s.taxable, r)
  OBVIOUS
<1>3. t = 100 - q.tax
  OBVIOUS
<1>4. /\ required = Planning!rmd(age, q.birth, own0 + employer0)
      /\ forced = Planning!split_rmd(required, own0, employer0)
  OBVIOUS
<1>5. own1 = own0 - forced.own /\ employer1 = employer0 - forced.employer
  OBVIOUS
<1>6. rmdNet = Planning!Percent(required, t)
  OBVIOUS
<1>7. ss = IF q.ss # None /\ age >= q.ss.claiming \div 12 THEN Planning!ss_annual(q) ELSE 0
  OBVIOUS
<1>8. need = Planning!NotBelow0(target - ss - rmdNet)
  OBVIOUS
<1>9. taxable = Planning!AtMost(taxable0, need) /\ need1 = need - taxable
  OBVIOUS
<1>10. preTax = IF q.tax = 100 THEN own1 + employer1
                  ELSE Planning!AtMost(own1 + employer1, (need1 * 100) \div t)
  OBVIOUS
<1>11. preTaxNet = Planning!Percent(preTax, t)
  OBVIOUS
<1>12. taken = Planning!take_pre_tax(preTax, own1, employer1)
  OBVIOUS
<1>13. need2 = need1 - preTaxNet /\ roth = Planning!AtMost(roth0, need2)
  OBVIOUS
<1>14. depleted <=> need2 - roth > 0
  OBVIOUS
<1> HIDE DEF own0, employer0, roth0, taxable0, t, required, forced, own1, employer1, rmdNet, ss,
             need, taxable, need1, preTax, taken, preTaxNet, need2, roth, depleted
<1>15. /\ s.own \in Nat /\ s.employer \in Nat /\ s.roth \in Nat /\ s.taxable \in Nat
       /\ s.years \in Nat /\ r \in -99 .. 1000
  BY DEF Balances, Planning!RetirementProjectionAssumption
<1>16. own0 \in Nat /\ employer0 \in Nat /\ roth0 \in Nat /\ taxable0 \in Nat
  <2>1. \A x \in Nat : Planning!Grown(x, r) \in Nat
    BY <1>15, GrownRange
  <2> QED BY <1>15, <1>2, <2>1
<1>17. /\ t \in 0 .. 100 /\ (q.tax = 100 <=> t = 0)
       /\ t # 0 => \E k \in 1 .. 100 : k * t = 100
  <2>1. /\ q.tax \in 0 .. 100
        /\ q.tax = 100 \/ \E k \in 1 .. 100 : k * (100 - q.tax) = 100
    BY DEF Planning!Valid, Planning!RetirementProjectionAssumption, Planning!RequestAssumption
  <2>2. PICK tax : tax = q.tax
    OBVIOUS
  <2>3. t = 100 - tax /\ tax \in 0 .. 100 /\ (tax = 100 \/ \E k \in 1 .. 100 : k * t = 100)
    BY <1>3, <2>1, <2>2
  <2>4. t \in 0 .. 100 /\ (tax = 100 <=> t = 0)
    BY <2>3
  <2>5. t # 0 => \E k \in 1 .. 100 : k * t = 100
    BY <2>3, <2>4
  <2> QED BY <2>2, <2>4, <2>5
<1>18. /\ required \in 0 .. (own0 + employer0)
       /\ forced.own \in 0 .. own0 /\ forced.employer \in 0 .. employer0
       /\ forced.own + forced.employer = required
  <2>1. required \in 0 .. (own0 + employer0)
    BY <1>16, <1>4, RequiredRange
  <2> QED BY <1>16, <1>4, <2>1, SplitWhole
<1>19. own1 \in Nat /\ employer1 \in Nat
  BY <1>16, <1>18, <1>5
<1>20. rmdNet \in Nat
  <2>1. required \in Nat /\ t \in Nat
    BY <1>16, <1>17, <1>18
  <2> QED BY <2>1, <1>6, PercentRange
<1>21. ss \in Nat
  BY <1>7, SocialSecurityRange DEF Planning!RetirementProjectionAssumption
<1>22. need \in Nat /\ need >= target - ss - rmdNet /\ (need > 0 => need = target - ss - rmdNet)
  BY <1>20, <1>21, <1>8 DEF Planning!NotBelow0
<1>23. taxable \in 0 .. taxable0 /\ need1 \in 0 .. need /\ (need1 > 0 => taxable = taxable0)
  BY <1>16, <1>22, <1>9 DEF Planning!AtMost
<1>24. /\ preTax \in 0 .. (own1 + employer1) /\ preTaxNet \in 0 .. need1
       /\ preTaxNet < need1 => preTax = own1 + employer1
  <2>1. CASE t = 0
    BY <1>16, <1>17, <1>19, <1>22, <1>23, <1>10, <1>11, <2>1 DEF Planning!Percent
  <2>2. CASE t # 0
    <3>1. PICK k \in 1 .. 100 : k * t = 100
      BY <1>17, <2>2
    <3>2. t \in 1 .. 100 /\ need1 \in Nat /\ own1 + employer1 \in Nat
      BY <1>17, <1>19, <1>22, <1>23, <2>2
    <3>3. PICK there : there = own1 + employer1
      OBVIOUS
    <3>4. preTax = Planning!AtMost(there, (need1 * 100) \div t)
      BY <1>17, <1>10, <2>2, <3>3
    <3>5. /\ Planning!AtMost(there, (need1 * 100) \div t) \in 0 .. there
          /\ Planning!Percent(Planning!AtMost(there, (need1 * 100) \div t), t) \in 0 .. need1
          /\ Planning!Percent(Planning!AtMost(there, (need1 * 100) \div t), t) < need1
               => Planning!AtMost(there, (need1 * 100) \div t) = there
      BY <3>1, <3>2, <3>3, GrossedUp
    <3> QED BY <1>11, <3>3, <3>4, <3>5
  <2> QED BY <2>1, <2>2
<1>25. /\ taken.own \in 0 .. own1 /\ taken.employer \in 0 .. employer1
       /\ taken.own + taken.employer = preTax
  BY <1>19, <1>24, <1>12, TakenWhole
<1>26. /\ need2 \in Nat /\ roth \in 0 .. roth0 /\ roth <= need2
       /\ (depleted => roth = roth0)
  <2>1. need2 \in Nat
    BY <1>22, <1>23, <1>24, <1>13
  <2> QED BY <1>16, <1>13, <1>14, <2>1 DEF Planning!AtMost
<1>27. /\ d.own = IF depleted THEN 0 ELSE own1 - taken.own
       /\ d.employer = IF depleted THEN 0 ELSE employer1 - taken.employer
       /\ d.roth = IF depleted THEN 0 ELSE roth0 - roth
       /\ d.taxable = IF depleted THEN 0 ELSE taxable0 - taxable
       /\ (d.depleted <=> depleted) /\ d.years = s.years + 1
       /\ d.income = ss + rmdNet + taxable + preTaxNet + roth
       /\ d.ss = ss /\ d.untaxed = taxable + roth
       /\ d.preTax = required + preTax
  <2>1. PICK o, e, ro, ta, dep, years, income, untaxed, preTaxAll :
          /\ o = IF depleted THEN 0 ELSE own1 - taken.own
          /\ e = IF depleted THEN 0 ELSE employer1 - taken.employer
          /\ ro = IF depleted THEN 0 ELSE roth0 - roth
          /\ ta = IF depleted THEN 0 ELSE taxable0 - taxable
          /\ dep = depleted /\ years = s.years + 1
          /\ income = ss + rmdNet + taxable + preTaxNet + roth
          /\ untaxed = taxable + roth
          /\ preTaxAll = forced.own + forced.employer + taken.own + taken.employer
    OBVIOUS
  <2>2. d = [own |-> o, employer |-> e, roth |-> ro, taxable |-> ta, depleted |-> dep,
             years |-> years, income |-> income, ss |-> ss, untaxed |-> untaxed,
             preTax |-> preTaxAll]
    BY <1>1, <2>1, Zenon
  <2>3. /\ d.own = o /\ d.employer = e /\ d.roth = ro /\ d.taxable = ta /\ d.depleted = dep
        /\ d.years = years /\ d.income = income /\ d.ss = ss /\ d.untaxed = untaxed
        /\ d.preTax = preTaxAll
    BY <2>2
  <2>4. preTaxAll = required + preTax
    BY <1>16, <1>18, <1>19, <1>25, <2>1
  <2>5. d.own = o /\ d.employer = e /\ d.roth = ro /\ d.taxable = ta
    BY <2>3
  <2>6. /\ d.own = IF depleted THEN 0 ELSE own1 - taken.own
        /\ d.employer = IF depleted THEN 0 ELSE employer1 - taken.employer
        /\ d.roth = IF depleted THEN 0 ELSE roth0 - roth
        /\ d.taxable = IF depleted THEN 0 ELSE taxable0 - taxable
    BY <2>1, <2>5
  <2>7. /\ (d.depleted <=> depleted) /\ d.years = s.years + 1
        /\ d.income = ss + rmdNet + taxable + preTaxNet + roth
        /\ d.ss = ss /\ d.untaxed = taxable + roth
    BY <2>1, <2>3
  <2>8. d.preTax = required + preTax
    BY <2>3, <2>4
  <2> QED BY <2>6, <2>7, <2>8
<1>28. d \in Balances
  <2>1. /\ own1 - taken.own \in Nat /\ employer1 - taken.employer \in Nat
        /\ roth0 - roth \in Nat /\ taxable0 - taxable \in Nat
    BY <1>16, <1>19, <1>23, <1>25, <1>26
  <2>2. /\ ss + rmdNet + taxable + preTaxNet + roth \in Int
        /\ ss \in Int /\ taxable + roth \in Int
        /\ required + preTax \in Int
    BY <1>16, <1>18, <1>19, <1>20, <1>21, <1>23, <1>24, <1>25, <1>26, <1>22
  <2>3. /\ d.own \in Nat /\ d.employer \in Nat /\ d.roth \in Nat /\ d.taxable \in Nat
    BY <1>27, <2>1
  <2>4. d.years \in Nat /\ d.income \in Int /\ d.ss \in Int /\ d.untaxed \in Int /\ d.preTax \in Int
    BY <1>15, <1>27, <2>2
  <2>5. PICK o, e, ro, ta, dep, years, income, so, untaxed, preTaxAll :
          /\ d = [own |-> o, employer |-> e, roth |-> ro, taxable |-> ta, depleted |-> dep,
                  years |-> years, income |-> income, ss |-> so, untaxed |-> untaxed,
                  preTax |-> preTaxAll]
          /\ dep = depleted
    BY <1>1, Zenon
  <2>6. dep \in BOOLEAN
    BY <2>5 DEF depleted
  <2>7. /\ d.own = o /\ d.employer = e /\ d.roth = ro /\ d.taxable = ta /\ d.depleted = dep
        /\ d.years = years /\ d.income = income /\ d.ss = so /\ d.untaxed = untaxed
        /\ d.preTax = preTaxAll
    BY <2>5
  <2> QED BY <2>3, <2>4, <2>5, <2>6, <2>7 DEF Balances
<1>29. Planning!Held(d) + d.untaxed + d.preTax = own0 + employer0 + roth0 + taxable0
  <2>1. CASE depleted
    <3>1. taxable = taxable0 /\ roth = roth0 /\ preTax = own1 + employer1
      BY <1>16, <1>23, <1>24, <1>13, <1>26, <1>22, <1>14, <2>1
    <3> QED BY <1>16, <1>18, <1>5, <1>19, <1>27, <2>1, <3>1 DEF Planning!Held
  <2>2. CASE ~ depleted
    <3>1. /\ d.own = own1 - taken.own /\ d.employer = employer1 - taken.employer
          /\ d.roth = roth0 - roth /\ d.taxable = taxable0 - taxable
          /\ d.untaxed = taxable + roth /\ d.preTax = required + preTax
      BY <1>27, <2>2
    <3>2. PICK o, e : o = taken.own /\ e = taken.employer
      OBVIOUS
    <3>3. PICK fo, fe : fo = forced.own /\ fe = forced.employer
      OBVIOUS
    <3>4. /\ o \in Int /\ e \in Int /\ o + e = preTax
          /\ fo \in Int /\ fe \in Int /\ fo + fe = required
      BY <1>16, <1>18, <1>19, <1>25, <3>2, <3>3
    <3>5. own1 = own0 - fo /\ employer1 = employer0 - fe
      BY <1>5, <3>3
    <3>6. taxable \in Int /\ roth \in Int
      BY <1>16, <1>23, <1>26
    <3> HIDE DEF depleted
    <3> QED BY <1>16, <3>1, <3>2, <3>4, <3>5, <3>6 DEF Planning!Held
  <2> QED BY <1>26, <2>1, <2>2
<1>30. d.income \in LET net == d.ss + d.untaxed + Planning!Percent(d.preTax, 100 - q.tax)
                    IN  {net, net - 1}
  <2>1. PICK x, y : x = required * t /\ y = preTax * t
    OBVIOUS
  <2>2. x \in Nat /\ y \in Nat
    BY <1>16, <1>17, <1>18, <1>19, <1>24, <2>1
  <2>3. (required + preTax) * t = x + y
    BY <1>16, <1>17, <1>18, <1>19, <1>24, <2>1
  <2>4. Planning!Percent(required + preTax, t) = (x + y) \div 100
    BY <2>3 DEF Planning!Percent
  <2>5. rmdNet = x \div 100 /\ preTaxNet = y \div 100
    BY <1>6, <1>11, <2>1 DEF Planning!Percent
  <2>6. (x + y) \div 100 \in {(x \div 100) + (y \div 100), (x \div 100) + (y \div 100) + 1}
    BY <2>2
  <2> QED BY <1>16, <1>3, <1>20, <1>21, <1>22, <1>23, <1>24, <1>26, <1>27, <2>4, <2>5, <2>6
<1>31. d.depleted <=> d.income < target
  BY <1>16, <1>20, <1>21, <1>22, <1>9, <1>23, <1>24, <1>13, <1>26, <1>27, <1>14
<1>32. d.income >= 0
  <2>1. ss \in Nat /\ rmdNet \in Nat /\ taxable \in Nat /\ preTaxNet \in Nat /\ roth \in Nat
    BY <1>16, <1>20, <1>21, <1>22, <1>23, <1>24, <1>26
  <2> QED BY <1>27, <2>1
<1> QED BY <1>2, <1>27, <1>28, <1>29, <1>30, <1>31, <1>32

\* A year of saving leaves sound balances, and counts no year of retirement
\* (accumulate_state).
LEMMA YearOfSaving ==
    ASSUME Planning!RetirementProjectionAssumption, Planning!SumsAssumption, NEW q \in Asked,
           NEW s \in Balances, NEW r \in Return
    PROVE  /\ Planning!accumulate_state(q, s, r) \in Balances
           /\ Planning!accumulate_state(q, s, r).years = s.years
           /\ Planning!accumulate_state(q, s, r).depleted = s.depleted
<1>1. PICK matched : matched = Planning!employer_match(q.gross, q.preTaxPct + q.rothPct, q.formula)
  OBVIOUS
<1>2. matched \in Nat /\ q.gross \in Nat /\ q.preTaxPct \in Nat /\ q.rothPct \in Nat
  BY <1>1 DEF Planning!SumsAssumption, Planning!RetirementProjectionAssumption,
              Planning!RequestAssumption
<1>3. \A x \in Nat : Planning!Grown(x, r) \in Nat
  <2>1. r \in -99 .. 1000
    BY DEF Planning!RetirementProjectionAssumption
  <2> QED BY <2>1, GrownRange
<1>4. Planning!Percent(q.gross, q.preTaxPct) \in Nat /\ Planning!Percent(q.gross, q.rothPct) \in Nat
  BY <1>2, PercentRange
<1>5. /\ Planning!Grown(s.own, r) \in Nat /\ Planning!Grown(s.employer, r) \in Nat
      /\ Planning!Grown(s.roth, r) \in Nat /\ Planning!Grown(s.taxable, r) \in Nat
  BY <1>3 DEF Balances
<1>6. PICK own, employer, roth, taxable :
        /\ own = Planning!Grown(s.own, r) + Planning!Percent(q.gross, q.preTaxPct)
        /\ employer = Planning!Grown(s.employer, r) + matched
        /\ roth = Planning!Grown(s.roth, r) + Planning!Percent(q.gross, q.rothPct)
        /\ taxable = Planning!Grown(s.taxable, r)
  OBVIOUS
<1>7. own \in Nat /\ employer \in Nat /\ roth \in Nat /\ taxable \in Nat
  BY <1>2, <1>4, <1>5, <1>6
<1>8. PICK new : new = [s EXCEPT !.own = own, !.employer = employer, !.roth = roth, !.taxable = taxable]
  OBVIOUS
<1>9. new \in Balances /\ new.years = s.years /\ new.depleted = s.depleted
  BY <1>7, <1>8 DEF Balances
<1>10. Planning!accumulate_state(q, s, r) = new
  BY <1>1, <1>6, <1>8 DEF Planning!accumulate_state
<1> QED BY <1>9, <1>10

\* The accounts and the bisection of a projection stay within their bounds.
PlanSafe ==
    /\ asked \in Asked
    /\ year \in Nat
    /\ round \in 0 .. BISECTION_ITERATIONS
    /\ lo \in Planning!Target /\ hi \in Planning!Target
    /\ run \in [Planning!Target -> Balances]

LEMMA PlanSafeAtFirst ==
    ASSUME Planning!RetirementProjectionAssumption, Planning!SumsAssumption, Planning!Init
    PROVE  PlanSafe
<1>1. asked \in Asked /\ year \in Nat
  BY DEF Planning!Init
<1>2. BISECTION_ITERATIONS \in Nat /\ Planning!W_MAX \in Nat
  BY DEF Planning!RetirementProjectionAssumption
<1>3. round \in 0 .. BISECTION_ITERATIONS
  BY <1>2 DEF Planning!Init
<1>4. lo \in Planning!Target /\ hi \in Planning!Target
  BY <1>2 DEF Planning!Init, Planning!Target
<1>5. Planning!Opening(asked) \in Balances
  <2>1. PICK buckets : buckets = Planning!projection_buckets(asked.assets)
    OBVIOUS
  <2>2. buckets \in [pre_tax : Nat, roth : Nat, taxable : Nat]
    BY <1>1, <2>1 DEF Planning!SumsAssumption
  <2>3. PICK preTax, roth, taxable :
          preTax = buckets.pre_tax /\ roth = buckets.roth /\ taxable = buckets.taxable
    OBVIOUS
  <2>4. preTax \in Nat /\ roth \in Nat /\ taxable \in Nat
    BY <2>2, <2>3
  <2>5. Planning!Opening(asked) =
          [own |-> preTax, employer |-> 0, roth |-> roth, taxable |-> taxable,
           depleted |-> FALSE, years |-> 0, income |-> 0, ss |-> 0, untaxed |-> 0, preTax |-> 0]
    BY <2>1, <2>3, Zenon DEF Planning!Opening
  <2> QED BY <2>4, <2>5 DEF Balances
<1>6. run \in [Planning!Target -> Balances]
  BY <1>5 DEF Planning!Init
<1> QED BY <1>1, <1>3, <1>4, <1>6 DEF PlanSafe

\* The ages of a request.
LEMMA SavingYears ==
    ASSUME Planning!RequestAssumption, NEW q \in Asked
    PROVE  Planning!accumulation_years(q) \in Nat /\ q.target \in Int
<1>1. q.birth \in [year : Int, md : Int] /\ q.today \in [year : Int, md : Int] /\ q.target \in Int
  BY DEF Planning!RequestAssumption
<1>2. Planning!current_age(q.birth, q.today) \in Int
  BY <1>1 DEF Planning!current_age
<1>3. Planning!CurrentAge(q) \in Int
  BY <1>2 DEF Planning!CurrentAge, Planning!NotBelow0
<1>4. Planning!accumulation_years(q) \in Nat
  BY <1>1, <1>3 DEF Planning!accumulation_years, Planning!NotBelow0
<1> QED BY <1>1, <1>4

\* A year of a run, whatever the years before (simulate_accumulation, decumulate).
LEMMA YearOfRun ==
    ASSUME Planning!RetirementProjectionAssumption, Planning!SumsAssumption, PlanSafe,
           NEW r \in Return, Planning!Year(r), NEW w \in Planning!Target
    PROVE  /\ run'[w] \in Balances
           /\ run'[w].years > run[w].years =>
                /\ run'[w] = Planning!decumulate(asked, run[w], r,
                       asked.target + (year - Planning!accumulation_years(asked)), w)
                /\ Planning!Valid(asked)
           /\ w = 0 /\ ~ run[w].depleted => ~ run'[w].depleted
<1>1. /\ asked \in Asked /\ year \in Nat /\ run[w] \in Balances /\ w \in Nat
  BY DEF PlanSafe, Planning!Target
<1>2. PICK saving : saving = Planning!accumulation_years(asked)
  OBVIOUS
<1>3. saving \in Nat /\ asked.target \in Int
  BY <1>1, <1>2, SavingYears DEF Planning!RetirementProjectionAssumption
<1>4. PICK age : age = asked.target + (year - saving)
  OBVIOUS
<1>5. age \in Int
  BY <1>1, <1>3, <1>4
<1>6. Planning!Valid(asked)
  BY DEF Planning!Year
<1>7. PICK spent : spent = Planning!decumulate(asked, run[w], r, age, w)
  OBVIOUS
<1>8. spent \in Balances /\ (w = 0 => ~ spent.depleted)
  <2>1. /\ spent \in Balances /\ (spent.depleted <=> spent.income < w)
        /\ spent.income >= 0
    BY <1>1, <1>5, <1>6, <1>7, YearOfRetirement
  <2>2. spent.income \in Int
    BY <2>1 DEF Balances
  <2> QED BY <2>1, <2>2
<1>9. PICK saved : saved = Planning!accumulate_state(asked, run[w], r)
  OBVIOUS
<1>10. saved \in Balances /\ saved.years = run[w].years /\ saved.depleted = run[w].depleted
  BY <1>1, <1>9, YearOfSaving
<1>11. run'[w] = IF run[w].depleted THEN run[w] ELSE IF year < saving THEN saved ELSE spent
  BY <1>2, <1>4, <1>7, <1>9, Zenon DEF Planning!Year
<1>12. run[w].years \in Nat
  BY <1>1 DEF Balances
<1>13. run'[w] = run[w] \/ run'[w] = saved \/ run'[w] = spent
  BY <1>11
<1>14. run'[w] \in Balances
  BY <1>1, <1>8, <1>10, <1>13
<1>15. run'[w].years > run[w].years => run'[w] = spent
  BY <1>10, <1>12, <1>13
<1>16. w = 0 /\ ~ run[w].depleted => ~ run'[w].depleted
  BY <1>8, <1>10, <1>13
<1> QED BY <1>2, <1>4, <1>6, <1>7, <1>14, <1>15, <1>16

LEMMA PlanSafeKept ==
    ASSUME Planning!RetirementProjectionAssumption, Planning!SumsAssumption, PlanSafe, Planning!Next
    PROVE  PlanSafe'
<1>1. ASSUME NEW r \in Return, Planning!Year(r)
      PROVE  PlanSafe'
  <2>1. /\ asked' = asked /\ lo' = lo /\ hi' = hi /\ round' = round /\ year' = year + 1
        /\ DOMAIN run' = Planning!Target /\ run' = [w \in Planning!Target |-> run'[w]]
    BY <1>1 DEF Planning!Year
  <2>2. \A w \in Planning!Target : run'[w] \in Balances
    BY <1>1, YearOfRun
  <2>3. run' \in [Planning!Target -> Balances]
    BY <2>1, <2>2
  <2>4. Planning!Target' = Planning!Target
    BY DEF Planning!Target, Planning!W_MAX
  <2> QED BY <2>1, <2>3, <2>4 DEF PlanSafe
<1>2. CASE Planning!Bisect
  <2>1. /\ asked' = asked /\ year' = year /\ run' = run
        /\ round < BISECTION_ITERATIONS /\ round' = round + 1
        /\ lo' \in {lo, (lo + hi) \div 2} /\ hi' \in {hi, (lo + hi) \div 2}
    BY <1>2 DEF Planning!Bisect
  <2>2. BISECTION_ITERATIONS \in Nat /\ Planning!W_MAX \in Nat
    BY DEF Planning!RetirementProjectionAssumption
  <2>3. (lo + hi) \div 2 \in Planning!Target
    BY <2>2 DEF PlanSafe, Planning!Target
  <2>4. round' \in 0 .. BISECTION_ITERATIONS
    BY <2>1, <2>2 DEF PlanSafe
  <2>5. lo' \in Planning!Target /\ hi' \in Planning!Target
    BY <2>1, <2>3 DEF PlanSafe
  <2>6. Planning!Target' = Planning!Target
    BY DEF Planning!Target, Planning!W_MAX
  <2> QED BY <2>1, <2>4, <2>5, <2>6 DEF PlanSafe
<1> QED BY <1>1, <1>2 DEF Planning!Next

LEMMA PlanTyped ==
    ASSUME PlanSafe
    PROVE  Planning!TypeOK
<1>1. \A w \in Planning!Target : run[w] \in Balances
  BY DEF PlanSafe
<1>2. \A w \in Planning!Target :
        /\ run[w].depleted \in BOOLEAN /\ run[w].years \in Nat
        /\ {run[w].own, run[w].employer, run[w].roth, run[w].taxable} \subseteq Nat
  BY <1>1 DEF Balances
<1> QED BY <1>2 DEF PlanSafe, Planning!TypeOK

LEMMA YearBooks ==
    ASSUME Planning!RetirementProjectionAssumption, Planning!SumsAssumption, PlanSafe
    PROVE  Planning!YearBalances
<1> SUFFICES ASSUME NEW r \in Return, Planning!Year(r), NEW w \in Planning!Target,
                    run'[w].years > run[w].years
             PROVE  LET s     == run'[w]
                        grown == Planning!Grown(run[w].own, r) + Planning!Grown(run[w].employer, r)
                                   + Planning!Grown(run[w].roth, r) + Planning!Grown(run[w].taxable, r)
                        net   == s.ss + s.untaxed + Planning!Percent(s.preTax, 100 - asked.tax)
                    IN  /\ Planning!Held(s) + s.untaxed + s.preTax = grown
                        /\ s.income \in {net, net - 1}
                        /\ s.depleted <=> s.income < w
  BY DEF Planning!YearBalances
<1>1. PICK age : age = asked.target + (year - Planning!accumulation_years(asked))
  OBVIOUS
<1>2. PICK d : d = run'[w]
  OBVIOUS
<1>3. d = Planning!decumulate(asked, run[w], r, age, w) /\ Planning!Valid(asked)
  BY <1>1, <1>2, YearOfRun
<1>4. asked \in Asked /\ run[w] \in Balances /\ w \in Nat /\ year \in Nat
  BY DEF PlanSafe, Planning!Target
<1>5. age \in Int
  BY <1>1, <1>4, SavingYears DEF Planning!RetirementProjectionAssumption
<1>6. PICK s : s = run[w]
  OBVIOUS
<1>7. /\ Planning!Held(d) + d.untaxed + d.preTax
           = Planning!Grown(s.own, r) + Planning!Grown(s.employer, r)
               + Planning!Grown(s.roth, r) + Planning!Grown(s.taxable, r)
      /\ d.income \in LET net == d.ss + d.untaxed + Planning!Percent(d.preTax, 100 - asked.tax)
                      IN  {net, net - 1}
      /\ d.depleted <=> d.income < w
  BY <1>3, <1>4, <1>5, <1>6, YearOfRetirement
<1> QED BY <1>2, <1>6, <1>7

\* The projection, in the behaviours that show it.
PlanInv == part = "plan" => PlanSafe

LEMMA PlanInvHolds ==
    ASSUME Planning!RetirementProjectionAssumption, Planning!SumsAssumption
    PROVE  ConnectionsSpec => []PlanInv
<1>1. ConnectionsInit => PlanInv
  BY PlanSafeAtFirst DEF ConnectionsInit, PlanInv
<1>2. PlanInv /\ [ConnectionsNext]_<<part, vars, bankVars, investmentVars, planVars>> => PlanInv'
  <2> SUFFICES ASSUME part = "plan", PlanSafe,
                      [ConnectionsNext]_<<part, vars, bankVars, investmentVars, planVars>>
               PROVE  PlanSafe'
    BY DEF PlanInv, ConnectionsNext
  <2>1. CASE Planning!Next
    BY <2>1, PlanSafeKept
  <2>2. CASE ~ Planning!Next
    <3>1. UNCHANGED planVars
      BY <2>2 DEF ConnectionsNext
    <3>2. UNCHANGED << asked, year, run, lo, hi, round >>
      BY <3>1 DEF planVars
    <3> QED BY <3>2 DEF PlanSafe, Planning!Target, Planning!W_MAX
  <2> QED BY <2>1, <2>2
<1> QED BY <1>1, <1>2, PTL DEF ConnectionsSpec

\* A year of retirement neither makes nor loses money, whatever the request, the return
\* and the accounts (decumulate).
THEOREM YearsBalance ==
    ASSUME Planning!RetirementProjectionAssumption, Planning!SumsAssumption
    PROVE  ConnectionsSpec => BooksBalance
<1>1. PlanInv => (part = "plan" => Planning!YearBalances)
  BY YearBooks DEF PlanInv
<1> QED BY <1>1, PlanInvHolds, PTL DEF BooksBalance

\* The interval of the search: what is below it lasts, what is above does not, unless
\* the bound of the search is; it halves at each round, once the years are simulated.
EdgeBetween ==
    /\ ~ run[0].depleted
    /\ hi - lo = 2 ^ (BISECTION_ITERATIONS - round)
    /\ round = 0 => lo = 0 /\ hi = Planning!W_MAX
    /\ round > 0 => Planning!Simulated
    /\ Planning!Survives(lo) /\ (hi = Planning!W_MAX \/ ~ Planning!Survives(hi))

LEMMA EdgeAtFirst ==
    ASSUME Planning!RetirementProjectionAssumption, Planning!Init
    PROVE  EdgeBetween
<1>1. BISECTION_ITERATIONS \in Nat /\ Planning!W_MAX \in Nat /\ Planning!W_MAX = 2 ^ BISECTION_ITERATIONS
  BY DEF Planning!RetirementProjectionAssumption, Planning!W_MAX
<1>2. lo = 0 /\ hi = Planning!W_MAX /\ round = 0
  BY DEF Planning!Init
<1>3. hi - lo = 2 ^ (BISECTION_ITERATIONS - round)
  <2>1. hi - lo = Planning!W_MAX /\ BISECTION_ITERATIONS - round = BISECTION_ITERATIONS
    BY <1>1, <1>2
  <2> QED BY <1>1, <2>1
<1>4. 0 \in Planning!Target
  BY <1>1 DEF Planning!Target
<1>5. ~ Planning!Opening(asked).depleted
  BY DEF Planning!Opening
<1>6. ~ run[0].depleted
  BY <1>4, <1>5 DEF Planning!Init
<1> QED BY <1>2, <1>3, <1>6 DEF EdgeBetween, Planning!Survives

\* A year is simulated before the search begins; a round of it halves the interval.
LEMMA EdgeKept ==
    ASSUME Planning!RetirementProjectionAssumption, Planning!SumsAssumption, Planning!PowersAssumption,
           PlanSafe, EdgeBetween, Planning!Next
    PROVE  EdgeBetween'
<1>1. /\ BISECTION_ITERATIONS \in Nat /\ round \in 0 .. BISECTION_ITERATIONS
      /\ Planning!W_MAX \in Nat /\ 0 \in Planning!Target
      /\ lo \in Int /\ hi \in Int
      /\ Planning!W_MAX' = Planning!W_MAX
  BY DEF PlanSafe, Planning!RetirementProjectionAssumption, Planning!Target, Planning!W_MAX
<1>2. ASSUME NEW r \in Return, Planning!Year(r)
      PROVE  EdgeBetween'
  <2>1. /\ year < Planning!horizon_years(asked) /\ year \in Nat
        /\ lo' = lo /\ hi' = hi /\ round' = round
    BY <1>2 DEF Planning!Year, PlanSafe
  <2>2. round = 0
    <3>1. round > 0 => year = Planning!horizon_years(asked)
      BY DEF EdgeBetween, Planning!Simulated
    <3> QED BY <1>1, <2>1, <3>1
  <2>3. lo = 0 /\ hi = Planning!W_MAX
    BY <2>2 DEF EdgeBetween
  <2>4. ~ run'[0].depleted
    BY <1>1, <1>2, YearOfRun DEF EdgeBetween
  <2> QED BY <1>1, <2>1, <2>2, <2>3, <2>4 DEF EdgeBetween, Planning!Survives
<1>3. CASE Planning!Bisect
  <2>1. PICK k, p : k = BISECTION_ITERATIONS - round - 1 /\ p = 2 ^ k
    OBVIOUS
  <2>2. round < BISECTION_ITERATIONS /\ round' = round + 1 /\ UNCHANGED << asked, year, run >>
    BY <1>3 DEF Planning!Bisect
  <2>3. /\ k \in 0 .. BISECTION_ITERATIONS - 1 /\ k \in 0 .. BISECTION_ITERATIONS
        /\ k + 1 = BISECTION_ITERATIONS - round /\ k = BISECTION_ITERATIONS - round'
        /\ round' > 0 /\ round' # 0
    BY <1>1, <2>1, <2>2
  <2>4. p \in Nat /\ 2 ^ (k + 1) = 2 * p
    BY <2>1, <2>3 DEF Planning!PowersAssumption
  <2>5. hi - lo = 2 * p
    BY <2>3, <2>4 DEF EdgeBetween
  <2>6. PICK mid : mid = (lo + hi) \div 2
    OBVIOUS
  <2>7. mid = lo + p /\ hi = mid + p
    BY <1>1, <2>4, <2>5, <2>6
  <2>8. \/ lo' = mid /\ hi' = hi /\ Planning!Survives(mid)
        \/ lo' = lo /\ hi' = mid /\ ~ Planning!Survives(mid)
    BY <1>3, <2>6 DEF Planning!Bisect
  <2>9. hi' - lo' = p
    BY <1>1, <2>4, <2>7, <2>8
  <2>10. hi' - lo' = 2 ^ (BISECTION_ITERATIONS - round')
    BY <2>1, <2>3, <2>9
  <2>11. Planning!Simulated /\ Planning!Simulated'
    <3>1. Planning!Simulated
      BY <1>3 DEF Planning!Bisect
    <3> QED BY <2>2, <3>1 DEF Planning!Simulated
  <2>12. /\ ~ run'[lo'].depleted
         /\ hi' = Planning!W_MAX \/ ~ ~ run'[hi'].depleted
    BY <2>2, <2>8 DEF EdgeBetween, Planning!Survives
  <2>13. ~ run'[0].depleted
    BY <2>2 DEF EdgeBetween
  <2> QED BY <1>1, <2>3, <2>10, <2>11, <2>12, <2>13 DEF EdgeBetween, Planning!Survives
<1> QED BY <1>2, <1>3 DEF Planning!Next

\* An income lasts, and the next larger one does not or is the bound of the search.
AtTheEdge ==
    Planning!Solved =>
        LET answer == Planning!sustainable_annual_w
        IN  /\ answer \in Planning!Target /\ Planning!Survives(answer)
            /\ answer + 1 = Planning!W_MAX \/ ~ Planning!Survives(answer + 1)

LEMMA EdgeIsFound ==
    ASSUME Planning!RetirementProjectionAssumption, PlanSafe, EdgeBetween
    PROVE  AtTheEdge
<1> SUFFICES ASSUME Planning!Solved PROVE AtTheEdge
  BY DEF AtTheEdge
<1>1. /\ BISECTION_ITERATIONS \in Nat /\ round = BISECTION_ITERATIONS
      /\ lo \in Planning!Target /\ lo \in Int /\ hi \in Int
  BY DEF PlanSafe, Planning!RetirementProjectionAssumption, Planning!Target, Planning!W_MAX, Planning!Solved
<1>2. BISECTION_ITERATIONS - round = 0 /\ 2 ^ 0 = 1
  BY <1>1
<1>3. hi - lo = 1
  BY <1>2 DEF EdgeBetween
<1>4. PICK answer : answer = Planning!sustainable_annual_w
  OBVIOUS
<1>5. answer = lo /\ answer + 1 = hi
  BY <1>1, <1>3, <1>4 DEF Planning!sustainable_annual_w
<1> QED BY <1>1, <1>4, <1>5 DEF AtTheEdge, EdgeBetween

EdgeInv == part = "plan" => PlanSafe /\ EdgeBetween

LEMMA EdgeInvHolds ==
    ASSUME Planning!RetirementProjectionAssumption, Planning!SumsAssumption, Planning!PowersAssumption
    PROVE  ConnectionsSpec => []EdgeInv
<1>1. ConnectionsInit => EdgeInv
  BY PlanSafeAtFirst, EdgeAtFirst DEF ConnectionsInit, EdgeInv
<1>2. EdgeInv /\ [ConnectionsNext]_<<part, vars, bankVars, investmentVars, planVars>> => EdgeInv'
  <2> SUFFICES ASSUME part = "plan", PlanSafe, EdgeBetween,
                      [ConnectionsNext]_<<part, vars, bankVars, investmentVars, planVars>>
               PROVE  PlanSafe' /\ EdgeBetween'
    BY DEF EdgeInv, ConnectionsNext
  <2>1. CASE Planning!Next
    BY <2>1, PlanSafeKept, EdgeKept
  <2>2. CASE ~ Planning!Next
    <3>1. UNCHANGED planVars
      BY <2>2 DEF ConnectionsNext
    <3>2. UNCHANGED << asked, year, run, lo, hi, round >>
      BY <3>1 DEF planVars
    <3>3. PlanSafe'
      BY <3>2 DEF PlanSafe, Planning!Target, Planning!W_MAX
    <3>4. EdgeBetween'
      BY <3>2 DEF EdgeBetween, Planning!Survives, Planning!Simulated, Planning!W_MAX
    <3> QED BY <3>3, <3>4
  <2> QED BY <2>1, <2>2
<1> QED BY <1>1, <1>2, PTL DEF ConnectionsSpec

\* The bisection finds an edge whatever the runs are like: the income it answers is paid
\* in every year, and the next larger one is not, or the bound of the search is reached
\* (sustainable_annual_w_for_series).
THEOREM SolveFindsTheEdge ==
    ASSUME Planning!RetirementProjectionAssumption, Planning!SumsAssumption, Planning!PowersAssumption
    PROVE  ConnectionsSpec => [](part = "plan" => AtTheEdge)
<1>1. EdgeInv => (part = "plan" => AtTheEdge)
  BY EdgeIsFound DEF EdgeInv
<1> QED BY <1>1, EdgeInvHolds, PTL

\* Who spends less does not run out sooner: what the bisection takes for granted of the
\* runs it compares.
LessLastsLonger ==
    \A v, w \in Planning!Target : v <= w /\ Planning!Survives(w) => Planning!Survives(v)

\* Where that is so there is one edge: the answer and every smaller income last, no larger
\* one does (sustainable_annual_w_for_series).
THEOREM SolvedIsTight ==
    ASSUME Planning!RetirementProjectionAssumption, Planning!SumsAssumption, Planning!PowersAssumption
    PROVE  ConnectionsSpec => [](LessLastsLonger => SolveIsTight)
<1>1. EdgeInv /\ LessLastsLonger => SolveIsTight
  <2> SUFFICES ASSUME part = "plan", PlanSafe, EdgeBetween, LessLastsLonger, Planning!Solved
               PROVE  \A w \in 0 .. Planning!W_MAX - 1 :
                          Planning!Survives(w) <=> w <= Planning!sustainable_annual_w
    BY DEF EdgeInv, SolveIsTight, Planning!SolveIsTight
  <2>1. PICK answer : answer = Planning!sustainable_annual_w
    OBVIOUS
  <2>2. /\ answer \in Planning!Target /\ Planning!Survives(answer)
        /\ answer + 1 = Planning!W_MAX \/ ~ Planning!Survives(answer + 1)
    BY <2>1, EdgeIsFound DEF AtTheEdge
  <2>3. answer \in Nat /\ Planning!W_MAX \in Nat
    BY <2>2 DEF Planning!Target, Planning!RetirementProjectionAssumption
  <2>4. ASSUME NEW w \in 0 .. Planning!W_MAX - 1
        PROVE  Planning!Survives(w) <=> w <= answer
    <3>1. w \in Planning!Target
      BY <2>3, <2>4 DEF Planning!Target
    <3>2. CASE w <= answer
      BY <2>2, <3>1, <3>2 DEF LessLastsLonger
    <3>3. CASE ~ w <= answer
      <4>1. answer + 1 \in Planning!Target /\ answer + 1 <= w /\ answer + 1 # Planning!W_MAX
        BY <2>3, <2>4, <3>3 DEF Planning!Target
      <4> QED BY <2>2, <3>1, <3>3, <4>1 DEF LessLastsLonger
    <3> QED BY <3>2, <3>3
  <2> QED BY <2>1, <2>2, <2>4
<1> QED BY <1>1, EdgeInvHolds, PTL

-----------------------------------------------------------------------------
(* The whole. *)

\* A behaviour that shows another part leaves the profile as it begins.
LEMMA ProfileOfAll == ConnectionsSpec => Spec
<1>1. ConnectionsInit => Init
  BY DEF ConnectionsInit
<1>2. [ConnectionsNext]_<<part, vars, bankVars, investmentVars, planVars>> => [Next]_vars
  BY DEF ConnectionsNext
<1> QED BY <1>1, <1>2, PTL DEF ConnectionsSpec, Spec

\* The profile is kept in whatever the four parts do together (upsert_profile).
THEOREM ProfileKeptThroughout ==
    ASSUME RetirementProfileAssumption
    PROVE  ConnectionsSpec => []ProfileKept
BY ProfileOfAll, ProfileIsKept, PTL

\* Each part has the types its module states.
THEOREM ConnectionsTyped ==
    ASSUME RetirementProfileAssumption, Bank!BankLinkAssumption, Investments!HoldingsAssumption,
           Planning!RetirementProjectionAssumption, Planning!SumsAssumption
    PROVE  ConnectionsSpec => []ConnectionsTypeOK
<1>1. ConnectionsSpec => []InvestmentsInv
  <2>1. ConnectionsInit => InvestmentsInv
    BY InvestmentsStart
  <2>2. InvestmentsInv /\ [ConnectionsNext]_<<part, vars, bankVars, investmentVars, planVars>>
          => InvestmentsInv'
    BY InvestmentsStep
  <2> QED BY <2>1, <2>2, PTL DEF ConnectionsSpec
<1>2. ConnectionsSpec => [](part # "profile" => Init)
  <2>1. ConnectionsInit => (part # "profile" => Init)
    BY DEF ConnectionsInit
  <2>2. (part # "profile" => Init)
          /\ [ConnectionsNext]_<<part, vars, bankVars, investmentVars, planVars>>
          => (part # "profile" => Init)'
    BY DEF ConnectionsNext, Init, vars
  <2> QED BY <2>1, <2>2, PTL DEF ConnectionsSpec
<1>3. TypeOK /\ (part # "profile" => Init) /\ BankInv /\ InvestmentsInv /\ PlanInv
        => ConnectionsTypeOK
  <2>1. BankInv /\ part = "bank" => Bank!TypeOK
    BY DEF BankInv, BankSafe, BankTypes
  <2>2. InvestmentsInv /\ part = "investments" => Investments!TypeOK
    BY InvestmentsPromise DEF InvestmentsInv
  <2>3. PlanInv /\ part = "plan" => Planning!TypeOK
    BY PlanTyped DEF PlanInv
  <2> QED BY <2>1, <2>2, <2>3 DEF ConnectionsTypeOK
<1> QED BY <1>1, <1>2, <1>3, ProfileOfAll, ProfileIsKept, BankInvHolds, PlanInvHolds, PTL

=============================================================================
