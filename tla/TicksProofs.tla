----------------------------- MODULE TicksProofs -----------------------------
(***************************************************************************)
(* Proofs about the hourly jobs (MCTicks), for any number of ticks and     *)
(* requests and any horizon: what is due in a period is done at most once  *)
(* (OncePerPeriodAlone); and, unless a request wrote the row under another *)
(* edit, no due renewal is cleared by one that does not ask for it, and no *)
(* category that is off is credited (NoneSkippedOrForced).                 *)
(***************************************************************************)
EXTENDS MCTicks, TLAPS

-----------------------------------------------------------------------------
(* Calendar arithmetic *)

Aligned(tf, m) == m % Length(tf) = 0

\* The period that contains t starts at the last boundary that is not after t,
\* and the next boundary is after t.
LEMMA PeriodProperties ==
    ASSUME NEW tf \in TimeFrames, NEW t \in Nat
    PROVE  /\ Length(tf) \in Nat \ {0}
           /\ PeriodStart(tf, t) \in 0 .. t /\ Aligned(tf, PeriodStart(tf, t))
           /\ \A m \in 0 .. t : Aligned(tf, m) => m <= PeriodStart(tf, t)
           /\ next_period_boundary(tf, t) \in (t + 1) .. (t + 3)
           /\ Aligned(tf, t) => next_period_boundary(tf, t) = t + Length(tf)
<1>1. CASE tf = "quarterly"
  <2>1. Length(tf) = 3
    BY <1>1 DEF Length
  <2> QED BY <2>1 DEF PeriodStart, next_period_boundary, Aligned
<1>2. CASE tf = "monthly"
  <2>1. Length(tf) = 1
    BY <1>2 DEF Length
  <2> QED BY <2>1 DEF PeriodStart, next_period_boundary, Aligned
<1> QED BY <1>1, <1>2 DEF TimeFrames

\* From one boundary to the next there is one more period.
LEMMA OnePeriodMore ==
    ASSUME NEW tf \in TimeFrames, NEW a \in Nat, NEW b \in Nat, a <= b, Aligned(tf, b)
    PROVE  /\ Aligned(tf, b + Length(tf))
           /\ (b + Length(tf) - a) \div Length(tf) = (b - a) \div Length(tf) + 1
<1>1. CASE tf = "quarterly"
  <2>1. Length(tf) = 3
    BY <1>1 DEF Length
  <2> QED BY <2>1 DEF Aligned
<1>2. CASE tf = "monthly"
  <2>1. Length(tf) = 1
    BY <1>2 DEF Length
  <2> QED BY <2>1 DEF Aligned
<1> QED BY <1>1, <1>2 DEF TimeFrames

-----------------------------------------------------------------------------
(* The accrual *)

Walk == [at : {"walk"}, now : Months, time_frame : TimeFrames, marker : Months,
         left : 0 .. MaxIterations]

\* While the budget keeps its time frame, every tick and request knows it, the
\* marker is a boundary, and the balance is the base's and one credit for each
\* period the marker has passed since.
InTime ==
  /\ \A t \in Ticks : tick[t].at = "walk" => tick[t].time_frame = time_frame
  /\ \A c \in Chats : chat[c].at = "write" => chat[c].time_frame = time_frame
  /\ fund_advanced_through # None =>
       Aligned(time_frame, fund_advanced_through) /\ fund_balance <= fund_advanced_through
  /\ is_fund =>
       /\ base.since <= fund_advanced_through
       /\ fund_balance = base.balance + (fund_advanced_through - base.since) \div Length(time_frame)

AccrualSound ==
  /\ base \in [since : Months, balance : 0 .. MaxBalance]
  /\ retimed \in BOOLEAN
  /\ \A t \in Ticks : tick[t].at = "walk" => tick[t].now <= now
  /\ fund_advanced_through # None => fund_advanced_through <= now
  /\ fund_advanced_through = None => fund_balance = 0
  /\ retimed \/ InTime

LEMMA AccrualInit == JobsInit => TypeOK /\ AccrualSound
<1> SUFFICES ASSUME JobsInit PROVE TypeOK /\ AccrualSound
  OBVIOUS
<1>1. /\ now = 0 /\ time_frame \in TimeFrames /\ archived = FALSE /\ is_fund = FALSE
      /\ fund_advanced_through = None /\ fund_balance = 0
      /\ tick = [t \in Ticks |-> Idle] /\ chat = [c \in Chats |-> Idle]
      /\ base = [since |-> 0, balance |-> 0] /\ retimed = FALSE
  BY DEF JobsInit, Init
<1>2. 0 \in Months /\ 0 \in 0 .. MaxBalance
  BY MaxMonthAssumption DEF Months, MaxBalance
<1>3. TypeOK
  BY <1>1, <1>2 DEF TypeOK
<1>4. Idle.at = "idle"
  BY DEF Idle
<1>5. InTime
  BY <1>1, <1>4 DEF InTime
<1> QED BY <1>1, <1>2, <1>3, <1>4, <1>5 DEF AccrualSound

\* A tick that is in the category, and a request that has read.
LEMMA AccrualActors ==
    ASSUME TypeOK
    PROVE  /\ Idle.at = "idle"
           /\ \A t \in Ticks : tick[t].at = "walk" => tick[t] \in Walk
           /\ \A t \in Ticks : tick[t].at # "walk" => tick[t] = Idle
           /\ \A c \in Chats : chat[c].at = "write" => chat[c].time_frame \in TimeFrames
BY DEF TypeOK, Idle, Walk

\* Turning the fund on starts the account of periods anew, from the balance kept.
LEMMA EnablingIsSound ==
    ASSUME TypeOK, AccrualSound, NEW tf \in TimeFrames, enable_category_fund(tf), ~ is_fund,
           ~ retimed => tf = time_frame,
           UNCHANGED <<now, settings, tick>>,
           chat' \in [Chats -> {Idle} \union [at : {"write"}, time_frame : TimeFrames]],
           \A c \in Chats : chat'[c].at = "write" => chat'[c] = chat[c],
           base' = [since |-> PeriodStart(time_frame, now), balance |-> fund_balance],
           retimed' = retimed
    PROVE  TypeOK' /\ AccrualSound'
<1>1. /\ is_fund' = TRUE /\ fund_advanced_through' = PeriodStart(tf, now)
      /\ fund_balance' = IF fund_advanced_through = None THEN 0 ELSE fund_balance
      /\ now' = now /\ time_frame' = time_frame /\ archived' = archived /\ tick' = tick
  BY DEF enable_category_fund, settings
<1>2. now \in Nat /\ now <= MaxMonth /\ MaxMonth \in Nat
  BY MaxMonthAssumption DEF TypeOK, Months
<1>3. /\ PeriodStart(tf, now) \in 0 .. now /\ Aligned(tf, PeriodStart(tf, now))
      /\ \A m \in 0 .. now : Aligned(tf, m) => m <= PeriodStart(tf, now)
  BY <1>2, PeriodProperties
<1>4. fund_advanced_through' \in Months /\ fund_advanced_through' # None
  BY <1>1, <1>2, <1>3, NoneAssumption DEF Months
<1>5. fund_balance' = fund_balance /\ fund_balance \in 0 .. MaxBalance
  BY <1>1 DEF AccrualSound, TypeOK
<1>6. PeriodStart(time_frame, now) \in Months
  BY <1>2, PeriodProperties DEF TypeOK, Months
<1>7. TypeOK'
  BY <1>1, <1>4, <1>5 DEF TypeOK
<1>8. ASSUME ~ retimed PROVE InTime'
  <2>1. tf = time_frame /\ InTime
    BY <1>8 DEF AccrualSound
  <2>2. fund_balance <= PeriodStart(tf, now)
    <3>1. CASE fund_advanced_through = None
      BY <1>2, <1>3, <3>1 DEF AccrualSound
    <3>2. CASE fund_advanced_through # None
      <4>1. /\ fund_advanced_through \in 0 .. now /\ Aligned(tf, fund_advanced_through)
            /\ fund_balance <= fund_advanced_through
        BY <2>1, <3>2 DEF AccrualSound, InTime, TypeOK, Months
      <4>2. fund_advanced_through <= PeriodStart(tf, now)
        BY <1>3, <4>1
      <4> QED BY <1>2, <1>3, <1>5, <4>1, <4>2
    <3> QED BY <3>1, <3>2
  <2>3. /\ base'.since = PeriodStart(tf, now) /\ base'.balance = fund_balance
    BY <1>5, <2>1
  <2>4. Length(tf) \in Nat \ {0} /\ (PeriodStart(tf, now) - PeriodStart(tf, now)) \div Length(tf) = 0
    <3>1. Length(tf) \in Nat \ {0}
      BY <1>2, PeriodProperties
    <3> QED BY <1>3, <3>1
  <2>5. /\ base'.since <= fund_advanced_through'
        /\ fund_balance' = base'.balance
              + (fund_advanced_through' - base'.since) \div Length(time_frame')
    BY <1>1, <1>3, <1>5, <2>1, <2>3, <2>4
  <2> QED BY <1>1, <1>3, <1>5, <2>1, <2>2, <2>5 DEF InTime
<1> QED BY <1>1, <1>2, <1>3, <1>4, <1>5, <1>6, <1>7, <1>8 DEF AccrualSound

\* A credit moves the marker by one period and the balance by one, and never meets
\* the bound of the balance while the budget keeps its time frame.
LEMMA CreditIsSound ==
    ASSUME TypeOK, AccrualSound, NEW t \in Ticks, AdvanceOnce(t), StillOwned(t),
           base' = base, retimed' = retimed
    PROVE  TypeOK' /\ AccrualSound'
<1>1. /\ tick[t] \in Walk /\ tick[t].left > 0
      /\ is_fund /\ fund_advanced_through = tick[t].marker
      /\ next_period_boundary(tick[t].time_frame, tick[t].marker) <= tick[t].now
      /\ tick[t].now <= now
  BY AccrualActors DEF AdvanceOnce, StillOwned, Boundary, Elapsed, AccrualSound
<1> DEFINE tf == tick[t].time_frame
           m == fund_advanced_through
           b == next_period_boundary(tf, m)
<1>2. /\ m \in 0 .. MaxMonth /\ now \in 0 .. MaxMonth /\ MaxMonth \in Nat /\ tf \in TimeFrames
      /\ tick[t].now \in 0 .. MaxMonth /\ tick[t].left \in 1 .. MaxIterations
      /\ fund_balance \in 0 .. MaxBalance /\ m # None /\ MaxIterations \in Nat
  BY <1>1, MaxMonthAssumption, MaxIterationsAssumption DEF TypeOK, Walk, Months
<1>3. /\ fund_balance' = Credited(fund_balance) /\ fund_advanced_through' = b
      /\ tick' = [tick EXCEPT ![t].marker = b, ![t].left = @ - 1]
      /\ now' = now /\ time_frame' = time_frame /\ archived' = archived /\ is_fund' = is_fund
      /\ chat' = chat
  BY <1>1 DEF AdvanceOnce, Boundary, settings, StillOwned
<1>4. b \in (m + 1) .. (m + 3) /\ (Aligned(tf, m) => b = m + Length(tf)) /\ Length(tf) \in Nat \ {0}
  BY <1>2, PeriodProperties
<1>5. b \in Months /\ b <= now /\ b # None
  BY <1>1, <1>2, <1>4, NoneAssumption DEF Months
<1>6. tick[t].left - 1 \in 0 .. MaxIterations
  BY <1>2
<1> DEFINE w == [tick[t] EXCEPT !.marker = b, !.left = @ - 1]
<1>7. /\ w \in Walk /\ w.now = tick[t].now /\ w.time_frame = tf
  <2> HIDE DEF b
  <2> QED BY <1>1, <1>5, <1>6 DEF Walk
<1>8. tick' = [tick EXCEPT ![t] = w]
  BY <1>3 DEF TypeOK
<1> HIDE DEF w, b
<1>9. Credited(fund_balance) \in 0 .. MaxBalance
  BY <1>2 DEF Credited, MaxBalance
<1>10. TypeOK'
  <2>1. tick' \in [Ticks -> {Idle} \union Walk]
    BY <1>7, <1>8 DEF TypeOK, Walk
  <2> QED BY <1>1, <1>3, <1>5, <1>9, <2>1 DEF TypeOK, Walk
<1>11. ASSUME ~ retimed PROVE InTime'
  <2>1. InTime /\ tf = time_frame
    BY <1>1, <1>11 DEF AccrualSound, InTime, Walk
  <2>2. /\ Aligned(tf, m) /\ fund_balance <= m /\ base.since <= m
        /\ fund_balance = base.balance + (m - base.since) \div Length(tf)
    BY <1>1, <1>2, <2>1 DEF InTime
  <2>3. b = m + Length(tf) /\ base.since \in Nat /\ base.balance \in Int
    BY <1>4, <2>2 DEF AccrualSound, Months
  <2>4. /\ Aligned(tf, m + Length(tf))
        /\ (m + Length(tf) - base.since) \div Length(tf) = (m - base.since) \div Length(tf) + 1
    BY <1>2, <2>2, <2>3, OnePeriodMore
  <2>5. fund_balance < MaxBalance /\ Credited(fund_balance) = fund_balance + 1
    BY <1>2, <2>2 DEF Credited, MaxBalance
  <2>6. fund_balance + 1 <= b /\ base.since <= b
    BY <1>2, <1>4, <2>2, <2>3
  <2>7. (m - base.since) \div Length(tf) \in Int
    BY <1>2, <1>4, <2>3
  <2>8. fund_balance' = base.balance + (b - base.since) \div Length(tf)
    <3>1. (b - base.since) \div Length(tf) = (m - base.since) \div Length(tf) + 1
      <4> HIDE DEF m, tf
      <4>1. b = m + Length(tf) /\ m \in Int /\ base.since \in Int /\ Length(tf) \in Nat \ {0}
        BY <1>2, <1>4, <2>3
      <4>2. b - base.since = m + Length(tf) - base.since
        BY <4>1
      <4> QED BY ONLY <4>1, <4>2, <2>4
    <3>2. fund_balance' = base.balance + (m - base.since) \div Length(tf) + 1
      BY <1>3, <2>2, <2>5
    <3> HIDE DEF m, tf
    <3> QED BY <2>3, <2>7, <3>1, <3>2
  <2>9. \A u \in Ticks : tick'[u].at = "walk" => tick'[u].time_frame = time_frame
    BY <1>7, <1>8, <2>1 DEF TypeOK, InTime
  <2> QED BY <1>3, <2>1, <2>3, <2>4, <2>5, <2>6, <2>8, <2>9 DEF InTime
<1>12. \A u \in Ticks : tick'[u].at = "walk" => tick'[u].now <= now
  BY <1>1, <1>7, <1>8 DEF TypeOK, AccrualSound
<1> QED BY <1>3, <1>5, <1>10, <1>11, <1>12 DEF AccrualSound

\* What moves neither the marker, the balance nor the fund keeps the account, if
\* whoever walks or writes afterwards did so before or has read the row of now.
LEMMA RestIsSound ==
    ASSUME TypeOK, AccrualSound, UNCHANGED <<fund, archived, base>>,
           now' \in Months, now <= now',
           time_frame' \in TimeFrames, retimed' = (retimed \/ time_frame' # time_frame),
           tick' \in [Ticks -> {Idle} \union Walk],
           \A t \in Ticks : tick'[t].at = "walk" =>
              tick'[t] = tick[t] \/ (tick'[t].now = now /\ tick'[t].time_frame = time_frame),
           chat' \in [Chats -> {Idle} \union [at : {"write"}, time_frame : TimeFrames]],
           \A c \in Chats : chat'[c].at = "write" =>
              chat'[c] = chat[c] \/ chat'[c].time_frame = time_frame
    PROVE  TypeOK' /\ AccrualSound'
<1>1. /\ is_fund' = is_fund /\ fund_advanced_through' = fund_advanced_through
      /\ fund_balance' = fund_balance /\ archived' = archived /\ base' = base
  BY DEF fund
<1>2. TypeOK'
  BY <1>1 DEF TypeOK, Walk
<1>3. now \in Int /\ now' \in Int
  BY DEF TypeOK, Months
<1>4. \A t \in Ticks : tick[t].at = "walk" => tick[t].now \in Int
  BY AccrualActors DEF Walk, Months
<1>5. \A t \in Ticks : tick'[t].at = "walk" => tick'[t].now <= now'
  BY <1>3, <1>4 DEF AccrualSound
<1>6. fund_advanced_through # None => fund_advanced_through <= now'
  BY <1>3 DEF AccrualSound, TypeOK, Months
<1>7. ASSUME ~ retimed' PROVE InTime'
  BY <1>1, <1>7 DEF AccrualSound, InTime
<1> QED BY <1>1, <1>2, <1>5, <1>6, <1>7 DEF AccrualSound

LEMMA AccrualStep == TypeOK /\ AccrualSound /\ Accrual => TypeOK' /\ AccrualSound'
<1> SUFFICES ASSUME TypeOK, AccrualSound, Accrual PROVE TypeOK' /\ AccrualSound'
  OBVIOUS
<1> DEFINE Chatting == {Idle} \union [at : {"write"}, time_frame : TimeFrames]
<1>1. /\ retimed' = (retimed \/ time_frame' # time_frame)
      /\ ~ (~ is_fund /\ is_fund') => base' = base
      /\ ~ is_fund /\ is_fund' => base' = [since |-> PeriodStart(time_frame, now), balance |-> fund_balance]
      /\ Next
  BY DEF Accrual
<1>2. /\ tick \in [Ticks -> {Idle} \union Walk] /\ chat \in [Chats -> Chatting]
      /\ now \in Months /\ now <= now /\ time_frame \in TimeFrames
      /\ Idle.at = "idle"
  BY AccrualActors DEF TypeOK, Walk, Months
<1>3. CASE Clock
  <2>1. now' \in Months /\ now <= now'
    BY <1>3, MaxMonthAssumption DEF Clock, TypeOK, Months
  <2> QED BY <1>1, <1>2, <1>3, <2>1, RestIsSound DEF Clock, settings, fund
<1>4. ASSUME NEW on \in BOOLEAN, UpdateCategory(on) PROVE TypeOK' /\ AccrualSound'
  <2>1. UNCHANGED <<now, settings, tick, chat>> /\ time_frame' = time_frame
    BY <1>4 DEF UpdateCategory, settings
  <2>2. CASE on /\ ~ is_fund
    <3>1. enable_category_fund(time_frame) /\ is_fund'
      BY <1>4, <2>2 DEF UpdateCategory, enable_category_fund
    <3>2. retimed' = retimed
      BY <1>1, <2>1 DEF AccrualSound
    <3> QED BY <1>1, <1>2, <2>1, <2>2, <3>1, <3>2, EnablingIsSound
  <2>3. CASE on /\ is_fund
    <3>1. UNCHANGED fund
      BY <1>4, <2>3 DEF UpdateCategory, enable_category_fund
    <3> QED BY <1>1, <1>2, <2>1, <2>3, <3>1, RestIsSound DEF settings
  <2>4. CASE ~ on
    <3>1. /\ is_fund' = FALSE /\ fund_advanced_through' = fund_advanced_through
          /\ fund_balance' = fund_balance /\ base' = base
      BY <1>1, <1>4, <2>4 DEF UpdateCategory, disable_category_fund
    <3>2. TypeOK'
      BY <2>1, <3>1 DEF TypeOK, settings
    <3> QED BY <1>1, <2>1, <3>1, <3>2 DEF AccrualSound, InTime, settings
  <2> QED BY <2>2, <2>3, <2>4
<1>5. ASSUME NEW on \in BOOLEAN, SetArchived(on) PROVE TypeOK' /\ AccrualSound'
  <2>1. /\ UNCHANGED <<now, time_frame, fund, tick, chat>> /\ archived' = on
        /\ is_fund' = is_fund /\ base' = base
    BY <1>1, <1>5 DEF SetArchived, fund
  <2>2. TypeOK'
    BY <2>1 DEF TypeOK, fund
  <2> QED BY <1>1, <2>1, <2>2 DEF AccrualSound, InTime, fund
<1>6. ASSUME NEW c \in Chats, ChatRead(c) PROVE TypeOK' /\ AccrualSound'
  <2>1. /\ UNCHANGED <<now, settings, fund, tick>> /\ is_fund' = is_fund
        /\ chat' = [chat EXCEPT ![c] = [at |-> "write", time_frame |-> time_frame]]
    BY <1>6 DEF ChatRead, fund
  <2>2. /\ chat' \in [Chats -> Chatting]
        /\ \A d \in Chats : chat'[d] = chat[d] \/ chat'[d].time_frame = time_frame
    BY <1>2, <2>1
  <2> QED BY <1>1, <1>2, <2>1, <2>2, RestIsSound DEF settings
<1>7. ASSUME NEW c \in Chats, ChatWrite(c) PROVE TypeOK' /\ AccrualSound'
  <2>1. /\ UNCHANGED <<now, settings, tick>> /\ chat[c].at = "write"
        /\ chat' = [chat EXCEPT ![c] = Idle] /\ time_frame' = time_frame
        /\ enable_category_fund(chat[c].time_frame) \/ UNCHANGED fund
    BY <1>7 DEF ChatWrite, settings
  <2>2. /\ chat' \in [Chats -> Chatting]
        /\ \A d \in Chats : chat'[d].at = "write" => chat'[d] = chat[d]
    BY <1>2, <2>1
  <2>3. CASE UNCHANGED fund
    BY <1>1, <1>2, <2>1, <2>2, <2>3, RestIsSound DEF settings, fund
  <2>4. CASE enable_category_fund(chat[c].time_frame) /\ ~ is_fund
    <3>1. chat[c].time_frame \in TimeFrames /\ (~ retimed => chat[c].time_frame = time_frame)
      BY <2>1, AccrualActors DEF AccrualSound, InTime
    <3>2. is_fund' /\ retimed' = retimed
      BY <1>1, <2>1, <2>4 DEF enable_category_fund, AccrualSound
    <3> QED BY <1>1, <2>1, <2>2, <2>4, <3>1, <3>2, EnablingIsSound
  <2>5. CASE enable_category_fund(chat[c].time_frame) /\ is_fund
    BY <2>3, <2>5 DEF enable_category_fund
  <2> QED BY <2>1, <2>3, <2>4, <2>5
<1>8. ASSUME NEW tf \in TimeFrames, Retime(tf) PROVE TypeOK' /\ AccrualSound'
  BY <1>1, <1>2, <1>8, RestIsSound DEF Retime, fund
<1>9. ASSUME NEW t \in Ticks, SelectFund(t) PROVE TypeOK' /\ AccrualSound'
  <2> DEFINE w == [at |-> "walk", now |-> now, time_frame |-> time_frame,
                   marker |-> fund_advanced_through, left |-> MaxIterations]
  <2>1. /\ UNCHANGED <<now, settings, fund, chat>> /\ is_fund' = is_fund
        /\ tick' = [tick EXCEPT ![t] = w] /\ fund_advanced_through # None
    BY <1>9 DEF SelectFund, fund, Eligible
  <2>2. w \in Walk /\ w.now = now /\ w.time_frame = time_frame
    BY <2>1, MaxIterationsAssumption DEF TypeOK, Walk
  <2> HIDE DEF w
  <2>3. /\ tick' \in [Ticks -> {Idle} \union Walk]
        /\ \A u \in Ticks : tick'[u] = tick[u] \/ (tick'[u].now = now /\ tick'[u].time_frame = time_frame)
    BY <1>2, <2>1, <2>2
  <2> QED BY <1>1, <1>2, <2>1, <2>3, RestIsSound DEF settings
<1>10. ASSUME NEW t \in Ticks, UNCHANGED <<now, settings, fund, chat>>,
              tick' = [tick EXCEPT ![t] = Idle]
       PROVE  TypeOK' /\ AccrualSound'
  <2>1. /\ tick' \in [Ticks -> {Idle} \union Walk]
        /\ \A u \in Ticks : tick'[u].at = "walk" => tick'[u] = tick[u]
    BY <1>2, <1>10
  <2> QED BY <1>1, <1>2, <1>10, <2>1, RestIsSound DEF settings, fund
<1>11. ASSUME NEW t \in Ticks, AdvanceOnce(t) PROVE TypeOK' /\ AccrualSound'
  <2>1. UNCHANGED <<now, settings, is_fund, chat>> /\ base' = base /\ retimed' = retimed
    BY <1>1, <1>11 DEF AdvanceOnce, settings, AccrualSound
  <2>2. CASE StillOwned(t)
    BY <1>11, <2>1, <2>2, CreditIsSound
  <2>3. CASE ~ StillOwned(t)
    BY <1>10, <1>11, <2>1, <2>3 DEF AdvanceOnce, fund
  <2> QED BY <2>2, <2>3
<1>12. ASSUME NEW t \in Ticks, WalkEnds(t) \/ TickFails(t) PROVE TypeOK' /\ AccrualSound'
  BY <1>10, <1>12 DEF WalkEnds, TickFails
<1> QED BY <1>1, <1>3, <1>4, <1>5, <1>6, <1>7, <1>8, <1>9, <1>11, <1>12 DEF Next

-----------------------------------------------------------------------------
(* The renewal *)

Selected == [at : {"write"}, now : Months, time_frame : TimeFrames]
Update == [at : {"write"}, set : Renewal!Updates]
Toggle == [at : {"toggle"}, on : BOOLEAN, marker : Renewal!Markers]

\* The marker a request is to write.
MarkerOf(x) == IF x.at = "write" THEN x.set.next_renewal_at ELSE x.marker

\* Each month is renewed at most once, and the marker of the row is past those that
\* were; a request, none of which is stale, carries a marker that would be too.
Past(m) == m # None => \A n \in Months : renewals[n] # 0 => n < m

RenewedInOrder ==
  /\ \A n \in Months : renewals[n] <= 1 /\ (renewals[n] # 0 => n <= now)
  /\ Past(budget.next_renewal_at)
  /\ \A e \in Edits : edit[e] # Idle => Past(MarkerOf(edit[e]))

RenewalSound ==
  /\ \A t \in Ticks : renewing[t].at = "write" => renewing[t].now <= now
  /\ job = "accrual" => \A e \in Edits : edit[e] = Idle
  /\ stale \in BOOLEAN
  /\ stale \/ RenewedInOrder

LEMMA RenewalInit == JobsInit => Renewal!TypeOK /\ RenewalSound
<1> SUFFICES ASSUME JobsInit PROVE Renewal!TypeOK /\ RenewalSound
  OBVIOUS
<1>1. /\ now = 0 /\ renewals = [m \in Months |-> 0] /\ stale = FALSE
      /\ budget \in [time_frame : TimeFrames, type : {"time_based"}, archived : {FALSE},
                     auto_renew : {FALSE}, next_renewal_at : {None}]
      /\ renewing = [t \in Ticks |-> Idle] /\ edit = [e \in Edits |-> Idle]
  BY DEF JobsInit, Renewal!Init, Renewal!Months, Months, Renewal!TimeFrames, TimeFrames,
         Renewal!Idle, Idle
<1>2. 0 \in Months /\ Idle.at = "idle"
  BY MaxMonthAssumption DEF Months, Idle
<1>3. budget \in Renewal!Rows
  BY <1>1 DEF Renewal!Rows, Renewal!Types, Renewal!Markers, Renewal!TimeFrames, TimeFrames
<1>4. Renewal!TypeOK
  BY <1>1, <1>2, <1>3
     DEF Renewal!TypeOK, Renewal!Idle, Idle, Renewal!Months, Months
<1>5. RenewedInOrder
  BY <1>1, <1>2 DEF RenewedInOrder, Past
<1> QED BY <1>1, <1>2, <1>4, <1>5 DEF RenewalSound

\* A tick that has selected, and a request that has read.
LEMMA RenewalActors ==
    ASSUME Renewal!TypeOK
    PROVE  /\ Idle.at = "idle"
           /\ \A t \in Ticks : renewing[t].at = "write" => renewing[t] \in Selected
           /\ \A e \in Edits : edit[e].at = "write" => edit[e] \in Update
           /\ \A e \in Edits : edit[e].at = "toggle" => edit[e] \in Toggle
           /\ \A e \in Edits : edit[e].at \notin {"write", "toggle"} => edit[e] = Idle
BY DEF Renewal!TypeOK, Renewal!Idle, Idle, Selected, Update, Toggle, Renewal!Months, Months,
       Renewal!TimeFrames, TimeFrames

\* A marker that is computed now is past the clock.
LEMMA MarkerProperties ==
    ASSUME NEW on, NEW tf \in TimeFrames, NEW t \in Months
    PROVE  /\ Renewal!next_period_boundary(tf, t) \in Renewal!Markers \ {None}
           /\ Renewal!next_period_boundary(tf, t) \in (t + 1) .. (t + 3)
           /\ \/ Renewal!renewal_marker(on, tf, t) = None
              \/ Renewal!renewal_marker(on, tf, t) = Renewal!next_period_boundary(tf, t)
<1>1. Renewal!next_period_boundary(tf, t) = next_period_boundary(tf, t)
  BY DEF Renewal!next_period_boundary, next_period_boundary, Renewal!PeriodStart, PeriodStart,
         Renewal!Length, Length
<1>2. t \in Nat /\ t <= MaxMonth /\ MaxMonth \in Nat
  BY MaxMonthAssumption DEF Months
<1>3. next_period_boundary(tf, t) \in (t + 1) .. (t + 3)
  BY <1>2, PeriodProperties
<1>4. next_period_boundary(tf, t) # None /\ next_period_boundary(tf, t) \in 0 .. (MaxMonth + 3)
  BY <1>2, <1>3, NoneAssumption
<1> QED BY <1>1, <1>3, <1>4 DEF Renewal!Markers, Renewal!renewal_marker

\* What a request computes, and the row it leaves.
LEMMA UpdateOfProperties ==
    ASSUME Renewal!TypeOK, NEW tf \in TimeFrames, NEW type \in Renewal!Types \union {None},
           NEW auto \in BOOLEAN \union {None}
    PROVE  LET set == Renewal!UpdateOf(budget, tf, type, auto)
           IN /\ set \in Renewal!Updates
              /\ \/ set.next_renewal_at \in {None, budget.next_renewal_at}
                 \/ set.next_renewal_at \in Int /\ set.next_renewal_at > now
              /\ ~ set.asked => \/ set.time_frame # budget.time_frame
                                \/ set.type # None /\ set.type # budget.type
                                \/ set.next_renewal_at = budget.next_renewal_at
<1> DEFINE newType == IF type = None THEN budget.type ELSE type
           on == newType = "time_based" /\ IF auto = None THEN budget.auto_renew ELSE auto
           affected == auto # None \/ newType # budget.type \/ tf # budget.time_frame
           marker == IF affected THEN Renewal!renewal_marker(on, tf, now)
                     ELSE budget.next_renewal_at
           set == [time_frame |-> tf, type |-> type, asked |-> auto # None, auto_renew |-> on,
                   next_renewal_at |-> marker]
<1>1. budget \in Renewal!Rows /\ now \in Months
  BY DEF Renewal!TypeOK, Renewal!Months, Months
<1>2. /\ budget.type \in Renewal!Types /\ budget.auto_renew \in BOOLEAN
      /\ budget.next_renewal_at \in Renewal!Markers
  BY <1>1 DEF Renewal!Rows
<1>3. Renewal!UpdateOf(budget, tf, type, auto) = set
  BY DEF Renewal!UpdateOf
<1>4. on \in BOOLEAN /\ (auto # None) \in BOOLEAN
  OBVIOUS
<1> HIDE DEF on
<1>5. /\ marker \in Renewal!Markers
      /\ \/ marker \in {None, budget.next_renewal_at}
         \/ marker \in Int /\ marker > now
  <2>1. now \in Int
    BY <1>1 DEF Months
  <2>2. None \in Renewal!Markers
    BY DEF Renewal!Markers
  <2> QED BY <1>1, <1>2, <2>1, <2>2, MarkerProperties
<1>6. ~ (auto # None) => \/ tf # budget.time_frame
                         \/ type # None /\ type # budget.type
                         \/ marker = budget.next_renewal_at
  OBVIOUS
<1> HIDE DEF marker
<1>7. set \in Renewal!Updates
  BY <1>4, <1>5 DEF Renewal!Updates, Renewal!TimeFrames, TimeFrames
<1>8. /\ set.time_frame = tf /\ set.type = type /\ set.asked = (auto # None)
      /\ set.next_renewal_at = marker
  OBVIOUS
<1> HIDE DEF set
<1> QED BY <1>3, <1>5, <1>6, <1>7, <1>8

LEMMA WrittenProperties ==
    ASSUME Renewal!TypeOK, NEW set \in Renewal!Updates
    PROVE  LET row == Renewal!Written(budget, set)
           IN /\ row \in Renewal!Rows
              /\ row.auto_renew => row.type = "time_based"
              /\ \/ row = budget
                 \/ /\ row.next_renewal_at = set.next_renewal_at
                    /\ row.time_frame = set.time_frame /\ row.archived = budget.archived
                    /\ row.type = IF set.type = None THEN budget.type ELSE set.type
<1> DEFINE type == IF set.type = None THEN budget.type ELSE set.type
           row == [budget EXCEPT !.time_frame = set.time_frame, !.type = type,
                      !.auto_renew = set.auto_renew, !.next_renewal_at = set.next_renewal_at]
<1>1. budget \in Renewal!Rows /\ (budget.auto_renew => budget.type = "time_based")
  BY DEF Renewal!TypeOK
<1>2. type \in Renewal!Types
  BY <1>1 DEF Renewal!Rows, Renewal!Updates
<1>3. Renewal!Written(budget, set) = IF set.auto_renew /\ type # "time_based" THEN budget ELSE row
  BY DEF Renewal!Written
<1> HIDE DEF type
<1>4. /\ row \in Renewal!Rows /\ row.next_renewal_at = set.next_renewal_at
      /\ row.time_frame = set.time_frame /\ row.archived = budget.archived
      /\ row.type = type /\ row.auto_renew = set.auto_renew
  BY <1>1, <1>2 DEF Renewal!Rows, Renewal!Updates
<1> HIDE DEF row
<1> QED BY <1>1, <1>3, <1>4 DEF type

\* A step that renews nothing: it is enough to see what it writes, and what a
\* request that has just read is to write.
LEMMA NothingRenewedIsSound ==
    ASSUME Renewal!TypeOK, RenewalSound, UNCHANGED <<job, renewals>>,
           now' \in Months, now <= now',
           budget' \in Renewal!Rows, budget'.auto_renew => budget'.type = "time_based",
           renewing' \in [Ticks -> {Idle} \union Selected],
           \A t \in Ticks : renewing'[t].at = "write" => renewing'[t] = renewing[t] \/ renewing'[t].now = now,
           edit' \in [Edits -> {Idle} \union Update \union Toggle],
           job = "accrual" => edit' = edit, stale' \in BOOLEAN, ~ stale' => ~ stale,
           RenewedInOrder /\ ~ stale' => Past(budget'.next_renewal_at),
           RenewedInOrder /\ ~ stale' => \A e \in Edits : edit'[e] \notin {Idle, edit[e]} => Past(MarkerOf(edit'[e]))
    PROVE  Renewal!TypeOK' /\ RenewalSound'
<1>1. Renewal!TypeOK'
  BY DEF Renewal!TypeOK, Renewal!Idle, Idle, Selected, Update, Toggle, Renewal!Months, Months,
         Renewal!TimeFrames, TimeFrames
<1>2. now \in Int /\ now' \in Int /\ Months \subseteq Int
  BY DEF Renewal!TypeOK, Renewal!Months, Months
<1>3. \A t \in Ticks : renewing[t].at = "write" => renewing[t].now \in Int
  BY <1>2, RenewalActors DEF Selected
<1>4. \A t \in Ticks : renewing'[t].at = "write" => renewing'[t].now <= now'
  BY <1>2, <1>3 DEF RenewalSound
<1>5. ASSUME ~ stale' PROVE RenewedInOrder'
  <2>1. RenewedInOrder
    BY <1>5 DEF RenewalSound
  <2>2. Past(budget'.next_renewal_at)
    BY <1>5, <2>1
  <2>3. \A e \in Edits : edit'[e] # Idle => Past(MarkerOf(edit'[e]))
    BY <1>5, <2>1 DEF RenewedInOrder
  <2>4. \A n \in Months : renewals[n] # 0 => n <= now'
    BY <1>2, <2>1 DEF RenewedInOrder
  <2> QED BY <2>1, <2>2, <2>3, <2>4 DEF RenewedInOrder, Past
<1> QED BY <1>1, <1>4, <1>5 DEF RenewalSound

\* A renewal that takes place leaves a marker past every month renewed so far.
LEMMA RenewalIsSound ==
    ASSUME Renewal!TypeOK, RenewalSound, NEW t \in Ticks, Renewal!Renew(t),
           Renewal!Due(budget, renewing[t].now), job' = job,
           stale' = (stale \/ \E e \in Reading : edit'[e] = edit[e]
                                                  /\ <<budget', now'>> # <<budget, now>>)
    PROVE  /\ Renewal!TypeOK' /\ RenewalSound'
           /\ budget'.time_frame = budget.time_frame /\ budget'.type = budget.type
           /\ budget.next_renewal_at # None /\ budget'.next_renewal_at # None
           /\ budget.next_renewal_at < budget'.next_renewal_at
<1> DEFINE m == renewing[t].now
           b == Renewal!next_period_boundary(renewing[t].time_frame, m)
<1>1. /\ renewing[t] \in Selected /\ m \in Months /\ m <= now /\ now \in Months
      /\ renewing[t].time_frame \in TimeFrames /\ budget \in Renewal!Rows
      /\ renewals \in [Months -> 0 .. 2] /\ Months \subseteq Int
  BY RenewalActors DEF Renewal!Renew, RenewalSound, Selected, Renewal!TypeOK, Renewal!Months, Months
<1>2. /\ budget' = [budget EXCEPT !.next_renewal_at = b]
      /\ renewals' = [renewals EXCEPT ![m] = Renewal!Counted(@)]
      /\ renewing' = [renewing EXCEPT ![t] = Idle]
      /\ now' = now /\ edit' = edit
  BY DEF Renewal!Renew, Renewal!Idle, Idle
<1>3. b \in Renewal!Markers \ {None} /\ b \in (m + 1) .. (m + 3)
  BY <1>1, MarkerProperties
<1>4. /\ budget.auto_renew /\ budget.next_renewal_at # None /\ budget.next_renewal_at <= m
      /\ budget.next_renewal_at \in Int
  BY <1>1 DEF Renewal!Due, Renewal!Rows, Renewal!Markers
<1> HIDE DEF m, b
<1>5. /\ budget' \in Renewal!Rows /\ budget'.next_renewal_at = b
      /\ budget'.auto_renew = budget.auto_renew /\ budget'.type = budget.type
      /\ budget'.time_frame = budget.time_frame
  BY <1>1, <1>2, <1>3 DEF Renewal!Rows
<1>6. Renewal!Counted(renewals[m]) \in 0 .. 2 /\ (renewals[m] = 0 => Renewal!Counted(renewals[m]) = 1)
  BY <1>1 DEF Renewal!Counted
<1>7. /\ renewals' \in [Months -> 0 .. 2] /\ renewals'[m] = Renewal!Counted(renewals[m])
      /\ \A n \in Months : n # m => renewals'[n] = renewals[n]
  BY <1>1, <1>2, <1>6
<1>8. /\ renewing' \in [Ticks -> {Idle} \union Selected]
      /\ \A u \in Ticks : renewing'[u].at = "write" => renewing'[u] = renewing[u]
  BY <1>2, RenewalActors DEF Renewal!TypeOK, Selected, Renewal!Idle, Idle, Renewal!Months, Months,
     Renewal!TimeFrames, TimeFrames
<1>9. Renewal!TypeOK'
  BY <1>1, <1>2, <1>4, <1>5, <1>7, <1>8
     DEF Renewal!TypeOK, Selected, Renewal!Idle, Idle, Renewal!Months, Months, Renewal!TimeFrames, TimeFrames
<1>10. b # None /\ b \in Int /\ budget.next_renewal_at < b /\ budget' # budget
  BY <1>1, <1>3, <1>4, <1>5
<1>11. ASSUME ~ stale' PROVE RenewedInOrder'
  <2>1. RenewedInOrder
    BY <1>11 DEF RenewalSound
  <2>2. renewals[m] = 0
    BY <1>1, <1>4, <2>1 DEF RenewedInOrder, Past
  <2>3. \A n \in Months : renewals'[n] <= 1 /\ (renewals'[n] # 0 => n <= now')
    BY <1>1, <1>2, <1>6, <1>7, <2>1, <2>2 DEF RenewedInOrder
  <2>4. Past(budget.next_renewal_at)'
    <3>1. \A n \in Months : renewals'[n] # 0 => n < b
      BY <1>1, <1>3, <1>4, <1>7, <1>10, <2>1 DEF RenewedInOrder, Past
    <3> QED BY <1>5, <3>1 DEF Past
  <2>5. \A e \in Edits : edit'[e] = Idle
    BY <1>2, <1>10, <1>11 DEF Reading
  <2> QED BY <2>3, <2>4, <2>5 DEF RenewedInOrder
<1>12. stale' \in BOOLEAN
  BY DEF RenewalSound
<1>13. \A u \in Ticks : renewing'[u].at = "write" => renewing'[u].now <= now'
  BY <1>2, <1>8 DEF RenewalSound
<1> QED BY <1>2, <1>4, <1>5, <1>9, <1>10, <1>11, <1>12, <1>13 DEF RenewalSound

LEMMA RenewalStep == Renewal!TypeOK /\ RenewalSound /\ job = "renewal" /\ job' = job /\ Renewing
                        => Renewal!TypeOK' /\ RenewalSound'
<1> SUFFICES ASSUME Renewal!TypeOK, RenewalSound, job = "renewal", job' = job, Renewing
             PROVE  Renewal!TypeOK' /\ RenewalSound'
  OBVIOUS
<1> DEFINE Requests == {Idle} \union Update \union Toggle
           Sound == Renewal!TypeOK' /\ RenewalSound'
<1>1. stale' = (stale \/ \E e \in Reading : edit'[e] = edit[e]
                                             /\ <<budget', now'>> # <<budget, now>>)
  BY DEF Renewing
<1>2. stale' \in BOOLEAN /\ (~ stale' => ~ stale) /\ job # "accrual"
  BY <1>1 DEF RenewalSound
<1>3. /\ now \in Months /\ now <= now /\ budget \in Renewal!Rows
      /\ budget.auto_renew => budget.type = "time_based"
      /\ renewing \in [Ticks -> {Idle} \union Selected] /\ edit \in [Edits -> Requests]
      /\ Idle.at = "idle" /\ Renewal!Idle = Idle
  BY DEF Renewal!TypeOK, Selected, Update, Toggle, Renewal!Idle, Idle, Renewal!Months, Months,
         Renewal!TimeFrames, TimeFrames
<1>4. RenewedInOrder => Past(budget.next_renewal_at)
  BY DEF RenewedInOrder
<1>5. CASE Renewal!Clock
  <2>1. now' \in Months /\ now <= now'
    BY <1>5, MaxMonthAssumption DEF Renewal!Clock, Renewal!TypeOK, Renewal!Months, Months
  <2>2. budget' = budget /\ renewals' = renewals /\ renewing' = renewing /\ edit' = edit
    BY <1>5 DEF Renewal!Clock
  <2> QED BY <1>2, <1>3, <1>4, <2>1, <2>2, NothingRenewedIsSound
<1>6. ASSUME NEW t \in Ticks, Renewal!SelectDue(t) PROVE Sound
  <2> DEFINE w == [at |-> "write", now |-> now, time_frame |-> budget.time_frame]
  <2>1. /\ now' = now /\ budget' = budget /\ renewals' = renewals /\ edit' = edit
        /\ renewing' = [renewing EXCEPT ![t] = w]
    BY <1>6 DEF Renewal!SelectDue
  <2>2. w \in Selected /\ w.now = now
    BY <1>3 DEF Selected, Renewal!Rows, Renewal!TimeFrames, TimeFrames
  <2> HIDE DEF w
  <2>3. /\ renewing' \in [Ticks -> {Idle} \union Selected]
        /\ \A u \in Ticks : renewing'[u] = renewing[u] \/ renewing'[u].now = now
    BY <1>3, <2>1, <2>2
  <2> QED BY <1>2, <1>3, <1>4, <2>1, <2>3, NothingRenewedIsSound
<1>7. ASSUME NEW t \in Ticks, UNCHANGED <<now, budget, renewals, edit>>,
             renewing' = [renewing EXCEPT ![t] = Idle]
      PROVE  Sound
  <2>1. /\ renewing' \in [Ticks -> {Idle} \union Selected]
        /\ \A u \in Ticks : renewing'[u].at = "write" => renewing'[u] = renewing[u]
    BY <1>3, <1>7
  <2> QED BY <1>2, <1>3, <1>4, <1>7, <2>1, NothingRenewedIsSound
<1>8. ASSUME NEW t \in Ticks, Renewal!Renew(t) PROVE Sound
  <2>1. CASE Renewal!Due(budget, renewing[t].now)
    BY <1>1, <1>8, <2>1, RenewalIsSound
  <2>2. CASE ~ Renewal!Due(budget, renewing[t].now)
    BY <1>3, <1>7, <1>8, <2>2 DEF Renewal!Renew
  <2> QED BY <2>1, <2>2
<1>9. ASSUME NEW t \in Ticks, Renewal!TickFails(t) PROVE Sound
  BY <1>3, <1>7, <1>9 DEF Renewal!TickFails
<1>10. ASSUME NEW e \in Edits, NEW x \in Update \union Toggle,
              UNCHANGED <<now, budget, renewals, renewing>>, edit' = [edit EXCEPT ![e] = x],
              \/ MarkerOf(x) \in {None, budget.next_renewal_at}
              \/ MarkerOf(x) \in Int /\ MarkerOf(x) > now
       PROVE  Sound
  <2>1. /\ edit' \in [Edits -> Requests]
        /\ \A d \in Edits : edit'[d] = x \/ edit'[d] = edit[d]
    BY <1>3, <1>10
  <2>2. ASSUME RenewedInOrder PROVE Past(MarkerOf(x))
    <3>1. now \in Int /\ Months \subseteq Int
      BY <1>3 DEF Months
    <3> QED BY <1>4, <1>10, <2>2, <3>1 DEF RenewedInOrder, Past
  <2> QED BY <1>2, <1>3, <1>4, <1>10, <2>1, <2>2, NothingRenewedIsSound
<1>11. ASSUME NEW e \in Edits, NEW tf \in TimeFrames, NEW type \in Renewal!Types \union {None},
              NEW auto \in BOOLEAN \union {None}, Renewal!UpdateRead(e, tf, type, auto)
       PROVE  Sound
  <2> DEFINE set == Renewal!UpdateOf(budget, tf, type, auto)
             x == [at |-> "write", set |-> set]
  <2>1. /\ UNCHANGED <<now, budget, renewals, renewing>> /\ edit' = [edit EXCEPT ![e] = x]
    BY <1>11 DEF Renewal!UpdateRead
  <2>2. /\ set \in Renewal!Updates
        /\ \/ set.next_renewal_at \in {None, budget.next_renewal_at}
           \/ set.next_renewal_at \in Int /\ set.next_renewal_at > now
    BY UpdateOfProperties
  <2> HIDE DEF set
  <2>3. x \in Update /\ MarkerOf(x) = set.next_renewal_at
    BY <2>2 DEF Update, MarkerOf
  <2> HIDE DEF x
  <2> QED BY <1>10, <2>1, <2>2, <2>3
<1>12. ASSUME NEW e \in Edits, NEW on \in BOOLEAN, Renewal!ToggleRead(e, on) PROVE Sound
  <2> DEFINE k == Renewal!renewal_marker(on, budget.time_frame, now)
             x == [at |-> "toggle", on |-> on, marker |-> k]
  <2>1. /\ UNCHANGED <<now, budget, renewals, renewing>> /\ edit' = [edit EXCEPT ![e] = x]
    BY <1>12 DEF Renewal!ToggleRead
  <2>2. budget.time_frame \in TimeFrames /\ now \in Int
    BY <1>3 DEF Renewal!Rows, Renewal!TimeFrames, TimeFrames, Months
  <2>3. /\ k \in Renewal!Markers /\ (k = None \/ (k \in Int /\ k > now))
    BY <1>3, <2>2, MarkerProperties DEF Renewal!Markers
  <2> HIDE DEF k
  <2>4. x \in Toggle /\ MarkerOf(x) = k
    BY <2>3 DEF Toggle, MarkerOf
  <2> HIDE DEF x
  <2> QED BY <1>10, <2>1, <2>3, <2>4
<1>13. ASSUME NEW e \in Edits, UNCHANGED <<now, renewals, renewing>>,
              edit' = [edit EXCEPT ![e] = Idle], edit[e] # Idle,
              budget' \in Renewal!Rows, budget'.auto_renew => budget'.type = "time_based",
              \/ budget'.next_renewal_at = budget.next_renewal_at
              \/ budget'.next_renewal_at = MarkerOf(edit[e])
       PROVE  Sound
  <2>1. /\ edit' \in [Edits -> Requests]
        /\ \A d \in Edits : edit'[d] \in {Idle, edit[d]}
    BY <1>3, <1>13
  <2>2. RenewedInOrder => Past(budget'.next_renewal_at)
    BY <1>13 DEF RenewedInOrder
  <2> QED BY <1>2, <1>3, <1>13, <2>1, <2>2, NothingRenewedIsSound
<1>14. ASSUME NEW e \in Edits, Renewal!UpdateWrite(e) PROVE Sound
  <2>1. edit[e] \in Update /\ edit[e] # Idle
    BY <1>3, <1>14, RenewalActors DEF Renewal!UpdateWrite
  <2>2. edit[e].set \in Renewal!Updates /\ MarkerOf(edit[e]) = edit[e].set.next_renewal_at
    BY <2>1 DEF Update, MarkerOf
  <2>3. budget' = Renewal!Written(budget, edit[e].set)
    BY <1>14 DEF Renewal!UpdateWrite
  <2>4. /\ budget' \in Renewal!Rows /\ (budget'.auto_renew => budget'.type = "time_based")
        /\ \/ budget'.next_renewal_at = budget.next_renewal_at
           \/ budget'.next_renewal_at = MarkerOf(edit[e])
    BY <2>2, <2>3, WrittenProperties
  <2> QED BY <1>3, <1>13, <1>14, <2>1, <2>4 DEF Renewal!UpdateWrite
<1>15. ASSUME NEW e \in Edits, Renewal!ToggleWrite(e) PROVE Sound
  <2>1. edit[e] \in Toggle /\ edit[e] # Idle
    BY <1>3, <1>15, RenewalActors DEF Renewal!ToggleWrite
  <2>2. /\ edit[e].on \in BOOLEAN /\ edit[e].marker \in Renewal!Markers
        /\ MarkerOf(edit[e]) = edit[e].marker
    BY <2>1 DEF Toggle, MarkerOf
  <2>3. /\ budget' \in Renewal!Rows /\ (budget'.auto_renew => budget'.type = "time_based")
        /\ \/ budget'.next_renewal_at = budget.next_renewal_at
           \/ budget'.next_renewal_at = MarkerOf(edit[e])
    <3>1. CASE edit[e].on /\ budget.type # "time_based"
      BY <1>3, <1>15, <3>1 DEF Renewal!ToggleWrite
    <3>2. CASE ~ (edit[e].on /\ budget.type # "time_based")
      <4>1. budget' = [budget EXCEPT !.auto_renew = edit[e].on, !.next_renewal_at = edit[e].marker]
        BY <1>15, <3>2 DEF Renewal!ToggleWrite
      <4>2. /\ budget' \in Renewal!Rows /\ budget'.auto_renew = edit[e].on
            /\ budget'.type = budget.type /\ budget'.next_renewal_at = edit[e].marker
        BY <1>3, <2>2, <4>1 DEF Renewal!Rows
      <4> QED BY <2>2, <3>2, <4>2
    <3> QED BY <3>1, <3>2
  <2> QED BY <1>3, <1>13, <1>15, <2>1, <2>3 DEF Renewal!ToggleWrite
<1>16. ASSUME NEW on \in BOOLEAN, Renewal!SetArchived(on) PROVE Sound
  <2>1. /\ UNCHANGED <<now, renewals, renewing, edit>>
        /\ budget' = [budget EXCEPT !.archived = on]
    BY <1>16 DEF Renewal!SetArchived
  <2>2. /\ budget' \in Renewal!Rows /\ budget'.next_renewal_at = budget.next_renewal_at
        /\ budget'.auto_renew => budget'.type = "time_based"
    BY <1>3, <2>1 DEF Renewal!Rows
  <2> QED BY <1>2, <1>3, <1>4, <2>1, <2>2, NothingRenewedIsSound
<1>17. ASSUME NEW e \in Edits, Renewal!Request(e) PROVE Sound
  BY <1>11, <1>12, <1>14, <1>15, <1>17 DEF Renewal!Request, Renewal!TimeFrames, TimeFrames
<1> QED BY <1>5, <1>6, <1>8, <1>9, <1>16, <1>17 DEF Renewing, Renewal!Next

-----------------------------------------------------------------------------
(* Both jobs *)

\* Each job's step keeps what is known of its own variables; the other's rest, and
\* both only see the clock move forward.
JobsSound == JobsTypeOK /\ AccrualSound /\ RenewalSound

LEMMA JobsSoundInit == JobsInit => JobsSound
BY AccrualInit, RenewalInit DEF JobsSound, JobsTypeOK

LEMMA JobsSoundStep == JobsSound /\ [JobsNext]_<<jobs, history>> => JobsSound'
<1> SUFFICES ASSUME JobsSound, [JobsNext]_<<jobs, history>> PROVE JobsSound'
  OBVIOUS
<1>1. TypeOK /\ AccrualSound /\ Renewal!TypeOK /\ RenewalSound
  BY DEF JobsSound, JobsTypeOK
<1>2. CASE job = "renewal" /\ job' = job /\ Renewing
  <2>1. Renewal!TypeOK' /\ RenewalSound'
    BY <1>1, <1>2, RenewalStep
  <2>2. UNCHANGED <<accrualVars, base, retimed>>
    BY <1>2 DEF Renewing
  <2>3. now' \in Months /\ now <= now'
    <3>1. now \in Months /\ now <= now
      BY <1>1 DEF TypeOK, Months
    <3>2. Renewal!Clock \/ now' = now
      BY <1>2 DEF Renewing, Renewal!Next, Renewal!SelectDue, Renewal!Renew, Renewal!TickFails,
         Renewal!Request, Renewal!UpdateRead, Renewal!UpdateWrite, Renewal!ToggleRead,
         Renewal!ToggleWrite, Renewal!SetArchived
    <3> QED BY <3>1, <3>2, MaxMonthAssumption DEF Renewal!Clock, Months
  <2>4. /\ tick \in [Ticks -> {Idle} \union Walk]
        /\ chat \in [Chats -> {Idle} \union [at : {"write"}, time_frame : TimeFrames]]
        /\ time_frame \in TimeFrames
    BY <1>1 DEF TypeOK, Walk
  <2>5. retimed' = (retimed \/ time_frame' # time_frame)
    BY <1>1, <2>2 DEF AccrualSound, accrualVars
  <2>6. TypeOK' /\ AccrualSound'
    BY <1>1, <2>2, <2>3, <2>4, <2>5, RestIsSound DEF accrualVars, fund
  <2> QED BY <2>1, <2>6 DEF JobsSound, JobsTypeOK
<1>3. CASE job = "accrual" /\ job' = job /\ Accrual
  <2>1. TypeOK' /\ AccrualSound'
    BY <1>1, <1>3, AccrualStep
  <2>2. UNCHANGED <<renewalVars, stale>>
    BY <1>3 DEF Accrual
  <2>3. now' \in Months /\ now <= now'
    <3>1. now \in Months /\ now <= now
      BY <1>1 DEF TypeOK, Months
    <3>2. Clock \/ now' = now
      BY <1>3 DEF Accrual, Next, UpdateCategory, SetArchived, ChatRead, ChatWrite, Retime,
         SelectFund, AdvanceOnce, WalkEnds, TickFails
    <3> QED BY <3>1, <3>2, MaxMonthAssumption DEF Clock, Months
  <2>4. /\ budget \in Renewal!Rows /\ (budget.auto_renew => budget.type = "time_based")
        /\ renewing \in [Ticks -> {Idle} \union Selected]
        /\ edit \in [Edits -> {Idle} \union Update \union Toggle]
    BY <1>1 DEF Renewal!TypeOK, Selected, Update, Toggle, Renewal!Idle, Idle, Renewal!Months,
       Months, Renewal!TimeFrames, TimeFrames
  <2>5. RenewedInOrder => Past(budget.next_renewal_at)
    BY DEF RenewedInOrder
  <2>6. stale' \in BOOLEAN /\ (~ stale' => ~ stale)
    BY <1>1, <2>2 DEF RenewalSound
  <2>7. Renewal!TypeOK' /\ RenewalSound'
    BY <1>1, <1>3, <2>2, <2>3, <2>4, <2>5, <2>6, NothingRenewedIsSound DEF renewalVars
  <2> QED BY <2>1, <2>7 DEF JobsSound, JobsTypeOK
<1>4. CASE UNCHANGED <<jobs, history>>
  <2>1. UNCHANGED <<job, now, budget, renewals, renewing, edit, time_frame, archived, is_fund,
                    fund_advanced_through, fund_balance, tick, chat, base, retimed, stale>>
    BY <1>4 DEF jobs, history, renewalVars, accrualVars, fund
  <2>2. JobsTypeOK'
    BY <1>1, <2>1 DEF JobsTypeOK, TypeOK, Renewal!TypeOK
  <2>3. AccrualSound'
    BY <1>1, <2>1 DEF AccrualSound, InTime
  <2>4. RenewalSound'
    BY <1>1, <2>1 DEF RenewalSound, RenewedInOrder, Past
  <2> QED BY <2>2, <2>3, <2>4 DEF JobsSound
<1> QED BY <1>2, <1>3, <1>4 DEF JobsNext

\* What is due in a period is done at most once: a budget is renewed at most once in a month unless a request wrote
\* columns computed from a row that had changed (renew_due_budgets), and a fund is
\* credited exactly once for each period since it was last enabled
\* (advance_fund_categories).
THEOREM DueIsDoneOnce == JobsSpec => []OncePerPeriodAlone
<1>1. JobsSound => OncePerPeriodAlone
  <2> SUFFICES ASSUME JobsSound PROVE OncePerPeriodAlone
    OBVIOUS
  <2>1. stale \/ Renewal!RenewedOnce
    BY DEF JobsSound, RenewalSound, RenewedInOrder, Renewal!RenewedOnce, Renewal!Months, Months
  <2>2. CreditedOncePerPeriod
    BY DEF JobsSound, AccrualSound, InTime, CreditedOncePerPeriod
  <2> QED BY <2>1, <2>2 DEF JobsSound, OncePerPeriodAlone
<1> QED BY <1>1, JobsSoundInit, JobsSoundStep, PTL DEF JobsSpec

\* Ticks, edits and requests keep the rows of both jobs, and what they hold of them,
\* in their types: a fund has a marker whoever switched it on, its balance stays
\* within the horizon, and a budget that renews itself is a time-based one.
THEOREM JobsTyped == JobsSpec => []JobsTypeOK
<1>1. JobsSound => JobsTypeOK
  BY DEF JobsSound
<1> QED BY <1>1, JobsSoundInit, JobsSoundStep, PTL DEF JobsSpec

-----------------------------------------------------------------------------
(* What no job or request does *)

\* The update that a request is to write, if it does not name auto_renew and keeps
\* the time frame and the type, carries a marker that is not after the row's, as
\* long as no request wrote the row under another.
UpdateIsKept(set) ==
  \/ set.asked
  \/ set.time_frame # budget.time_frame
  \/ set.type # None /\ set.type # budget.type
  \/ budget.next_renewal_at = None
  \/ set.next_renewal_at # None /\ set.next_renewal_at <= budget.next_renewal_at

UpdatesAreKept == \A e \in Edits : edit[e].at = "write" => UpdateIsKept(edit[e].set)

LEMMA UpdatesAreKeptInit == JobsInit => UpdatesAreKept
<1> SUFFICES ASSUME JobsInit PROVE UpdatesAreKept
  OBVIOUS
<1>1. Idle.at = "idle" /\ edit = [e \in Edits |-> Idle]
  BY DEF JobsInit, Renewal!Init, Renewal!Idle, Idle
<1> QED BY <1>1 DEF UpdatesAreKept

LEMMA UpdatesAreKeptStep ==
    JobsSound /\ (crossed \/ UpdatesAreKept) /\ [JobsNext]_<<jobs, history>>
      => crossed' \/ UpdatesAreKept'
<1> SUFFICES ASSUME JobsSound, crossed \/ UpdatesAreKept, [JobsNext]_<<jobs, history>>, ~ crossed'
             PROVE  UpdatesAreKept'
  OBVIOUS
<1>13. UpdatesAreKept
  BY DEF JobsNext, Renewing, Accrual, history
<1>1. Renewal!TypeOK /\ RenewalSound /\ Idle.at = "idle" /\ Renewal!Idle = Idle
  BY DEF JobsSound, JobsTypeOK, Idle, Renewal!Idle
<1>2. /\ budget \in Renewal!Rows /\ budget.next_renewal_at \in Renewal!Markers
      /\ \A e \in Edits : edit[e].at = "write" =>
            /\ edit[e].set \in Renewal!Updates
            /\ edit[e].set.next_renewal_at \in Renewal!Markers
            /\ edit[e].set.asked \in BOOLEAN
  BY <1>1, RenewalActors DEF Renewal!TypeOK, Renewal!Rows, Update, Renewal!Updates
<1>3. CASE UNCHANGED <<budget, edit>>
  BY <1>3, <1>13 DEF UpdatesAreKept, UpdateIsKept
<1>4. ASSUME NEW t \in Ticks, Renewal!Renew(t), Renewing, job' = job PROVE UpdatesAreKept'
  <2>1. CASE Renewal!Due(budget, renewing[t].now)
    <3>1. /\ budget'.time_frame = budget.time_frame /\ budget'.type = budget.type
          /\ budget.next_renewal_at # None /\ budget'.next_renewal_at # None
          /\ budget.next_renewal_at < budget'.next_renewal_at /\ Renewal!TypeOK'
      BY <1>1, <1>4, <2>1, RenewalIsSound DEF Renewing
    <3>2. edit' = edit
      BY <1>4 DEF Renewal!Renew
    <3>3. budget'.next_renewal_at \in Int /\ budget.next_renewal_at \in Int
      BY <1>2, <3>1 DEF Renewal!TypeOK, Renewal!Rows, Renewal!Markers
    <3>4. ASSUME NEW e \in Edits, edit[e].at = "write" PROVE UpdateIsKept(edit[e].set)'
      <4>1. UpdateIsKept(edit[e].set) /\ edit[e].set.next_renewal_at \in Int \union {None}
        BY <1>2, <1>13, <3>4 DEF UpdatesAreKept, Renewal!Markers
      <4> QED BY <3>1, <3>2, <3>3, <4>1 DEF UpdateIsKept
    <3> QED BY <3>2, <3>4 DEF UpdatesAreKept
  <2>2. CASE ~ Renewal!Due(budget, renewing[t].now)
    BY <1>3, <1>4, <2>2 DEF Renewal!Renew
  <2> QED BY <2>1, <2>2
<1>5. ASSUME NEW e \in Edits, NEW tf \in TimeFrames, NEW type \in Renewal!Types \union {None},
             NEW auto \in BOOLEAN \union {None}, Renewal!UpdateRead(e, tf, type, auto)
      PROVE  UpdatesAreKept'
  <2> DEFINE set == Renewal!UpdateOf(budget, tf, type, auto)
  <2>1. /\ budget' = budget
        /\ edit' = [edit EXCEPT ![e] = [at |-> "write", set |-> set]]
    BY <1>5 DEF Renewal!UpdateRead
  <2>2. /\ set \in Renewal!Updates
        /\ ~ set.asked => \/ set.time_frame # budget.time_frame
                          \/ set.type # None /\ set.type # budget.type
                          \/ set.next_renewal_at = budget.next_renewal_at
    BY <1>1, UpdateOfProperties
  <2> HIDE DEF set
  <2>3. UpdateIsKept(set)
    BY <1>2, <2>2 DEF UpdateIsKept, Renewal!Markers
  <2>4. edit'[e].set = set /\ \A d \in Edits \ {e} : edit'[d] = edit[d]
    BY <1>1, <2>1 DEF Renewal!TypeOK
  <2> QED BY <1>13, <2>1, <2>3, <2>4 DEF UpdatesAreKept, UpdateIsKept
<1>6. ASSUME NEW e \in Edits, NEW x, edit' = [edit EXCEPT ![e] = x], x.at # "write",
             budget' = budget \/ \A d \in Edits \ {e} : edit[d].at # "write"
      PROVE  UpdatesAreKept'
  <2>1. edit'[e] = x /\ \A d \in Edits \ {e} : edit'[d] = edit[d]
    BY <1>1, <1>6 DEF Renewal!TypeOK
  <2> QED BY <1>6, <1>13, <2>1 DEF UpdatesAreKept, UpdateIsKept
<1>7. ASSUME NEW e \in Edits, Renewal!UpdateWrite(e) \/ Renewal!ToggleWrite(e), Renewing
      PROVE  UpdatesAreKept'
  <2>1. edit' = [edit EXCEPT ![e] = Idle] /\ edit[e] # Idle
    BY <1>1, <1>7 DEF Renewal!UpdateWrite, Renewal!ToggleWrite
  <2>2. edit'[e] # edit[e] /\ \A d \in Edits \ {e} : edit'[d] = edit[d]
    BY <1>1, <2>1 DEF Renewal!TypeOK
  <2>3. ASSUME NEW d \in Edits \ {e}, edit[d].at = "write", budget' # budget PROVE FALSE
    <3>1. d \in Reading /\ e \in Edits \ {d}
      BY <1>1, <2>3 DEF Reading
    <3>2. crossed'
      BY <1>7, <2>2, <2>3, <3>1 DEF Renewing
    <3> QED BY <3>2
  <2> QED BY <1>1, <1>6, <2>1, <2>3
<1>8. ASSUME NEW e \in Edits, NEW on \in BOOLEAN, Renewal!ToggleRead(e, on) PROVE UpdatesAreKept'
  <2> DEFINE x == [at |-> "toggle", on |-> on,
                   marker |-> Renewal!renewal_marker(on, budget.time_frame, now)]
  <2>1. edit' = [edit EXCEPT ![e] = x] /\ x.at = "toggle" /\ budget' = budget
    BY <1>8 DEF Renewal!ToggleRead
  <2> HIDE DEF x
  <2> QED BY <1>1, <1>6, <2>1 DEF Renewal!TypeOK
<1>9. ASSUME NEW on \in BOOLEAN, Renewal!SetArchived(on) PROVE UpdatesAreKept'
  <2>1. edit' = edit /\ budget' = [budget EXCEPT !.archived = on]
    BY <1>9 DEF Renewal!SetArchived
  <2>2. /\ budget'.time_frame = budget.time_frame /\ budget'.type = budget.type
        /\ budget'.next_renewal_at = budget.next_renewal_at
    BY <1>2, <2>1 DEF Renewal!Rows
  <2> QED BY <1>13, <2>1, <2>2 DEF UpdatesAreKept, UpdateIsKept
<1>10. CASE job = "renewal" /\ job' = job /\ Renewing
  <2>1. ASSUME NEW e \in Edits, Renewal!Request(e) PROVE UpdatesAreKept'
    BY <1>5, <1>7, <1>8, <1>10, <2>1 DEF Renewal!Request, Renewal!TimeFrames, TimeFrames
  <2>2. CASE Renewal!Clock
    BY <1>3, <2>2 DEF Renewal!Clock
  <2>3. ASSUME NEW t \in Ticks, Renewal!SelectDue(t) \/ Renewal!TickFails(t) PROVE UpdatesAreKept'
    BY <1>3, <2>3 DEF Renewal!SelectDue, Renewal!TickFails
  <2> QED BY <1>4, <1>9, <1>10, <2>1, <2>2, <2>3 DEF Renewing, Renewal!Next
<1>11. CASE job = "accrual" /\ Accrual
  BY <1>3, <1>11 DEF Accrual, renewalVars
<1>12. CASE UNCHANGED <<jobs, history>>
  BY <1>3, <1>12 DEF jobs, renewalVars
<1> QED BY <1>10, <1>11, <1>12 DEF JobsNext

\* A due renewal stays due unless a tick, a change of what it depends on, or a request
\* that asks for it intervenes.
LEMMA RenewalStaysDue ==
    ASSUME JobsSound, UpdatesAreKept, [JobsNext]_<<jobs, history>>,
           Renewal!Due(budget, now), ~ Renewal!Due(budget', now)
    PROVE  \/ renewing' # renewing
           \/ budget'.time_frame # budget.time_frame \/ budget'.type # budget.type
           \/ budget'.archived \/ ~ budget'.auto_renew
           \/ \E e \in Edits : Renewal!AskedFor(e)
<1> DEFINE Allowed == \/ renewing' # renewing
                      \/ budget'.time_frame # budget.time_frame \/ budget'.type # budget.type
                      \/ budget'.archived \/ ~ budget'.auto_renew
                      \/ \E e \in Edits : Renewal!AskedFor(e)
<1>1. /\ Renewal!TypeOK /\ Idle.at = "idle" /\ Renewal!Idle = Idle
      /\ budget \in Renewal!Rows /\ now \in Int
      /\ edit \in [Edits -> {Idle} \union Update \union Toggle]
      /\ renewing \in [Ticks -> {Idle} \union Selected]
  BY DEF JobsSound, JobsTypeOK, Renewal!TypeOK, Renewal!Idle, Idle, Update, Toggle, Selected,
         Renewal!Months, Months, Renewal!TimeFrames, TimeFrames
<1>2. /\ budget.auto_renew /\ budget.type = "time_based" /\ ~ budget.archived
      /\ budget.next_renewal_at # None /\ budget.next_renewal_at <= now
      /\ budget.next_renewal_at \in Int
  BY <1>1 DEF Renewal!Due, Renewal!Rows, Renewal!Markers
<1>3. budget' # budget
  OBVIOUS
<1>4. ASSUME NEW t \in Ticks, Renewal!Renew(t) PROVE Allowed
  <2>1. renewing[t].at = "write" /\ renewing' = [renewing EXCEPT ![t] = Idle]
    BY <1>1, <1>4 DEF Renewal!Renew
  <2>2. renewing'[t] # renewing[t]
    BY <1>1, <2>1
  <2> QED BY <2>2
<1>5. ASSUME NEW e \in Edits, Renewal!ToggleWrite(e) PROVE Allowed
  <2>1. /\ edit[e].at = "toggle" /\ edit[e] # Idle
        /\ edit' = [edit EXCEPT ![e] = Idle] /\ edit'[e] = Idle
    BY <1>1, <1>5 DEF Renewal!ToggleWrite
  <2>2. Renewal!AskedFor(e)
    BY <1>1, <2>1 DEF Renewal!AskedFor
  <2> QED BY <2>2
<1>6. ASSUME NEW e \in Edits, Renewal!UpdateWrite(e) PROVE Allowed
  <2> DEFINE set == edit[e].set
  <2>1. /\ edit[e].at = "write" /\ edit[e] # Idle /\ edit'[e] = Idle
        /\ budget' = Renewal!Written(budget, set)
    BY <1>1, <1>6 DEF Renewal!UpdateWrite
  <2>2. set \in Renewal!Updates /\ set.next_renewal_at \in Int \union {None} /\ UpdateIsKept(set)
    BY <1>1, <2>1, RenewalActors DEF Update, Renewal!Updates, Renewal!Markers, UpdatesAreKept
  <2>3. CASE set.asked
    <3>1. Renewal!AskedFor(e)
      BY <1>1, <2>1, <2>3 DEF Renewal!AskedFor
    <3> QED BY <3>1
  <2>4. CASE ~ set.asked
    <3> HIDE DEF set
    <3>1. /\ budget'.next_renewal_at = set.next_renewal_at
          /\ budget'.time_frame = set.time_frame /\ budget'.archived = budget.archived
          /\ budget'.type = IF set.type = None THEN budget.type ELSE set.type
      BY <1>1, <1>3, <2>1, <2>2, WrittenProperties
    <3>2. CASE set.time_frame # budget.time_frame \/ (set.type # None /\ set.type # budget.type)
      BY <3>1, <3>2
    <3>3. CASE set.next_renewal_at # None /\ set.next_renewal_at <= budget.next_renewal_at
      <4>1. set.next_renewal_at <= now
        BY <1>1, <1>2, <2>2, <3>3
      <4>2. \/ budget'.type # "time_based" \/ budget'.archived \/ ~ budget'.auto_renew
        BY <3>1, <3>3, <4>1 DEF Renewal!Due
      <4> QED BY <1>2, <4>2
    <3> QED BY <1>2, <2>2, <2>4, <3>2, <3>3 DEF UpdateIsKept
  <2> QED BY <2>3, <2>4
<1>7. ASSUME NEW on \in BOOLEAN, Renewal!SetArchived(on) PROVE Allowed
  <2>1. budget.archived # on /\ budget' = [budget EXCEPT !.archived = on]
    BY <1>7 DEF Renewal!SetArchived
  <2>2. budget'.archived = on /\ budget.archived \in BOOLEAN
    BY <1>1, <2>1 DEF Renewal!Rows
  <2>3. on = TRUE
    BY <1>2, <1>7, <2>1, <2>2, Zenon
  <2> QED BY <2>2, <2>3
<1>8. CASE Renewing
  BY <1>3, <1>4, <1>5, <1>6, <1>7, <1>8
     DEF Renewing, Renewal!Next, Renewal!Clock, Renewal!SelectDue, Renewal!TickFails,
         Renewal!Request, Renewal!UpdateRead, Renewal!ToggleRead
<1>9. CASE Accrual \/ UNCHANGED <<jobs, history>>
  BY <1>3, <1>9 DEF Accrual, jobs, renewalVars
<1> QED BY <1>8, <1>9 DEF JobsNext

\* Nothing but enabling, which keeps it, and a tick that finds the fund on touches the
\* balance.
LEMMA BalanceFrozen ==
    ASSUME JobsSound, [JobsNext]_<<jobs, history>>, ~ is_fund
    PROVE  fund_balance' = fund_balance
<1>1. fund_advanced_through = None => fund_balance = 0
  BY DEF JobsSound, AccrualSound
<1>2. CASE Accrual
  BY <1>1, <1>2 DEF Accrual, Next, Clock, UpdateCategory, enable_category_fund,
     disable_category_fund, SetArchived, ChatRead, ChatWrite, Retime, SelectFund, AdvanceOnce,
     StillOwned, WalkEnds, TickFails, fund
<1>3. CASE Renewing \/ UNCHANGED <<jobs, history>>
  BY <1>3 DEF Renewing, jobs, accrualVars, fund
<1> QED BY <1>2, <1>3 DEF JobsNext

\* However many requests edit the budget: as long as none writes the row under another,
\* no request that does not ask for it clears a due renewal (update_budget recomputes
\* the marker only when what it depends on changes); and nothing credits a category
\* that is not a fund (the guards of advance_fund_categories and enable_category_fund).
THEOREM NothingSkippedOrForced == JobsSpec => NoneSkippedOrForced
<1> DEFINE Kept == crossed \/ Renewal!RenewalKept
           BalanceKept == ~ is_fund => fund_balance' = fund_balance
<1>1. JobsSound /\ (crossed \/ UpdatesAreKept) /\ [JobsNext]_<<jobs, history>>
        => [Kept]_<<jobs, history>> /\ [BalanceKept]_vars
  BY RenewalStaysDue, BalanceFrozen DEF Renewal!RenewalKept
<1>2. JobsSound /\ (crossed \/ UpdatesAreKept) /\ [JobsNext]_<<jobs, history>>
        => (crossed \/ UpdatesAreKept)'
  BY UpdatesAreKeptStep
<1>3. NoneSkippedOrForced <=> [][Kept]_<<jobs, history>> /\ [][BalanceKept]_vars
  BY DEF NoneSkippedOrForced, FrozenWhileDisabled
<1>4. JobsInit => crossed \/ UpdatesAreKept
  BY UpdatesAreKeptInit
<1> QED
  BY <1>1, <1>2, <1>3, <1>4, JobsSoundInit, JobsSoundStep, PTL
     DEF JobsSpec

=============================================================================
