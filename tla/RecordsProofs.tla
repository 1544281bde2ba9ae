--------------------------- MODULE RecordsProofs ---------------------------
(***************************************************************************)
(* Proofs about MCRecords, for any number of users, requests, ceremonies,  *)
(* recovery codes, scopes and figures: the credentials (an account keeps a *)
(* way in, a reset holds, an erased account stays erased), the ledger's    *)
(* matcher, whose invariant is that of DuplicateMatchProofs, and the limit *)
(* alerts (they follow the figures, and only what got worse is shown).     *)
(***************************************************************************)
EXTENDS MCRecords, DuplicateMatchProofs, Sequences, TLAPS

Resting == Credentials!Idle
Codes == Credentials!Codes
Ceremony == Credentials!Ceremonies
Stages == Credentials!Stages

-----------------------------------------------------------------------------
(* What a request goes through *)

Opening == [at : {"open"}, as : Ceremony]
Staged == [at : Stages, flow : Row, as : Ceremony]
Renewing == [at : {"clear", "rotate", "issue"}, user : Ids]
RequestStates == {Resting} \union Opening \union Staged \union Renewing

InCeremony(w) == request[w].at = "open" \/ request[w].at \in Stages
Renews(w) == request[w].at \in {"clear", "rotate", "issue"}

LEMMA CredentialConstants ==
  /\ None \notin Ids /\ None \notin Codes /\ None \notin Worker
  /\ \A u \in Ids : [user |-> u, used |-> FALSE] # None
  /\ \E s, t \in Slots : s # t
<1>1. \A u \in Ids : [user |-> u, used |-> FALSE] \in [user : Ids, used : BOOLEAN]
  OBVIOUS
<1>2. Credentials!IdentityAssumption
  BY RecordsAssumption
<1> QED BY <1>1, <1>2 DEF Credentials!IdentityAssumption, Codes

LEMMA CredentialTypes ==
    ASSUME Credentials!TypeOK
    PROVE  /\ request \in [Worker -> RequestStates]
           /\ \A w \in Worker :
                /\ request[w].at = "idle" <=> request[w] = Resting
                /\ request[w].at = "open" => request[w] \in Opening
                /\ request[w].at \in Stages => request[w] \in Staged
                /\ InCeremony(w) => request[w].as \in Ceremony
                /\ Renews(w) => request[w] \in Renewing
                /\ request[w].at = "idle" \/ InCeremony(w) \/ Renews(w)
<1>1. request \in [Worker -> RequestStates]
  BY DEF Credentials!TypeOK, RequestStates, Resting, Opening, Staged, Renewing, Ceremony, Stages
<1>2. ASSUME NEW r \in RequestStates
      PROVE  /\ r.at = "idle" <=> r = Resting
             /\ r.at = "open" => r \in Opening
             /\ r.at \in Stages => r \in Staged
             /\ r.at = "open" \/ r.at \in Stages => r.as \in Ceremony
             /\ r.at \in {"clear", "rotate", "issue"} => r \in Renewing
             /\ r.at \in {"idle", "open", "clear", "rotate", "issue"} \union Stages
  BY DEF RequestStates, Resting, Credentials!Idle, Opening, Staged, Renewing, Stages, Credentials!Stages
<1> QED BY <1>1, <1>2 DEF InCeremony, Renews

\* A request is put into a state, and goes on with what it carries.
LEMMA PutThere ==
    ASSUME Credentials!TypeOK, NEW w \in Worker, NEW r \in RequestStates, Credentials!Put(w, r)
    PROVE  /\ request' \in [Worker -> RequestStates] /\ request'[w] = r
           /\ \A v \in Worker : v # w => request'[v] = request[v]
BY CredentialTypes DEF Credentials!Put

LEMMA WentOn ==
    ASSUME Credentials!TypeOK, NEW w \in Worker, request[w].at \in Stages,
           NEW stage \in Stages, Credentials!To(w, stage)
    PROVE  /\ request' \in [Worker -> RequestStates]
           /\ request'[w].at = stage /\ request'[w].as = request[w].as /\ request'[w].flow = request[w].flow
           /\ \A v \in Worker : v # w => request'[v] = request[v]
<1>1. request[w] \in Staged
  BY CredentialTypes
<1> DEFINE r == [request[w] EXCEPT !.at = stage]
<1>2. r \in Staged /\ r.at = stage /\ r.as = request[w].as /\ r.flow = request[w].flow
  BY <1>1 DEF Staged
<1>3. Credentials!Put(w, r) /\ r \in RequestStates
  BY <1>2 DEF Credentials!To, RequestStates
<1> QED
  <2> HIDE DEF r
  <2> QED BY <1>2, <1>3, PutThere

LEMMA RenewalWentOn ==
    ASSUME Credentials!TypeOK, NEW w \in Worker, Renews(w),
           NEW stage \in {"rotate", "issue"}, Credentials!To(w, stage)
    PROVE  /\ request' \in [Worker -> RequestStates]
           /\ request'[w].at = stage /\ request'[w].user = request[w].user
           /\ \A v \in Worker : v # w => request'[v] = request[v]
<1>1. request[w] \in Renewing
  BY CredentialTypes
<1> DEFINE r == [request[w] EXCEPT !.at = stage]
<1>2. r \in Renewing /\ r.at = stage /\ r.user = request[w].user
  BY <1>1 DEF Renewing
<1>3. Credentials!Put(w, r) /\ r \in RequestStates
  BY <1>2 DEF Credentials!To, RequestStates
<1> QED
  <2> HIDE DEF r
  <2> QED BY <1>2, <1>3, PutThere

-----------------------------------------------------------------------------
(* What is known of the credentials *)

\* The rows that cascade belong to the user, and codes are of batches issued.
Belonging ==
  /\ \A k \in creds : k.user = user
  /\ \A c \in Codes : code[c] # None => code[c].user = user /\ c[1] \in issued

\* What a ceremony of each kind carries, and the stages it goes through.
Redeems(as) == as.kind = "recovery" => as.code \in Codes /\ as.code[1] \in issued
Ceremonial ==
  /\ \A f \in Row : flow[f] # None => Redeems(flow[f])
  /\ \A w \in Worker : InCeremony(w) => Redeems(request[w].as)
  /\ \A w \in Worker :
       /\ request[w].at \in {"user", "codes"} => request[w].as.kind = "register"
       /\ request[w].at = "credential" => request[w].as.kind \in {"register", "recovery"}
       /\ request[w].at = "mark" => request[w].as.kind = "recovery"

Live(c) == code[c] # None /\ ~ code[c].used
EnrolledBy(c) == \E k \in creds : <<c, k.by>> \in enrolled
Rotating == \E r \in Worker : request[r].at = "rotate" /\ request[r].user = user

\* A code about to be marked has enrolled a passkey that is still there, unless a reset
\* is about to drop the code.
Redeemed ==
  ~ cut => \A w \in Worker :
    request[w].at = "mark" /\ Live(request[w].as.code) => EnrolledBy(request[w].as.code) \/ Rotating

\* A batch of which every code is there, unused or with the passkey it enrolled.
Whole(b) == b \in issued /\ \A s \in Slots : Live(<<b, s>>) \/ (code[<<b, s>>] # None /\ EnrolledBy(<<b, s>>))

\* A request that is to hand out codes: a reset, or a registration.
Passkey(w) == [user |-> request[w].as.user, rp |-> request[w].as.rp, by |-> request[w].flow]
Promises(w) ==
  \/ request[w].at \in {"rotate", "issue"} /\ request[w].user = user
  \/ request[w].at = "codes" /\ request[w].as.user = user
  \/ /\ request[w].at = "credential" /\ request[w].as.kind = "register"
     /\ request[w].as.user = user /\ Passkey(w) \notin creds

WayInComing ==
  user # None /\ ~ cut => (\E w \in Worker : Promises(w)) \/ \E b \in Batches : Whole(b)

\* Ids are used once: that of a registration whose challenge is not stored yet is nobody's.
Unborn(w) == request[w].at = "open" /\ request[w].as.kind = "register"
IdsFresh ==
  /\ user # None => user \in used_ids
  /\ \A f \in Row : flow[f] # None => flow[f].user \in used_ids
  /\ \A w \in Worker : InCeremony(w) => request[w].as.user \in used_ids
  /\ \A w \in Worker : Unborn(w) =>
       /\ user # request[w].as.user
       /\ \A f \in Row : flow[f] # None => flow[f].user # request[w].as.user
       /\ \A v \in Worker \ {w} : InCeremony(v) => request[v].as.user # request[w].as.user

\* No registration of an erased account is left that could still insert it.
StaysErased ==
  \A u \in erased :
    /\ u \in used_ids /\ user # u
    /\ \A f \in Row : flow[f] # None /\ flow[f].kind = "register" => flow[f].user # u
    /\ \A w \in Worker : Unborn(w) \/ request[w].at = "user" => request[w].as.user # u

\* A reset that nothing disturbs: what it has cleared and dropped so far.
ResetUndisturbed ==
  \A r \in Worker : resetting = r =>
    /\ \A v \in Worker : v # r => request[v].at = "idle"
    /\ \A f \in Row : flow[f] = None
    /\ request[r].at = "idle" \/ (Renews(r) /\ request[r].user = user)
    /\ request[r].at \in {"rotate", "issue"} => creds = {}
    /\ request[r].at = "issue" => \A c \in Codes : ~ Live(c)

\* What such a reset has given out is all there is to enroll by.
ResetSettled ==
  settled # None =>
    /\ user # None
    /\ \A k \in creds : \E s \in enrolled : s[2] = k.by /\ s[1][1] = settled
    /\ \A c \in Codes : Live(c) => c[1] = settled
    /\ \A f \in Row : flow[f] # None =>
         flow[f].kind # "register" /\ (flow[f].kind = "recovery" => flow[f].code[1] = settled)
    /\ \A w \in Worker : InCeremony(w) =>
         /\ request[w].as.kind # "register"
         /\ request[w].as.kind = "recovery" => request[w].as.code[1] = settled

CredentialsSound ==
  /\ Credentials!TypeOK /\ cut \in BOOLEAN
  /\ Belonging /\ Ceremonial /\ Redeemed /\ WayInComing
  /\ IdsFresh /\ StaysErased /\ ResetUndisturbed /\ ResetSettled

LEMMA SoundTypes ==
    ASSUME CredentialsSound
    PROVE  /\ user \in Ids \union {None} /\ used_ids \subseteq Ids
           /\ creds \subseteq [user : Ids, rp : Credentials!Rps, by : Row]
           /\ code \in [Codes -> {None} \union [user : Ids, used : BOOLEAN]]
           /\ flow \in [Row -> Ceremony \union {None}] /\ opened \subseteq Row /\ issued \subseteq Batches
           /\ sessions \subseteq Ids /\ request \in [Worker -> RequestStates]
           /\ Codes = Batches \X Slots
BY CredentialTypes DEF CredentialsSound, Credentials!TypeOK, Codes, Credentials!Codes, Ceremony

LEMMA TypedAgain ==
    ASSUME user' \in Ids \union {None}, used_ids' \subseteq Ids,
           creds' \subseteq [user : Ids, rp : Credentials!Rps, by : Row],
           code' \in [Codes -> {None} \union [user : Ids, used : BOOLEAN]],
           flow' \in [Row -> Ceremony \union {None}], opened' \subseteq Row, issued' \subseteq Batches,
           sessions' \subseteq Ids, request' \in [Worker -> RequestStates]
    PROVE  Credentials!TypeOK'
BY DEF Credentials!TypeOK, Codes, Ceremony, RequestStates, Resting, Opening, Staged, Renewing, Stages

-----------------------------------------------------------------------------
(* Steps that keep the user, the passkeys and the codes *)

\* A request ends, or goes on to its last stage, a flow expires, a session comes or goes:
\* nothing promised is lost, unless the request was cut off.
LEMMA QuietKeeps ==
    ASSUME CredentialsSound,
           UNCHANGED <<user, used_ids, creds, code, opened, issued, enrolled, erased, resetting>>,
           sessions' \subseteq Ids, flow' \in [Row -> Ceremony \union {None}],
           \A f \in Row : flow'[f] \in {flow[f], None},
           request' \in [Worker -> RequestStates],
           \A w \in Worker :
              \/ request'[w] = request[w] \/ request'[w] = Resting
              \/ /\ request[w].at \in Stages /\ request'[w].at \in {"session", "erase"}
                 /\ request'[w].as = request[w].as,
           cut' \in BOOLEAN,
           ~ cut' => ~ cut /\ \A w \in Worker : Promises(w) => request'[w] = request[w],
           settled' \in {settled, None}
    PROVE  CredentialsSound'
<1>1. Credentials!TypeOK'
  BY SoundTypes, TypedAgain
<1>2. Resting.at = "idle" /\ {"session", "erase"} \subseteq Stages
      /\ {"idle", "open", "clear", "rotate", "issue"} \intersect Stages = {}
  BY DEF Resting, Credentials!Idle, Stages, Credentials!Stages
<1>3. ASSUME NEW w \in Worker
      PROVE  /\ InCeremony(w)' => InCeremony(w) /\ request'[w].as = request[w].as
             /\ Unborn(w)' => Unborn(w)
             /\ request'[w].at \notin {"session", "erase", "idle"} => request'[w] = request[w]
  BY <1>2 DEF InCeremony, Unborn
<1>4. Belonging' /\ Ceremonial'
  BY <1>2, <1>3 DEF CredentialsSound, Belonging, Ceremonial, Redeems
<1>5. ~ cut' /\ Rotating => Rotating'
  BY <1>3 DEF Rotating, Promises
<1>6. Redeemed'
  <2>1. \A c : (Live(c)' <=> Live(c)) /\ (EnrolledBy(c)' <=> EnrolledBy(c))
    BY DEF Live, EnrolledBy
  <2> SUFFICES ASSUME ~ cut', NEW w \in Worker, request'[w].at = "mark", Live(request'[w].as.code)
               PROVE  EnrolledBy(request'[w].as.code) \/ Rotating'
    BY <2>1 DEF Redeemed
  <2>2. request'[w] = request[w]
    BY <1>3
  <2> QED BY <1>5, <2>2 DEF CredentialsSound, Redeemed
<1>7. WayInComing'
  <2>1. \A b : Whole(b) => Whole(b)'
    BY DEF Whole, Live, EnrolledBy
  <2>2. \A w \in Worker : ~ cut' /\ Promises(w) => Promises(w)'
    BY DEF Promises, Passkey
  <2> QED BY <2>1, <2>2 DEF CredentialsSound, WayInComing
<1>8. IdsFresh' /\ StaysErased'
  <2>1. IdsFresh /\ StaysErased
    BY DEF CredentialsSound
  <2>2. \A f \in Row : flow'[f] # None => flow'[f] = flow[f]
    OBVIOUS
  <2>3. \A w \in Worker : Unborn(w)' => Unborn(w) /\ request'[w].as = request[w].as
    BY <1>3 DEF Unborn, InCeremony
  <2>4. IdsFresh'
    BY <1>3, <2>1, <2>2, <2>3 DEF IdsFresh
  <2>5. \A w \in Worker : request'[w].at = "user" => request[w].at = "user" /\ request'[w].as = request[w].as
    BY <1>3
  <2>6. StaysErased'
    BY <2>1, <2>2, <2>3, <2>5 DEF StaysErased
  <2> QED BY <2>4, <2>6
<1>9. ResetUndisturbed'
  BY <1>2, <1>3 DEF CredentialsSound, ResetUndisturbed, Renews, Live
<1>10. ResetSettled'
  BY <1>3 DEF CredentialsSound, ResetSettled, Live
<1> QED BY <1>1, <1>4, <1>6, <1>7, <1>8, <1>9, <1>10 DEF CredentialsSound

-----------------------------------------------------------------------------
(* Steps that begin something *)

\* Only one request moves, which was idle, and the tables stay.
LEMMA BeginningKeeps ==
    ASSUME CredentialsSound, NEW w \in Worker, NEW r \in RequestStates,
           request[w] = Resting, Credentials!Put(w, r),
           UNCHANGED <<user, creds, code, flow, sessions, opened, issued, enrolled, erased, settled, cut>>,
           used_ids \subseteq used_ids', used_ids' \subseteq Ids,
           r.at \in {"open", "clear"} \/ r.at \in Stages,
           r.at # "mark", r.at # "codes",
           r.at = "open" \/ r.at \in Stages => r.as.user \in used_ids' /\ Redeems(r.as),
           r.at = "user" => r.as.kind = "register",
           r.at = "credential" => r.as.kind \in {"register", "recovery"},
           \A v \in Worker : v # w /\ Unborn(v) /\ (r.at = "open" \/ r.at \in Stages)
              => request[v].as.user # r.as.user,
           r.at = "open" /\ r.as.kind = "register" => r.as.user \notin used_ids,
           r.at = "user" => r.as.user \notin erased,
           settled # None /\ (r.at = "open" \/ r.at \in Stages) =>
              /\ r.as.kind # "register"
              /\ r.as.kind = "recovery" => r.as.code[1] = settled,
           resetting' # None =>
              /\ resetting' = w /\ r.at = "clear" /\ r.user = user
              /\ \A v \in Worker : request[v] = Resting
              /\ \A f \in Row : flow[f] = None
    PROVE  CredentialsSound'
<1>1. /\ request' \in [Worker -> RequestStates] /\ request'[w] = r
      /\ \A v \in Worker : v # w => request'[v] = request[v]
  BY PutThere DEF CredentialsSound
<1>2. Credentials!TypeOK'
  BY <1>1, SoundTypes, TypedAgain
<1>3. Resting.at = "idle"
      /\ {"idle", "open", "clear", "rotate", "issue"} \intersect Stages = {}
  BY DEF Resting, Credentials!Idle, Stages, Credentials!Stages
<1>4. InCeremony(w)' => r.at = "open" \/ r.at \in Stages
  BY <1>1 DEF InCeremony
<1>5. \A v \in Worker : v # w =>
        (InCeremony(v)' <=> InCeremony(v)) /\ (Unborn(v)' <=> Unborn(v)) /\ (Promises(v)' <=> Promises(v))
  BY <1>1 DEF InCeremony, Unborn, Promises, Passkey
<1>6. Belonging'
  BY DEF CredentialsSound, Belonging
<1>7. Ceremonial'
  <2>1. \A as : Redeems(as)' <=> Redeems(as)
    BY DEF Redeems
  <2>2. \A f \in Row : flow'[f] # None => Redeems(flow'[f])
    BY DEF CredentialsSound, Ceremonial
  <2>3. \A v \in Worker : InCeremony(v)' => Redeems(request'[v].as)
    BY <1>1, <1>4, <1>5 DEF CredentialsSound, Ceremonial
  <2>4. \A v \in Worker :
          /\ request'[v].at \in {"user", "codes"} => request'[v].as.kind = "register"
          /\ request'[v].at = "credential" => request'[v].as.kind \in {"register", "recovery"}
          /\ request'[v].at = "mark" => request'[v].as.kind = "recovery"
    BY <1>1 DEF CredentialsSound, Ceremonial
  <2> QED BY <2>2, <2>3, <2>4 DEF Ceremonial, Redeems
<1>8. Redeemed'
  <2>1. Rotating => Rotating'
    BY <1>1, <1>3 DEF Rotating
  <2>2. \A c : (Live(c)' <=> Live(c)) /\ (EnrolledBy(c)' <=> EnrolledBy(c))
    BY DEF Live, EnrolledBy
  <2> SUFFICES ASSUME ~ cut', NEW v \in Worker, request'[v].at = "mark", Live(request'[v].as.code)
               PROVE  EnrolledBy(request'[v].as.code) \/ Rotating'
    BY <2>2 DEF Redeemed
  <2>3. request'[v] = request[v]
    BY <1>1
  <2> QED BY <2>1, <2>3 DEF CredentialsSound, Redeemed
<1>9. WayInComing'
  <2>1. \A b : Whole(b) => Whole(b)'
    BY DEF Whole, Live, EnrolledBy
  <2>2. ~ Promises(w)
    BY <1>3 DEF Promises
  <2> QED BY <1>5, <2>1, <2>2 DEF CredentialsSound, WayInComing
<1>10. IdsFresh'
  <2>1. IdsFresh
    BY DEF CredentialsSound
  <2>2. Unborn(w)' => r.at = "open" /\ r.as.kind = "register"
    BY <1>1 DEF Unborn
  <2>3. ASSUME NEW v \in Worker, Unborn(v)'
        PROVE  /\ user' # request'[v].as.user
               /\ \A f \in Row : flow'[f] # None => flow'[f].user # request'[v].as.user
               /\ \A x \in Worker \ {v} : InCeremony(x)' => request'[x].as.user # request'[v].as.user
    <3>1. CASE v = w
      BY <1>1, <1>5, <2>1, <2>2, <2>3, <3>1, SoundTypes, CredentialConstants DEF IdsFresh
    <3>2. CASE v # w
      BY <1>1, <1>4, <1>5, <2>1, <2>3, <3>2 DEF IdsFresh
    <3> QED BY <3>1, <3>2
  <2>4. \A v \in Worker : InCeremony(v)' => request'[v].as.user \in used_ids'
    BY <1>1, <1>4, <1>5, <2>1 DEF IdsFresh
  <2> QED BY <2>1, <2>3, <2>4 DEF IdsFresh
<1>11. StaysErased'
  <2>1. StaysErased
    BY DEF CredentialsSound
  <2>2. \A u \in erased : Unborn(w)' \/ r.at = "user" => r.as.user # u
    BY <1>1, <2>1 DEF Unborn, StaysErased
  <2> QED BY <1>1, <1>5, <2>1, <2>2 DEF StaysErased
<1>12. ResetUndisturbed'
  <2> SUFFICES ASSUME NEW x \in Worker, resetting' = x
               PROVE  /\ \A v \in Worker : v # x => request'[v].at = "idle"
                      /\ \A f \in Row : flow'[f] = None
                      /\ Renews(x)' /\ request'[x].user = user' /\ request'[x].at = "clear"
    BY DEF ResetUndisturbed
  <2> QED BY <1>1, <1>3, CredentialConstants DEF Renews
<1>13. ResetSettled'
  BY <1>1, <1>4, <1>5 DEF CredentialsSound, ResetSettled, Live
<1> QED BY <1>2, <1>6, <1>7, <1>8, <1>9, <1>10, <1>11, <1>12, <1>13 DEF CredentialsSound

\* The challenge is stored: what the request carried is now carried by a flow.
LEMMA OpeningKeeps ==
    ASSUME CredentialsSound, NEW w \in Worker, NEW f \in Row, Credentials!OpenFlow(w, f),
           UNCHANGED <<enrolled, erased, settled, cut>>, resetting' = None
    PROVE  CredentialsSound'
<1> DEFINE c == request[w].as
<1>1. /\ request[w].at = "open" /\ opened' = opened \union {f}
      /\ flow' = [flow EXCEPT ![f] = c]
      /\ UNCHANGED <<user, used_ids, issued, creds, code, sessions>>
      /\ Resting \in RequestStates /\ Credentials!Put(w, Resting)
  BY DEF Credentials!OpenFlow, Resting, RequestStates
<1>2. /\ request' \in [Worker -> RequestStates] /\ request'[w] = Resting
      /\ \A v \in Worker : v # w => request'[v] = request[v]
  BY <1>1, PutThere DEF CredentialsSound
<1>3. /\ c \in Ceremony /\ InCeremony(w) /\ Redeems(c) /\ c.user \in used_ids
      /\ settled # None => c.kind # "register" /\ (c.kind = "recovery" => c.code[1] = settled)
  <2>1. InCeremony(w)
    BY <1>1 DEF InCeremony
  <2>2. c \in Ceremony
    BY <2>1, CredentialTypes DEF CredentialsSound
  <2> QED BY <2>1, <2>2 DEF CredentialsSound, Ceremonial, IdsFresh, ResetSettled
<1>4. flow' \in [Row -> Ceremony \union {None}] /\ \A g \in Row : flow'[g] = IF g = f THEN c ELSE flow[g]
  BY <1>1, <1>3, SoundTypes
<1> HIDE DEF c
<1>5. Credentials!TypeOK'
  BY <1>1, <1>2, <1>4, SoundTypes, TypedAgain
<1>6. Resting.at = "idle"
      /\ {"idle", "open", "clear", "rotate", "issue"} \intersect Stages = {}
  BY DEF Resting, Credentials!Idle, Stages, Credentials!Stages
<1>7. \A v \in Worker :
        /\ InCeremony(v)' => v # w /\ InCeremony(v) /\ request'[v] = request[v]
        /\ Unborn(v)' => v # w /\ Unborn(v) /\ request'[v] = request[v]
        /\ request'[v].at # "idle" => v # w /\ request'[v] = request[v]
  BY <1>2, <1>6 DEF InCeremony, Unborn
<1>8. Belonging'
  BY <1>1 DEF CredentialsSound, Belonging
<1>9. Ceremonial'
  <2>1. \A g \in Row : flow'[g] # None => Redeems(flow'[g])
    BY <1>3, <1>4 DEF CredentialsSound, Ceremonial
  <2> QED BY <1>1, <1>7, <2>1 DEF CredentialsSound, Ceremonial, Redeems
<1>10. Redeemed'
  <2>1. Rotating => Rotating'
    BY <1>1, <1>2, <1>6 DEF Rotating
  <2>2. \A d : (Live(d)' <=> Live(d)) /\ (EnrolledBy(d)' <=> EnrolledBy(d))
    BY <1>1 DEF Live, EnrolledBy
  <2> SUFFICES ASSUME ~ cut', NEW v \in Worker, request'[v].at = "mark", Live(request'[v].as.code)
               PROVE  EnrolledBy(request'[v].as.code) \/ Rotating'
    BY <2>2 DEF Redeemed
  <2> QED BY <1>7, <2>1 DEF CredentialsSound, Redeemed
<1>11. WayInComing'
  <2>1. \A b : Whole(b) => Whole(b)'
    BY <1>1 DEF Whole, Live, EnrolledBy
  <2>2. \A v \in Worker : Promises(v) => Promises(v)'
    BY <1>1, <1>2, <1>6 DEF Promises, Passkey
  <2> QED BY <1>1, <2>1, <2>2 DEF CredentialsSound, WayInComing
<1>12. IdsFresh'
  <2>1. IdsFresh
    BY DEF CredentialsSound
  <2>2. \A g \in Row : flow'[g] # None => flow'[g] = flow[g] \/ flow'[g].user = c.user
    BY <1>4
  <2>3. \A v \in Worker : Unborn(v)' => c.user # request'[v].as.user
    BY <1>3, <1>7, <2>1 DEF IdsFresh, c
  <2> QED BY <1>1, <1>3, <1>7, <2>1, <2>2, <2>3 DEF IdsFresh
<1>13. StaysErased'
  <2>1. StaysErased
    BY DEF CredentialsSound
  <2>2. c.kind = "register" => Unborn(w)
    BY <1>1 DEF Unborn, c
  <2>3. \A u \in erased : \A g \in Row : flow'[g] # None /\ flow'[g].kind = "register" => flow'[g].user # u
    BY <1>4, <2>1, <2>2 DEF StaysErased, c
  <2>4. \A u \in erased : \A v \in Worker : Unborn(v)' \/ request'[v].at = "user" => request'[v].as.user # u
    BY <1>7, <2>1 DEF StaysErased
  <2> QED BY <1>1, <2>1, <2>3, <2>4 DEF StaysErased
<1>14. ResetUndisturbed'
  BY CredentialConstants DEF ResetUndisturbed
<1>15. ResetSettled'
  <2>1. ResetSettled
    BY DEF CredentialsSound
  <2>2. settled # None => \A g \in Row : flow'[g] # None =>
           flow'[g].kind # "register" /\ (flow'[g].kind = "recovery" => flow'[g].code[1] = settled)
    BY <1>3, <1>4, <2>1 DEF ResetSettled
  <2> QED BY <1>1, <1>7, <2>1, <2>2 DEF ResetSettled, Live
<1> QED BY <1>1, <1>5, <1>8, <1>9, <1>10, <1>11, <1>12, <1>13, <1>14, <1>15 DEF CredentialsSound

-----------------------------------------------------------------------------
(* Steps that change the user, the passkeys or the codes *)

\* A fresh batch is whole, and nothing that is under way speaks of its codes.
LEMMA IssueKeeps ==
    ASSUME CredentialsSound, NEW b \in Batches, user # None, Credentials!Issue(user, b),
           UNCHANGED <<user, used_ids, creds, flow, opened, sessions, enrolled, erased, cut>>,
           request' \in [Worker -> RequestStates],
           \A w \in Worker :
              \/ request'[w] = request[w] \/ request'[w] = Resting
              \/ /\ request[w].at \in Stages /\ request'[w].at = "consume"
                 /\ request'[w].as = request[w].as,
           \A w \in Worker : request[w].at = "rotate" => request'[w] = request[w],
           \A r \in Worker : resetting' = r => resetting = r /\ request'[r] = Resting,
           ResetSettled'
    PROVE  CredentialsSound'
<1>1. /\ issued' = issued \union {b} /\ b \notin issued
      /\ code' = [c \in Codes |-> IF c[1] = b THEN [user |-> user, used |-> FALSE] ELSE code[c]]
  BY DEF Credentials!Issue, Codes
<1>2. /\ user \in Ids /\ Codes = Batches \X Slots /\ issued' \subseteq Batches
      /\ \A c \in Codes : code[c] \in {None} \union [user : Ids, used : BOOLEAN]
  BY <1>1, SoundTypes
<1>3. /\ code' \in [Codes -> {None} \union [user : Ids, used : BOOLEAN]]
      /\ \A c \in Codes : c[1] # b => code'[c] = code[c]
      /\ \A c \in Codes : c[1] = b => code'[c] = [user |-> user, used |-> FALSE]
  BY <1>1, <1>2
<1>4. Credentials!TypeOK'
  BY <1>2, <1>3, SoundTypes, TypedAgain
<1>5. /\ Resting.at = "idle" /\ "consume" \in Stages
      /\ {"idle", "open", "clear", "rotate", "issue"} \intersect Stages = {}
  BY DEF Resting, Credentials!Idle, Stages, Credentials!Stages
<1>6. ASSUME NEW w \in Worker
      PROVE  /\ InCeremony(w)' => InCeremony(w) /\ request'[w].as = request[w].as
             /\ Unborn(w)' => Unborn(w) /\ request'[w].as = request[w].as
             /\ request'[w].at \notin {"consume", "idle"} => request'[w] = request[w]
  BY <1>5 DEF InCeremony, Unborn
<1>7. Belonging'
  <2>1. [user |-> user, used |-> FALSE].user = user
    OBVIOUS
  <2>2. \A c \in Codes : code'[c] # None => code'[c].user = user /\ c[1] \in issued'
    BY <1>1, <1>3, <2>1 DEF CredentialsSound, Belonging
  <2> QED BY <2>2 DEF CredentialsSound, Belonging
<1>8. Ceremonial'
  <2>1. \A f \in Row : flow'[f] # None /\ flow'[f].kind = "recovery" =>
            flow'[f].code \in Codes /\ flow'[f].code[1] \in issued'
    BY <1>1 DEF CredentialsSound, Ceremonial, Redeems
  <2>2. \A w \in Worker : InCeremony(w)' /\ request'[w].as.kind = "recovery" =>
            request'[w].as.code \in Codes /\ request'[w].as.code[1] \in issued'
    BY <1>1, <1>6 DEF CredentialsSound, Ceremonial, Redeems
  <2>4. \A w \in Worker :
          /\ request'[w].at \in {"user", "codes"} => request'[w].as.kind = "register"
          /\ request'[w].at = "credential" => request'[w].as.kind \in {"register", "recovery"}
          /\ request'[w].at = "mark" => request'[w].as.kind = "recovery"
    BY <1>6 DEF CredentialsSound, Ceremonial
  <2> QED BY <2>1, <2>2, <2>4 DEF Ceremonial, Redeems
<1>9. Redeemed'
  <2>1. Rotating => Rotating'
    BY DEF Rotating
  <2> SUFFICES ASSUME ~ cut', NEW w \in Worker, request'[w].at = "mark",
                      code'[request'[w].as.code] # None, ~ code'[request'[w].as.code].used
               PROVE  EnrolledBy(request'[w].as.code) \/ Rotating'
    BY DEF Redeemed, Live, EnrolledBy
  <2> DEFINE c == request[w].as.code
  <2>2. request'[w] = request[w] /\ request[w].at = "mark" /\ "mark" \in Stages
    BY <1>6 DEF Stages, Credentials!Stages
  <2>3. c \in Codes /\ c[1] \in issued
    BY <2>2 DEF CredentialsSound, Ceremonial, Redeems, InCeremony
  <2>4. code'[c] = code[c]
    BY <1>1, <1>3, <2>3
  <2> QED BY <2>1, <2>2, <2>4 DEF CredentialsSound, Redeemed, Live
<1>10. WayInComing'
  <2>1. \A s \in Slots : <<b, s>> \in Codes /\ <<b, s>>[1] = b
    BY <1>2
  <2>2. \A s \in Slots : code'[<<b, s>>] = [user |-> user, used |-> FALSE]
    BY <1>3, <2>1
  <2>3. [user |-> user, used |-> FALSE].used = FALSE /\ [user |-> user, used |-> FALSE] # None
    BY <1>2, CredentialConstants
  <2>4. Whole(b)'
    BY <1>1, <2>2, <2>3 DEF Whole, Live
  <2> QED BY <2>4 DEF WayInComing
<1>11. IdsFresh' /\ StaysErased'
  <2>1. IdsFresh /\ StaysErased
    BY DEF CredentialsSound
  <2>2. IdsFresh'
    BY <1>6, <2>1 DEF IdsFresh
  <2>3. \A w \in Worker : request'[w].at = "user" => request[w].at = "user" /\ request'[w].as = request[w].as
    BY <1>6
  <2>4. StaysErased'
    BY <1>6, <2>1, <2>3 DEF StaysErased
  <2> QED BY <2>2, <2>4
<1>12. ResetUndisturbed'
  <2> SUFFICES ASSUME NEW r \in Worker, resetting' = r
               PROVE  /\ \A v \in Worker : v # r => request'[v].at = "idle"
                      /\ \A f \in Row : flow'[f] = None
                      /\ request'[r].at = "idle"
    BY DEF ResetUndisturbed
  <2>1. \A v \in Worker : v # r => request[v].at = "idle"
    BY DEF CredentialsSound, ResetUndisturbed
  <2> QED BY <1>5, <2>1 DEF CredentialsSound, ResetUndisturbed
<1> QED BY <1>4, <1>7, <1>8, <1>9, <1>10, <1>11, <1>12 DEF CredentialsSound

\* register_finish inserts the user it registers, who has neither passkey nor code yet.
LEMMA InsertKeeps ==
    ASSUME CredentialsSound, NEW w \in Worker, Credentials!InsertUser(w),
           UNCHANGED <<enrolled, erased, settled, resetting, cut>>
    PROVE  CredentialsSound'
<1>1. /\ request[w].at = "user" /\ {"user", "credential"} \subseteq Stages
      /\ UNCHANGED <<creds, code, flow, sessions, used_ids, opened, issued>>
      /\ Resting \in RequestStates /\ Resting.at = "idle"
  BY DEF Credentials!InsertUser, Credentials!ids, Stages, Credentials!Stages, Resting, Credentials!Idle,
         RequestStates
<1>2. CASE user # None
  <2>1. Credentials!Put(w, Resting) /\ UNCHANGED user
    BY <1>2 DEF Credentials!InsertUser, Resting
  <2>2. /\ request' \in [Worker -> RequestStates] /\ request'[w] = Resting
        /\ \A v \in Worker : v # w => request'[v] = request[v]
    BY <1>1, <2>1, PutThere DEF CredentialsSound
  <2>3. ~ Promises(w)
    BY <1>1 DEF Promises
  <2> QED
    BY <1>1, <2>1, <2>2, <2>3, QuietKeeps, SoundTypes DEF CredentialsSound
<1>3. CASE user = None
  <2> DEFINE u == request[w].as.user
  <2>1. user' = u /\ Credentials!To(w, "credential")
    BY <1>3 DEF Credentials!InsertUser, Credentials!As
  <2>2. /\ request' \in [Worker -> RequestStates]
        /\ request'[w].at = "credential" /\ request'[w].as = request[w].as
        /\ \A v \in Worker : v # w => request'[v] = request[v]
    BY <1>1, <2>1, WentOn DEF CredentialsSound
  <2>3. InCeremony(w) /\ request[w].as \in Ceremony /\ u \in Ids /\ request[w].as.kind = "register"
    <3>1. InCeremony(w)
      BY <1>1 DEF InCeremony
    <3>2. request[w].as \in Ceremony
      BY <3>1, CredentialTypes DEF CredentialsSound
    <3> QED BY <1>1, <3>1, <3>2 DEF CredentialsSound, Ceremonial, Ceremony, Credentials!Ceremonies
  <2>4. creds = {} /\ \A c \in Codes : code[c] = None
    BY <1>3, SoundTypes, CredentialConstants DEF CredentialsSound, Belonging
  <2>5. Credentials!TypeOK'
    BY <1>1, <2>1, <2>2, <2>3, SoundTypes, TypedAgain
  <2>6. \A v \in Worker :
          /\ InCeremony(v)' => InCeremony(v) /\ request'[v].as = request[v].as
          /\ Unborn(v)' => v # w /\ Unborn(v) /\ request'[v].as = request[v].as
    BY <1>1, <2>2 DEF InCeremony, Unborn
  <2>7. Belonging'
    BY <1>1, <2>4 DEF Belonging
  <2>8. Ceremonial'
    <3>1. \A v \in Worker :
            /\ request'[v].at \in {"user", "codes"} => request'[v].as.kind = "register"
            /\ request'[v].at = "credential" => request'[v].as.kind \in {"register", "recovery"}
            /\ request'[v].at = "mark" => request'[v].as.kind = "recovery"
      BY <2>2, <2>3 DEF CredentialsSound, Ceremonial
    <3> QED BY <1>1, <2>6, <3>1 DEF CredentialsSound, Ceremonial, Redeems
  <2>9. Redeemed'
    <3> SUFFICES ASSUME NEW v \in Worker, request'[v].at = "mark", code'[request'[v].as.code] # None
                 PROVE  FALSE
      BY DEF Redeemed, Live
    <3>1. request'[v] = request[v] /\ InCeremony(v)
      BY <2>2 DEF InCeremony, Stages, Credentials!Stages
    <3>2. request[v].as.code \in Codes
      BY <3>1 DEF CredentialsSound, Ceremonial, Redeems
    <3> QED BY <1>1, <2>4, <3>1, <3>2
  <2>10. WayInComing'
    <3>1. Promises(w)'
      BY <1>1, <2>1, <2>2, <2>3, <2>4 DEF Promises
    <3> QED BY <3>1 DEF WayInComing
  <2>11. IdsFresh'
    <3>1. IdsFresh
      BY DEF CredentialsSound
    <3>2. u \in used_ids /\ \A v \in Worker : Unborn(v)' => u # request[v].as.user
      BY <2>3, <2>6, <3>1 DEF IdsFresh
    <3> HIDE DEF u
    <3> QED BY <1>1, <2>1, <2>6, <3>1, <3>2 DEF IdsFresh
  <2>12. StaysErased'
    <3>1. StaysErased /\ u \notin erased
      BY <1>1 DEF CredentialsSound, StaysErased
    <3>2. \A v \in Worker : request'[v].at = "user" => request[v].at = "user" /\ request'[v].as = request[v].as
      BY <2>2
    <3>3. \A v \in Worker : Unborn(v)' => Unborn(v) /\ request'[v].as = request[v].as
      BY <2>2, <2>6
    <3> QED BY <1>1, <2>1, <3>1, <3>2, <3>3 DEF StaysErased
  <2>13. ResetUndisturbed'
    BY <1>1, <2>3 DEF CredentialsSound, ResetUndisturbed, Renews
  <2>14. ResetSettled'
    BY <1>3 DEF CredentialsSound, ResetSettled
  <2> QED
    BY <2>5, <2>7, <2>8, <2>9, <2>10, <2>11, <2>12, <2>13, <2>14 DEF CredentialsSound
<1> QED BY <1>2, <1>3


\* A flow id is used once, so what a request took from a flow is what the flow held.
FlowsOnce ==
  /\ \A f \in Row : flow[f] # None => f \in opened
  /\ \A w \in Worker : request[w].at \in Stages =>
       /\ request[w].flow \in opened
       /\ flow[request[w].flow] \in {request[w].as, None}
       /\ \A v \in Worker : request[v].at \in Stages /\ request[v].flow = request[w].flow
            => request[v].as = request[w].as

\* A passkey is stored once: the request goes on to the codes, or to mark the one it took.
LEMMA StoreKeeps ==
    ASSUME CredentialsSound, FlowsOnce, NEW w \in Worker, Credentials!store_new_credential(w),
           enrolled' = IF creds' # creds /\ request[w].as.kind = "recovery"
                         THEN enrolled \union {<<request[w].as.code, request[w].flow>>} ELSE enrolled,
           UNCHANGED <<erased, settled, resetting, cut>>
    PROVE  CredentialsSound'
<1> DEFINE as == request[w].as
           k == [user |-> as.user, rp |-> as.rp, by |-> request[w].flow]
<1>1. /\ request[w].at = "credential" /\ {"credential", "codes", "mark"} \subseteq Stages
      /\ UNCHANGED <<user, code, flow, sessions, used_ids, opened, issued>>
      /\ Resting \in RequestStates /\ Resting.at = "idle"
  BY DEF Credentials!store_new_credential, Credentials!ids, Stages, Credentials!Stages, Resting,
         Credentials!Idle, RequestStates
<1>2. /\ InCeremony(w) /\ as \in Ceremony /\ Redeems(as) /\ as.kind \in {"register", "recovery"}
      /\ request[w].flow \in Row
  <2>1. InCeremony(w)
    BY <1>1 DEF InCeremony
  <2>2. as \in Ceremony /\ request[w] \in Staged
    BY <1>1, <2>1, CredentialTypes DEF CredentialsSound
  <2> QED BY <1>1, <2>1, <2>2 DEF CredentialsSound, Ceremonial, Staged
<1>3. Passkey(w) = k
  BY DEF Passkey
<1>4. CASE ~ (user = as.user /\ k \notin creds)
  <2>1. Credentials!Put(w, Resting) /\ UNCHANGED <<creds, enrolled>>
    BY <1>4 DEF Credentials!store_new_credential, Credentials!As, Resting
  <2>2. /\ request' \in [Worker -> RequestStates] /\ request'[w] = Resting
        /\ \A v \in Worker : v # w => request'[v] = request[v]
    BY <1>1, <2>1, PutThere DEF CredentialsSound
  <2>3. ~ Promises(w)
    BY <1>1, <1>3, <1>4 DEF Promises
  <2> HIDE DEF as, k
  <2> QED
    BY <1>1, <2>1, <2>2, <2>3, QuietKeeps, SoundTypes DEF CredentialsSound
<1>5. CASE user = as.user /\ k \notin creds
  <2> DEFINE next == IF as.kind = "register" THEN "codes" ELSE "mark"
  <2>1. creds' = creds \union {k} /\ Credentials!To(w, next) /\ next \in Stages
    BY <1>1, <1>5 DEF Credentials!store_new_credential, Credentials!As
  <2>2. /\ request' \in [Worker -> RequestStates]
        /\ request'[w].at = next /\ request'[w].as = as /\ request'[w].flow = request[w].flow
        /\ \A v \in Worker : v # w => request'[v] = request[v]
    <3> HIDE DEF next
    <3> QED BY <1>1, <2>1, WentOn DEF CredentialsSound
  <2>3. /\ as.kind = "register" => request'[w].at = "codes"
        /\ as.kind = "recovery" => request'[w].at = "mark" /\ <<as.code, request[w].flow>> \in enrolled'
        /\ enrolled \subseteq enrolled'
    BY <1>5, <2>1, <2>2
  <2>4. /\ k \in [user : Ids, rp : Credentials!Rps, by : Row] /\ k.user = user /\ k.by = request[w].flow
        /\ user # None /\ k \in creds' /\ creds \subseteq creds'
    BY <1>2, <1>5, <2>1, CredentialConstants DEF Ceremony, Credentials!Ceremonies
  <2>5. Credentials!TypeOK'
    BY <1>1, <2>1, <2>2, <2>4, SoundTypes, TypedAgain
  <2>6. \A v \in Worker :
          /\ InCeremony(v)' => InCeremony(v) /\ request'[v].as = request[v].as
          /\ Unborn(v)' => Unborn(v) /\ request'[v].as = request[v].as
          /\ request'[v].at = "user" => request[v].at = "user" /\ request'[v].as = request[v].as
    BY <1>1, <1>2, <2>2, <2>3 DEF InCeremony, Unborn
  <2> HIDE DEF as, k, next
  <2>7. Belonging'
    BY <1>1, <2>1, <2>4 DEF CredentialsSound, Belonging
  <2>8. Ceremonial'
    <3>1. \A v \in Worker :
            /\ request'[v].at \in {"user", "codes"} => request'[v].as.kind = "register"
            /\ request'[v].at = "credential" => request'[v].as.kind \in {"register", "recovery"}
            /\ request'[v].at = "mark" => request'[v].as.kind = "recovery"
      BY <1>2, <2>2, <2>3 DEF CredentialsSound, Ceremonial
    <3> QED BY <1>1, <2>6, <3>1 DEF CredentialsSound, Ceremonial, Redeems
  <2>9. \A c : EnrolledBy(c) => EnrolledBy(c)'
    BY <2>3, <2>4 DEF EnrolledBy
  <2>10. Redeemed'
    <3>1. Rotating => Rotating'
      BY <1>1, <2>2 DEF Rotating
    <3>2. \A c : EnrolledBy(c)' <=> \E l \in creds' : <<c, l.by>> \in enrolled'
      BY DEF EnrolledBy
    <3> SUFFICES ASSUME ~ cut', NEW v \in Worker, request'[v].at = "mark",
                        code'[request'[v].as.code] # None, ~ code'[request'[v].as.code].used
                 PROVE  (\E l \in creds' : <<request'[v].as.code, l.by>> \in enrolled') \/ Rotating'
      BY DEF Redeemed, Live, EnrolledBy
    <3>3. CASE v = w
      BY <1>2, <2>2, <2>3, <2>4, <3>3
    <3>4. CASE v # w
      <4>1. EnrolledBy(request[v].as.code) \/ Rotating
        BY <1>1, <2>2, <3>4 DEF CredentialsSound, Redeemed, Live
      <4> QED BY <2>2, <2>9, <3>1, <3>2, <3>4, <4>1
    <3> QED BY <3>3, <3>4
  <2>11. WayInComing'
    <3>1. \A b : Whole(b) => Whole(b)'
      BY <1>1, <2>9 DEF Whole, Live
    <3>2. as.kind = "register" => Promises(w)'
      BY <1>1, <1>5, <2>2, <2>3 DEF Promises
    <3>3. ASSUME NEW v \in Worker, v # w, Promises(v)
          PROVE  Promises(v)' \/ Promises(w)'
      <4>1. CASE /\ request[v].at = "credential" /\ request[v].as.kind = "register"
                 /\ Passkey(v) = k
        <5>1. request[v].flow = request[w].flow
          BY <4>1 DEF Passkey, k
        <5>2. request[v].as = as
          BY <1>1, <4>1, <5>1 DEF FlowsOnce, as
        <5> QED BY <3>2, <4>1, <5>2
      <4>2. Passkey(v)' = Passkey(v)
        BY <2>2, <3>3 DEF Passkey
      <4> QED BY <1>1, <2>1, <2>2, <3>3, <4>1, <4>2 DEF Promises
    <3>4. Promises(w) => as.kind = "register"
      BY <1>1 DEF Promises, as
    <3> QED BY <1>1, <3>1, <3>2, <3>3, <3>4 DEF CredentialsSound, WayInComing
  <2>12. IdsFresh'
    <3>1. IdsFresh
      BY DEF CredentialsSound
    <3> QED BY <1>1, <2>6, <3>1 DEF IdsFresh
  <2>13. StaysErased'
    <3>1. StaysErased
      BY DEF CredentialsSound
    <3> QED BY <1>1, <2>6, <3>1 DEF StaysErased
  <2>14. ResetUndisturbed'
    BY <1>1 DEF CredentialsSound, ResetUndisturbed, Renews
  <2>15. ResetSettled'
    <3> SUFFICES ASSUME settled # None PROVE ResetSettled'
      BY <1>1 DEF ResetSettled
    <3>1. ResetSettled
      BY DEF CredentialsSound
    <3>2. as.kind = "recovery" /\ as.code[1] = settled
      BY <1>2, <3>1 DEF ResetSettled, as
    <3>3. /\ <<as.code, request[w].flow>>[1] = as.code
          /\ <<as.code, request[w].flow>>[2] = request[w].flow
      OBVIOUS
    <3>4. \A l \in creds' : \E s \in enrolled' : s[2] = l.by /\ s[1][1] = settled
      BY <2>1, <2>3, <2>4, <3>1, <3>2, <3>3 DEF ResetSettled
    <3> QED BY <1>1, <2>6, <3>1, <3>4 DEF ResetSettled, Live
  <2> QED
    BY <1>1, <2>5, <2>7, <2>8, <2>10, <2>11, <2>12, <2>13, <2>14, <2>15 DEF CredentialsSound
<1> QED BY <1>4, <1>5


\* A code is marked after the passkey it enrolled is stored, so its batch stays whole.
LEMMA MarkKeeps ==
    ASSUME CredentialsSound, NEW w \in Worker, Credentials!mark_code_used(w),
           UNCHANGED <<enrolled, erased, settled, resetting, cut>>
    PROVE  CredentialsSound'
<1> DEFINE c == request[w].as.code
<1>1. /\ request[w].at = "mark" /\ {"mark", "consume"} \subseteq Stages
      /\ UNCHANGED <<user, creds, flow, sessions, used_ids, opened, issued>>
      /\ Credentials!To(w, "consume")
      /\ code' = IF code[c] = None THEN code ELSE [code EXCEPT ![c].used = TRUE]
  BY DEF Credentials!mark_code_used, Credentials!ids, Credentials!As, Stages, Credentials!Stages
<1>2. /\ request' \in [Worker -> RequestStates]
      /\ request'[w].at = "consume" /\ request'[w].as = request[w].as
      /\ \A v \in Worker : v # w => request'[v] = request[v]
  BY <1>1, WentOn DEF CredentialsSound
<1>3. c \in Codes
  BY <1>1 DEF CredentialsSound, Ceremonial, Redeems, InCeremony
<1>4. /\ code' \in [Codes -> {None} \union [user : Ids, used : BOOLEAN]]
      /\ \A d \in Codes : d # c => code'[d] = code[d]
      /\ code[c] = None => code'[c] = None
      /\ code[c] # None => /\ code'[c] # None /\ code'[c].user = code[c].user
                           /\ code'[c].used
  <2>1. CASE code[c] = None
    BY <1>1, <1>3, <2>1, SoundTypes
  <2>2. CASE code[c] # None
    <3> DEFINE marked == [code[c] EXCEPT !.used = TRUE]
    <3>1. code[c] \in [user : Ids, used : BOOLEAN]
      BY <1>3, <2>2, SoundTypes
    <3>2. marked \in [user : Ids, used : BOOLEAN] /\ marked.user = code[c].user /\ marked.used
      BY <3>1
    <3>3. code' = [code EXCEPT ![c] = marked]
      BY <1>1, <2>2
    <3>4. marked # None
      BY <3>2, RecordsAssumption DEF Credentials!IdentityAssumption
    <3> HIDE DEF marked, c
    <3> QED BY <1>3, <2>2, <3>2, <3>3, <3>4, SoundTypes
  <2> QED BY <2>1, <2>2
<1> HIDE DEF c
<1>5. Credentials!TypeOK'
  BY <1>1, <1>2, <1>4, SoundTypes, TypedAgain
<1>6. \A v \in Worker :
        /\ InCeremony(v)' => InCeremony(v) /\ request'[v].as = request[v].as
        /\ Unborn(v)' => Unborn(v) /\ request'[v].as = request[v].as
        /\ request'[v].at # "consume" => request'[v] = request[v]
  BY <1>1, <1>2 DEF InCeremony, Unborn
<1>7. \A d \in Codes : Live(d)' => Live(d)
  BY <1>4 DEF Live
<1>8. Belonging'
  <2>1. \A d \in Codes : code'[d] # None => code[d] # None /\ code'[d].user = code[d].user
    BY <1>4
  <2> QED BY <1>1, <2>1 DEF CredentialsSound, Belonging
<1>9. Ceremonial'
  <2>1. \A v \in Worker :
          /\ request'[v].at \in {"user", "codes"} => request'[v].as.kind = "register"
          /\ request'[v].at = "credential" => request'[v].as.kind \in {"register", "recovery"}
          /\ request'[v].at = "mark" => request'[v].as.kind = "recovery"
    BY <1>2 DEF CredentialsSound, Ceremonial
  <2> QED BY <1>1, <1>6, <2>1 DEF CredentialsSound, Ceremonial, Redeems
<1>10. \A d : EnrolledBy(d) <=> EnrolledBy(d)'
  BY <1>1 DEF EnrolledBy
<1>11. Rotating => Rotating'
  BY <1>1, <1>2 DEF Rotating
<1>12. Redeemed'
  <2>1. \A d : EnrolledBy(d)' <=> \E l \in creds' : <<d, l.by>> \in enrolled'
    BY DEF EnrolledBy
  <2>2. \A d : Live(d)' <=> code'[d] # None /\ ~ code'[d].used
    BY DEF Live
  <2> SUFFICES ASSUME ~ cut', NEW v \in Worker, request'[v].at = "mark",
                      code'[request'[v].as.code] # None, ~ code'[request'[v].as.code].used
               PROVE  (\E l \in creds' : <<request'[v].as.code, l.by>> \in enrolled') \/ Rotating'
    BY <2>1, <2>2 DEF Redeemed
  <2>3. request'[v] = request[v]
    BY <1>6
  <2>4. request[v].as.code \in Codes
    BY <2>3, <1>1 DEF CredentialsSound, Ceremonial, Redeems, InCeremony
  <2>5. Live(request[v].as.code)
    BY <1>7, <2>2, <2>3, <2>4
  <2>6. EnrolledBy(request[v].as.code) \/ Rotating
    BY <2>3, <2>5 DEF CredentialsSound, Redeemed
  <2> QED BY <1>10, <1>11, <2>1, <2>3, <2>6
<1>13. WayInComing'
  <2>1. \A v \in Worker : Promises(v) => Promises(v)'
    BY <1>1, <1>2 DEF Promises, Passkey
  <2>2. Rotating => \E v \in Worker : Promises(v)
    BY DEF Rotating, Promises
  <2>3. ASSUME ~ cut, ~ Rotating, NEW b \in Batches, Whole(b)
        PROVE  Whole(b)'
    <3>1. \A s \in Slots : <<b, s>> \in Codes
      BY SoundTypes
    <3>2. Live(c) => EnrolledBy(c)
      BY <1>1, <2>3 DEF CredentialsSound, Redeemed, c
    <3>3. ASSUME NEW s \in Slots
          PROVE  Live(<<b, s>>)' \/ (code'[<<b, s>>] # None /\ EnrolledBy(<<b, s>>)')
      <4>1. CASE <<b, s>> = c
        <5>1. code[c] # None /\ EnrolledBy(c)
          BY <2>3, <3>2, <4>1 DEF Whole, Live
        <5> QED BY <1>4, <1>10, <4>1, <5>1
      <4>2. CASE <<b, s>> # c
        BY <1>4, <1>10, <2>3, <3>1, <4>2 DEF Whole, Live
      <4> QED BY <4>1, <4>2
    <3> QED BY <1>1, <2>3, <3>3 DEF Whole
  <2> QED BY <1>1, <2>1, <2>2, <2>3 DEF CredentialsSound, WayInComing
<1>14. IdsFresh'
  <2>1. IdsFresh
    BY DEF CredentialsSound
  <2> QED BY <1>1, <1>6, <2>1 DEF IdsFresh
<1>15. StaysErased'
  <2>1. StaysErased
    BY DEF CredentialsSound
  <2>2. \A v \in Worker : request'[v].at = "user" => request[v].at = "user" /\ request'[v].as = request[v].as
    BY <1>6
  <2> QED BY <1>1, <1>6, <2>1, <2>2 DEF StaysErased
<1>16. ResetUndisturbed'
  BY <1>1 DEF CredentialsSound, ResetUndisturbed, Renews
<1>17. ResetSettled'
  <2>1. ResetSettled
    BY DEF CredentialsSound
  <2>2. settled # None => \A d \in Codes : Live(d)' => d[1] = settled
    BY <1>7, <2>1 DEF ResetSettled
  <2> QED BY <1>1, <1>6, <2>1, <2>2 DEF ResetSettled
<1> QED
  BY <1>1, <1>5, <1>8, <1>9, <1>12, <1>13, <1>14, <1>15, <1>16, <1>17 DEF CredentialsSound


\* The erasure takes all that is the user's, if the user is still the one it names.
LEMMA EraseKeeps ==
    ASSUME CredentialsSound, NEW w \in Worker, Credentials!delete_user_data(w),
           UNCHANGED <<enrolled, resetting, cut>>, settled' = None,
           erased' = IF \A v \in Credentials!Busy : request[v].at # "user"
                       THEN erased \union {request[w].as.user} ELSE erased
    PROVE  CredentialsSound'
<1> DEFINE u == request[w].as.user
<1>1. /\ request[w].at = "erase" /\ "erase" \in Stages
      /\ UNCHANGED <<used_ids, opened, issued>>
      /\ Resting \in RequestStates /\ Resting.at = "idle" /\ Credentials!Put(w, Resting)
      /\ user' = IF user = u THEN None ELSE user
      /\ flow' = [f \in Row |-> IF flow[f] # None /\ flow[f].user = u THEN None ELSE flow[f]]
      /\ creds' = {k \in creds : k.user # u} /\ sessions' = sessions \ {u}
      /\ code' = [c \in Codes |-> IF code[c] # None /\ code[c].user = u THEN None ELSE code[c]]
  BY DEF Credentials!delete_user_data, Credentials!FlowsWithout, Credentials!ids, Credentials!As, Stages,
         Credentials!Stages, Resting, Credentials!Idle, RequestStates, Codes
<1>2. /\ request' \in [Worker -> RequestStates] /\ request'[w] = Resting
      /\ \A v \in Worker : v # w => request'[v] = request[v]
  BY <1>1, PutThere DEF CredentialsSound
<1>3. InCeremony(w) /\ u \in Ids /\ u # None /\ u \in used_ids
  <2>1. InCeremony(w)
    BY <1>1 DEF InCeremony
  <2>2. request[w].as \in Ceremony
    BY <2>1, CredentialTypes DEF CredentialsSound
  <2> QED BY <2>1, <2>2, CredentialConstants DEF CredentialsSound, IdsFresh, Ceremony, Credentials!Ceremonies
<1> HIDE DEF u
<1>4. /\ flow' \in [Row -> Ceremony \union {None}]
      /\ \A f \in Row : flow'[f] # None => flow'[f] = flow[f] /\ flow[f].user # u
      /\ code' \in [Codes -> {None} \union [user : Ids, used : BOOLEAN]]
      /\ \A c \in Codes : code'[c] = IF code[c] # None /\ code[c].user = u THEN None ELSE code[c]
  BY <1>1, SoundTypes
<1>5. Credentials!TypeOK'
  BY <1>1, <1>2, <1>3, <1>4, SoundTypes, TypedAgain
<1>7. user = u => user' = None /\ creds' = {} /\ \A c \in Codes : code'[c] = None
  BY <1>1, <1>4 DEF CredentialsSound, Belonging
<1>8. user # u => user' = user /\ creds' = creds /\ \A c \in Codes : code'[c] = code[c]
  BY <1>1, <1>4 DEF CredentialsSound, Belonging
<1>9. \A v \in Worker :
        /\ InCeremony(v)' => v # w /\ InCeremony(v) /\ request'[v].as = request[v].as
        /\ Unborn(v)' => v # w /\ Unborn(v) /\ request'[v].as = request[v].as
        /\ request'[v].at # "idle" => v # w /\ request'[v] = request[v]
  BY <1>1, <1>2 DEF InCeremony, Unborn, Stages, Credentials!Stages
<1>10. Belonging'
  BY <1>1, <1>7, <1>8 DEF CredentialsSound, Belonging
<1>11. Ceremonial'
  <2>1. \A v \in Worker :
          /\ request'[v].at \in {"user", "codes"} => request'[v].as.kind = "register"
          /\ request'[v].at = "credential" => request'[v].as.kind \in {"register", "recovery"}
          /\ request'[v].at = "mark" => request'[v].as.kind = "recovery"
    BY <1>9 DEF CredentialsSound, Ceremonial
  <2> QED BY <1>1, <1>4, <1>9, <2>1 DEF CredentialsSound, Ceremonial, Redeems
<1>12. Redeemed'
  <2>1. \A d : EnrolledBy(d)' <=> \E l \in creds' : <<d, l.by>> \in enrolled'
    BY DEF EnrolledBy
  <2>2. \A d : Live(d)' <=> code'[d] # None /\ ~ code'[d].used
    BY DEF Live
  <2> SUFFICES ASSUME ~ cut', NEW v \in Worker, request'[v].at = "mark",
                      code'[request'[v].as.code] # None, ~ code'[request'[v].as.code].used
               PROVE  (\E l \in creds' : <<request'[v].as.code, l.by>> \in enrolled') \/ Rotating'
    BY <2>1, <2>2 DEF Redeemed
  <2>3. request'[v] = request[v] /\ InCeremony(v)
    BY <1>9 DEF InCeremony, Stages, Credentials!Stages
  <2>4. request[v].as.code \in Codes
    BY <2>3 DEF CredentialsSound, Ceremonial, Redeems
  <2>5. user # u
    BY <1>7, <2>3, <2>4
  <2>6. EnrolledBy(request[v].as.code) \/ Rotating
    BY <1>8, <2>3, <2>4, <2>5 DEF CredentialsSound, Redeemed, Live
  <2>7. Rotating => Rotating'
    BY <1>1, <1>2, <1>8, <2>5 DEF Rotating
  <2> QED BY <1>8, <2>3, <2>5, <2>6, <2>7 DEF EnrolledBy
<1>13. WayInComing'
  <2> SUFFICES ASSUME user # u PROVE WayInComing'
    BY <1>7 DEF WayInComing
  <2>1. \A v \in Worker : Promises(v) => Promises(v)'
    BY <1>1, <1>2, <1>8 DEF Promises, Passkey
  <2>2. ASSUME NEW b \in Batches, Whole(b) PROVE Whole(b)'
    <3>1. \A s \in Slots : <<b, s>> \in Codes
      BY SoundTypes
    <3> QED BY <1>1, <1>8, <2>2, <3>1 DEF Whole, Live, EnrolledBy
  <2> QED BY <1>8, <2>1, <2>2 DEF CredentialsSound, WayInComing
<1>14. IdsFresh'
  <2>1. IdsFresh
    BY DEF CredentialsSound
  <2>2. \A v \in Worker : Unborn(v) => request[v].as \in Ceremony
    BY CredentialTypes DEF CredentialsSound, Unborn, InCeremony
  <2>3. \A v \in Worker : Unborn(v)' => user' # request'[v].as.user
    BY <1>7, <1>8, <1>9, <2>1, <2>2, CredentialConstants DEF IdsFresh, Ceremony, Credentials!Ceremonies
  <2> QED BY <1>1, <1>4, <1>7, <1>8, <1>9, <2>1, <2>3 DEF IdsFresh
<1>15. StaysErased'
  <2>1. StaysErased /\ IdsFresh
    BY DEF CredentialsSound
  <2>2. \A v \in Worker : request'[v].at = "user" => request[v].at = "user" /\ request'[v] = request[v]
    BY <1>9
  <2>3. ASSUME NEW d \in erased
        PROVE  /\ d \in used_ids' /\ user' # d
               /\ \A f \in Row : flow'[f] # None /\ flow'[f].kind = "register" => flow'[f].user # d
               /\ \A v \in Worker : Unborn(v)' \/ request'[v].at = "user" => request'[v].as.user # d
    <3>1. user' # d
      <4>1. d \in Ids
        BY <2>1, SoundTypes DEF StaysErased
      <4> QED BY <1>7, <1>8, <2>1, <4>1, CredentialConstants DEF StaysErased
    <3> QED BY <1>1, <1>4, <1>9, <2>1, <2>2, <2>3, <3>1 DEF StaysErased
  <2>4. ASSUME \A v \in Credentials!Busy : request[v].at # "user"
        PROVE  /\ u \in used_ids' /\ user' # u
               /\ \A f \in Row : flow'[f] # None /\ flow'[f].kind = "register" => flow'[f].user # u
               /\ \A v \in Worker : Unborn(v)' \/ request'[v].at = "user" => request'[v].as.user # u
    <3>1. \A v \in Worker : request[v].at # "user"
      BY <1>1, <2>4 DEF Credentials!Busy, Resting
    <3>2. \A v \in Worker : Unborn(v)' => request'[v].as.user # u
      BY <1>3, <1>9, <2>1 DEF IdsFresh, u
    <3> QED BY <1>1, <1>3, <1>4, <1>7, <1>8, <2>2, <3>1, <3>2
  <2>5. erased' \subseteq erased \union {u}
        /\ (u \in erased' \ erased => \A v \in Credentials!Busy : request[v].at # "user")
    BY DEF u
  <2> QED BY <2>3, <2>4, <2>5 DEF StaysErased
<1>16. ResetUndisturbed'
  BY <1>1 DEF CredentialsSound, ResetUndisturbed, Renews
<1>17. ResetSettled'
  BY DEF ResetSettled
<1> QED
  BY <1>5, <1>10, <1>11, <1>12, <1>13, <1>14, <1>15, <1>16, <1>17 DEF CredentialsSound


\* A reset that goes on is in no ceremony, before or after.
LEMMA RenewalAside ==
    ASSUME CredentialsSound, NEW w \in Worker, Renews(w),
           NEW stage \in {"rotate", "issue"}, Credentials!To(w, stage),
           UNCHANGED <<user, used_ids, flow, issued, erased>>
    PROVE  /\ request' \in [Worker -> RequestStates]
           /\ request'[w].at = stage /\ request'[w].user = request[w].user
           /\ \A v \in Worker : v # w => request'[v] = request[v]
           /\ \A v \in Worker : InCeremony(v)' => v # w /\ InCeremony(v)
           /\ Ceremonial' /\ IdsFresh' /\ StaysErased'
<1>1. /\ request' \in [Worker -> RequestStates]
      /\ request'[w].at = stage /\ request'[w].user = request[w].user
      /\ \A v \in Worker : v # w => request'[v] = request[v]
  BY RenewalWentOn DEF CredentialsSound
<1>2. \A v \in Worker :
        /\ InCeremony(v)' => v # w /\ InCeremony(v)
        /\ Unborn(v)' => v # w /\ Unborn(v)
        /\ request'[v].at \notin {"rotate", "issue"} => v # w /\ request'[v] = request[v]
  BY <1>1 DEF InCeremony, Unborn, Stages, Credentials!Stages
<1>3. Ceremonial'
  <2>1. \A v \in Worker :
          /\ request'[v].at \in {"user", "codes"} => request'[v].as.kind = "register"
          /\ request'[v].at = "credential" => request'[v].as.kind \in {"register", "recovery"}
          /\ request'[v].at = "mark" => request'[v].as.kind = "recovery"
    BY <1>2 DEF CredentialsSound, Ceremonial
  <2> QED BY <1>1, <1>2, <2>1 DEF CredentialsSound, Ceremonial, Redeems
<1>4. IdsFresh'
  <2>1. IdsFresh
    BY DEF CredentialsSound
  <2> QED BY <1>1, <1>2, <2>1 DEF IdsFresh
<1>5. StaysErased'
  <2>1. StaysErased
    BY DEF CredentialsSound
  <2> QED BY <1>1, <1>2, <2>1 DEF StaysErased
<1> QED BY <1>1, <1>2, <1>3, <1>4, <1>5

\* A reset clears the passkeys, and is then to hand out codes.
LEMMA ClearKeeps ==
    ASSUME CredentialsSound, NEW w \in Worker, Credentials!delete_all_credentials(w),
           UNCHANGED <<enrolled, erased, resetting, settled, cut>>
    PROVE  CredentialsSound'
<1>1. /\ request[w].at = "clear" /\ Renews(w)
      /\ UNCHANGED <<user, code, flow, sessions, used_ids, opened, issued>>
      /\ creds' = {k \in creds : k.user # request[w].user} /\ Credentials!To(w, "rotate")
  BY DEF Credentials!delete_all_credentials, Credentials!Cleared, Credentials!ids, Renews
<1>2. /\ request' \in [Worker -> RequestStates]
      /\ request'[w].at = "rotate" /\ request'[w].user = request[w].user
      /\ \A v \in Worker : v # w => request'[v] = request[v]
      /\ \A v \in Worker : InCeremony(v)' => v # w /\ InCeremony(v)
      /\ Ceremonial' /\ IdsFresh' /\ StaysErased'
  BY <1>1, RenewalAside
<1>3. creds' \subseteq creds
  BY <1>1
<1>4. /\ request[w].user = user => creds' = {} /\ Rotating'
      /\ request[w].user # user => creds' = creds
  BY <1>1, <1>2 DEF CredentialsSound, Belonging, Rotating
<1>5. Credentials!TypeOK'
  BY <1>1, <1>2, <1>3, SoundTypes, TypedAgain
<1>6. Belonging'
  BY <1>1, <1>3 DEF CredentialsSound, Belonging
<1>7. Redeemed'
  <2>1. Rotating => Rotating'
    BY <1>1, <1>2 DEF Rotating
  <2>2. \A d : Live(d)' <=> code[d] # None /\ ~ code[d].used
    BY <1>1 DEF Live
  <2>3. \A d : EnrolledBy(d)' <=> \E l \in creds' : <<d, l.by>> \in enrolled'
    BY DEF EnrolledBy
  <2> SUFFICES ASSUME ~ cut', NEW v \in Worker, request'[v].at = "mark",
                      code[request'[v].as.code] # None, ~ code[request'[v].as.code].used
               PROVE  (\E l \in creds' : <<request'[v].as.code, l.by>> \in enrolled') \/ Rotating'
    BY <2>2, <2>3 DEF Redeemed
  <2>4. request'[v] = request[v]
    BY <1>2
  <2>5. EnrolledBy(request[v].as.code) \/ Rotating
    BY <2>4 DEF CredentialsSound, Redeemed, Live
  <2> QED BY <1>4, <2>1, <2>4, <2>5 DEF EnrolledBy
<1>8. WayInComing'
  <2>1. Rotating' => \E v \in Worker : Promises(v)'
    BY DEF Rotating, Promises
  <2> SUFFICES ASSUME request[w].user # user PROVE WayInComing'
    BY <1>4, <2>1 DEF WayInComing
  <2>2. \A v \in Worker : Promises(v) => Promises(v)'
    BY <1>1, <1>2, <1>4 DEF Promises, Passkey
  <2>3. \A b : Whole(b) => Whole(b)'
    BY <1>1, <1>4 DEF Whole, Live, EnrolledBy
  <2> QED BY <1>1, <2>2, <2>3 DEF CredentialsSound, WayInComing
<1>9. ResetUndisturbed'
  BY <1>1, <1>2, <1>4 DEF CredentialsSound, ResetUndisturbed, Renews
<1>10. ResetSettled'
  BY <1>1, <1>2, <1>3 DEF CredentialsSound, ResetSettled, Live
<1> QED
  BY <1>1, <1>2, <1>5, <1>6, <1>7, <1>8, <1>9, <1>10 DEF CredentialsSound

\* A reset drops the unused codes, all that are live if they are of its user.
LEMMA ForgetKeeps ==
    ASSUME CredentialsSound, NEW w \in Worker, Credentials!ForgetUnused(w),
           UNCHANGED <<enrolled, erased, resetting, settled, cut>>
    PROVE  CredentialsSound'
<1> DEFINE unused == Credentials!Unused(request[w].user)
<1>1. /\ request[w].at = "rotate" /\ Renews(w)
      /\ UNCHANGED <<user, creds, flow, sessions, used_ids, opened, issued>>
      /\ code' = [c \in Codes |-> IF c \in unused THEN None ELSE code[c]]
      /\ Credentials!To(w, "issue")
  BY DEF Credentials!ForgetUnused, Credentials!ids, Renews, Codes
<1>2. /\ request' \in [Worker -> RequestStates]
      /\ request'[w].at = "issue" /\ request'[w].user = request[w].user
      /\ \A v \in Worker : v # w => request'[v] = request[v]
      /\ \A v \in Worker : InCeremony(v)' => v # w /\ InCeremony(v)
      /\ Ceremonial' /\ IdsFresh' /\ StaysErased'
  BY <1>1, RenewalAside
<1>3. \A c \in Codes : c \in unused <=> Live(c) /\ code[c].user = request[w].user
  BY DEF Credentials!Unused, Codes, Live
<1> HIDE DEF unused
<1>4. /\ code' \in [Codes -> {None} \union [user : Ids, used : BOOLEAN]]
      /\ \A c \in Codes : code'[c] # None => code'[c] = code[c]
      /\ \A c \in Codes : Live(c)' => Live(c)
  BY <1>1, SoundTypes DEF Live
<1>5. /\ request[w].user = user => \A c \in Codes : ~ Live(c)'
      /\ request[w].user # user => \A c \in Codes : code'[c] = code[c]
  <2>1. ASSUME NEW c \in Codes
        PROVE  /\ request[w].user = user => ~ Live(c)'
               /\ request[w].user # user => code'[c] = code[c]
    <3>1. Live(c) => code[c].user = user
      BY DEF CredentialsSound, Belonging, Live
    <3>2. code'[c] = IF c \in unused THEN None ELSE code[c]
      BY <1>1
    <3> QED BY <1>3, <3>1, <3>2 DEF Live
  <2> QED BY <2>1
<1>6. Credentials!TypeOK'
  BY <1>1, <1>2, <1>4, SoundTypes, TypedAgain
<1>7. Belonging'
  BY <1>1, <1>4 DEF CredentialsSound, Belonging
<1>8. \A v \in Worker : request'[v].at = "mark" => request'[v] = request[v] /\ request[v].as.code \in Codes
  BY <1>2 DEF CredentialsSound, Ceremonial, Redeems, InCeremony, Stages, Credentials!Stages
<1>9. Redeemed'
  <2>1. request[w].user # user /\ Rotating => Rotating'
    BY <1>1, <1>2 DEF Rotating
  <2>2. \A d : EnrolledBy(d) <=> \E l \in creds' : <<d, l.by>> \in enrolled'
    BY <1>1 DEF EnrolledBy
  <2>3. \A d : Live(d)' <=> code'[d] # None /\ ~ code'[d].used
    BY DEF Live
  <2> SUFFICES ASSUME ~ cut', NEW v \in Worker, request'[v].at = "mark",
                      code'[request'[v].as.code] # None, ~ code'[request'[v].as.code].used
               PROVE  (\E l \in creds' : <<request'[v].as.code, l.by>> \in enrolled') \/ Rotating'
    BY <2>3 DEF Redeemed, EnrolledBy
  <2>4. Live(request[v].as.code) /\ request[w].user # user
    BY <1>4, <1>5, <1>8, <2>3
  <2>5. EnrolledBy(request[v].as.code) \/ Rotating
    BY <1>8, <2>4 DEF CredentialsSound, Redeemed
  <2> QED BY <1>8, <2>1, <2>2, <2>4, <2>5
<1>10. WayInComing'
  <2>1. request[w].user = user => Promises(w)'
    BY <1>1, <1>2 DEF Promises
  <2> SUFFICES ASSUME request[w].user # user PROVE WayInComing'
    BY <2>1 DEF WayInComing
  <2>2. \A v \in Worker : Promises(v) => Promises(v)'
    BY <1>1, <1>2 DEF Promises, Passkey
  <2>3. ASSUME NEW b \in Batches, Whole(b) PROVE Whole(b)'
    <3>1. \A s \in Slots : <<b, s>> \in Codes
      BY SoundTypes
    <3> QED BY <1>1, <1>5, <2>3, <3>1 DEF Whole, Live, EnrolledBy
  <2> QED BY <1>1, <2>2, <2>3 DEF CredentialsSound, WayInComing
<1>11. ResetUndisturbed'
  BY <1>1, <1>2, <1>5 DEF CredentialsSound, ResetUndisturbed, Renews
<1>12. ResetSettled'
  <2>1. ResetSettled
    BY DEF CredentialsSound
  <2>2. settled # None => \A d \in Codes : Live(d)' => d[1] = settled
    BY <1>4, <2>1 DEF ResetSettled
  <2> QED BY <1>1, <1>2, <2>1, <2>2 DEF ResetSettled
<1> QED
  BY <1>1, <1>2, <1>6, <1>7, <1>9, <1>10, <1>11, <1>12 DEF CredentialsSound


\* The codes of a registration: no reset is settled while one is under way.
LEMMA HandOutKeeps ==
    ASSUME CredentialsSound, NEW w \in Worker, NEW b \in Batches, Credentials!issue_recovery_codes(w, b),
           UNCHANGED <<enrolled, erased, settled, resetting, cut>>
    PROVE  CredentialsSound'
<1>1. /\ request[w].at = "codes" /\ {"codes", "consume"} \subseteq Stages
      /\ UNCHANGED <<user, used_ids, creds, flow, opened, sessions>>
      /\ Resting \in RequestStates /\ Resting.at = "idle"
  BY DEF Credentials!issue_recovery_codes, Stages, Credentials!Stages, Resting, Credentials!Idle, RequestStates
<1>2. InCeremony(w) /\ request[w].as \in Ceremony /\ request[w].as.kind = "register"
  <2>1. InCeremony(w)
    BY <1>1 DEF InCeremony
  <2> QED BY <1>1, <2>1, CredentialTypes DEF CredentialsSound, Ceremonial
<1>3. CASE user = request[w].as.user
  <2>1. Credentials!Issue(user, b) /\ Credentials!To(w, "consume")
    BY <1>1, <1>3 DEF Credentials!issue_recovery_codes, Credentials!As
  <2>2. /\ request' \in [Worker -> RequestStates]
        /\ request'[w].at = "consume" /\ request'[w].as = request[w].as
        /\ \A v \in Worker : v # w => request'[v] = request[v]
    BY <1>1, <2>1, WentOn DEF CredentialsSound
  <2>3. user # None
    BY <1>2, <1>3, CredentialConstants DEF Ceremony, Credentials!Ceremonies
  <2>4. settled = None
    BY <1>2 DEF CredentialsSound, ResetSettled
  <2>5. ResetSettled'
    BY <2>4 DEF ResetSettled
  <2>6. \A r \in Worker : resetting # r
    BY <1>1 DEF CredentialsSound, ResetUndisturbed, Renews
  <2> QED BY <1>1, <2>1, <2>2, <2>3, <2>5, <2>6, IssueKeeps
<1>4. CASE user # request[w].as.user
  <2>1. Credentials!Put(w, Resting) /\ UNCHANGED <<code, issued>>
    BY <1>1, <1>4 DEF Credentials!issue_recovery_codes, Credentials!As, Resting
  <2>2. /\ request' \in [Worker -> RequestStates] /\ request'[w] = Resting
        /\ \A v \in Worker : v # w => request'[v] = request[v]
    BY <1>1, <2>1, PutThere DEF CredentialsSound
  <2>3. ~ Promises(w)
    BY <1>1, <1>4 DEF Promises
  <2> QED BY <1>1, <2>1, <2>2, <2>3, QuietKeeps, SoundTypes DEF CredentialsSound
<1> QED BY <1>3, <1>4

\* The codes of a reset; if nothing disturbed it, they are all that is left to enroll by.
LEMMA RotateKeeps ==
    ASSUME CredentialsSound, NEW w \in Worker, NEW b \in Batches, Credentials!RotateIssue(w, b),
           UNCHANGED <<enrolled, erased, resetting, cut>>,
           settled' = IF w = resetting /\ issued' # issued
                        THEN CHOOSE c \in issued' : c \notin issued ELSE None
    PROVE  CredentialsSound'
<1>1. /\ request[w].at = "issue"
      /\ UNCHANGED <<user, used_ids, creds, flow, opened, sessions>>
      /\ Resting \in RequestStates /\ Resting.at = "idle" /\ Credentials!Put(w, Resting)
  BY DEF Credentials!RotateIssue, Resting, Credentials!Idle, RequestStates
<1>2. /\ request' \in [Worker -> RequestStates] /\ request'[w] = Resting
      /\ \A v \in Worker : v # w => request'[v] = request[v]
  BY <1>1, PutThere DEF CredentialsSound
<1>3. request[w] \in Renewing
  BY <1>1, CredentialTypes DEF CredentialsSound, Renews
<1>4. CASE user = request[w].user
  <2>1. Credentials!Issue(user, b)
    BY <1>4 DEF Credentials!RotateIssue, Credentials!Reissue
  <2>2. user # None
    BY <1>3, <1>4, CredentialConstants DEF Renewing
  <2>3. /\ issued' = issued \union {b} /\ b \notin issued
        /\ code' = [c \in Codes |-> IF c[1] = b THEN [user |-> user, used |-> FALSE] ELSE code[c]]
    BY <2>1 DEF Credentials!Issue, Codes
  <2>4. w = resetting => settled' = b
    BY <2>3
  <2>5. ResetSettled'
    <3> SUFFICES ASSUME settled' # None PROVE ResetSettled'
      BY DEF ResetSettled
    <3>1. w = resetting /\ settled' = b
      BY <2>4
    <3>2. /\ \A v \in Worker : v # w => request[v].at = "idle"
          /\ \A f \in Row : flow[f] = None
          /\ creds = {} /\ \A c \in Codes : ~ Live(c)
      BY <1>1, <3>1 DEF CredentialsSound, ResetUndisturbed
    <3>3. \A v \in Worker : ~ InCeremony(v)'
      BY <1>1, <1>2, <3>2 DEF InCeremony, Stages, Credentials!Stages
    <3>4. \A c \in Codes : Live(c)' => c[1] = b
      <4>1. \A c \in Codes : c[1] # b => code'[c] = code[c]
        BY <2>3
      <4> QED BY <3>2, <4>1 DEF Live
    <3> QED BY <1>1, <2>2, <3>1, <3>2, <3>3, <3>4 DEF ResetSettled
  <2>6. \A r \in Worker : resetting = r => r = w
    BY <1>1 DEF CredentialsSound, ResetUndisturbed
  <2> QED BY <1>1, <1>2, <2>1, <2>2, <2>5, <2>6, IssueKeeps
<1>5. CASE user # request[w].user
  <2>1. UNCHANGED <<code, issued>>
    BY <1>5 DEF Credentials!RotateIssue
  <2>2. ~ Promises(w)
    BY <1>1, <1>5 DEF Promises, Stages, Credentials!Stages
  <2>3. settled' = None
    BY <2>1
  <2> QED BY <1>1, <1>2, <2>1, <2>2, <2>3, QuietKeeps, SoundTypes DEF CredentialsSound
<1> QED BY <1>4, <1>5

\* The codes of the operator's tool.
LEMMA OperatorKeeps ==
    ASSUME CredentialsSound, NEW b \in Batches, Credentials!OperatorIssue(b),
           UNCHANGED <<enrolled, erased, cut>>, settled' = None, resetting' = None
    PROVE  CredentialsSound'
<1>1. /\ user # None /\ Credentials!Issue(user, b)
      /\ UNCHANGED <<user, used_ids, creds, flow, opened, sessions, request>>
  BY DEF Credentials!OperatorIssue
<1>2. ResetSettled'
  BY DEF ResetSettled
<1> QED BY <1>1, <1>2, IssueKeeps, SoundTypes, CredentialConstants


-----------------------------------------------------------------------------
(* Every step keeps what is known *)

\* The flow of a ceremony that is over, and the session: nothing is lost.
LEMMA EndingKeeps ==
    ASSUME CredentialsSound, NEW w \in Worker,
           Credentials!ConsumeFlow(w) \/ Credentials!create_session(w),
           UNCHANGED <<enrolled, erased, resetting, settled, cut>>
    PROVE  CredentialsSound'
<1>1. /\ {"consume", "session", "erase"} \subseteq Stages /\ Resting \in RequestStates
      /\ UNCHANGED <<user, used_ids, creds, code, opened, issued>>
  BY DEF Credentials!ConsumeFlow, Credentials!create_session, Credentials!ids, Stages, Credentials!Stages,
         Resting, RequestStates
<1>2. ~ Promises(w)
  BY DEF Promises, Credentials!ConsumeFlow, Credentials!create_session
<1>3. CASE Credentials!ConsumeFlow(w)
  <2> DEFINE next == IF request[w].as.kind = "delete" THEN "erase" ELSE "session"
  <2>1. /\ request[w].at = "consume" /\ Credentials!To(w, next) /\ UNCHANGED sessions
        /\ flow' = [flow EXCEPT ![request[w].flow] = None] \/ UNCHANGED flow
    BY <1>3 DEF Credentials!ConsumeFlow, Credentials!As
  <2>2. next \in {"erase", "session"} /\ next \in Stages
    BY <1>1
  <2> HIDE DEF next
  <2>3. /\ request' \in [Worker -> RequestStates]
        /\ request'[w].at = next /\ request'[w].as = request[w].as
        /\ \A v \in Worker : v # w => request'[v] = request[v]
    BY <1>1, <2>1, <2>2, WentOn DEF CredentialsSound
  <2>4. flow' \in [Row -> Ceremony \union {None}] /\ \A f \in Row : flow'[f] \in {flow[f], None}
    BY <2>1, SoundTypes
  <2>5. \A v \in Worker :
           \/ request'[v] = request[v]
           \/ /\ request[v].at \in Stages /\ request'[v].at \in {"session", "erase"}
              /\ request'[v].as = request[v].as
    BY <1>1, <2>1, <2>2, <2>3
  <2> QED BY <1>1, <1>2, <2>1, <2>3, <2>4, <2>5, QuietKeeps, SoundTypes DEF CredentialsSound
<1>4. CASE Credentials!create_session(w)
  <2>1. /\ sessions' = sessions \union ({request[w].as.user} \intersect {user}) /\ UNCHANGED flow
        /\ request[w].at = "session" /\ Credentials!Put(w, Resting)
    BY <1>4 DEF Credentials!create_session, Resting, Credentials!As
  <2>2. /\ request' \in [Worker -> RequestStates] /\ request'[w] = Resting
        /\ \A v \in Worker : v # w => request'[v] = request[v]
    BY <1>1, <2>1, PutThere DEF CredentialsSound
  <2>3. sessions' \subseteq Ids
    <3>1. InCeremony(w)
      BY <1>1, <2>1 DEF InCeremony
    <3>2. request[w].as.user \in Ids
      BY <3>1, CredentialTypes DEF CredentialsSound, Ceremony, Credentials!Ceremonies
    <3> QED BY <2>1, <3>2, SoundTypes
  <2> QED BY <1>1, <1>2, <2>1, <2>2, <2>3, QuietKeeps, SoundTypes DEF CredentialsSound
<1> QED BY <1>3, <1>4

LEMMA GoingKeeps ==
    ASSUME CredentialsSound, FlowsOnce, NEW w \in Worker, Credentials!Goes(w)
    PROVE  CredentialsSound'
<1> DEFINE at == request[w].at
<1>1. /\ UNCHANGED <<resetting, cut>>
      /\ erased' = IF at = "erase" /\ \A v \in Credentials!Busy : request[v].at # "user"
                     THEN erased \union {request[w].as.user} ELSE erased
      /\ settled' = IF at = "erase" THEN None
                    ELSE IF at # "issue" THEN settled
                    ELSE IF w = resetting /\ issued' # issued
                           THEN CHOOSE b \in issued' : b \notin issued ELSE None
      /\ enrolled' = IF at = "credential" /\ creds' # creds /\ request[w].as.kind = "recovery"
                       THEN enrolled \union {<<request[w].as.code, request[w].flow>>} ELSE enrolled
  BY DEF Credentials!Goes, Credentials!As
<1>2. CASE Credentials!InsertUser(w)
  <2>1. at = "user"
    BY <1>2 DEF Credentials!InsertUser
  <2> QED BY <1>1, <1>2, <2>1, InsertKeeps
<1>3. CASE Credentials!store_new_credential(w)
  <2>1. at = "credential"
    BY <1>3 DEF Credentials!store_new_credential
  <2> QED BY <1>1, <1>3, <2>1, StoreKeeps
<1>4. CASE Credentials!mark_code_used(w)
  <2>1. at = "mark"
    BY <1>4 DEF Credentials!mark_code_used
  <2> QED BY <1>1, <1>4, <2>1, MarkKeeps
<1>5. CASE Credentials!ConsumeFlow(w) \/ Credentials!create_session(w)
  <2>1. at \in {"consume", "session"}
    BY <1>5 DEF Credentials!ConsumeFlow, Credentials!create_session
  <2> QED BY <1>1, <1>5, <2>1, EndingKeeps
<1>6. CASE Credentials!delete_user_data(w)
  <2>1. at = "erase"
    BY <1>6 DEF Credentials!delete_user_data
  <2> QED BY <1>1, <1>6, <2>1, EraseKeeps
<1>7. CASE Credentials!delete_all_credentials(w)
  <2>1. at = "clear"
    BY <1>7 DEF Credentials!delete_all_credentials
  <2> QED BY <1>1, <1>7, <2>1, ClearKeeps
<1>8. CASE Credentials!ForgetUnused(w)
  <2>1. at = "rotate"
    BY <1>8 DEF Credentials!ForgetUnused
  <2> QED BY <1>1, <1>8, <2>1, ForgetKeeps
<1>9. ASSUME NEW b \in Batches, Credentials!issue_recovery_codes(w, b)
      PROVE  CredentialsSound'
  <2>1. at = "codes"
    BY <1>9 DEF Credentials!issue_recovery_codes
  <2> QED BY <1>1, <1>9, <2>1, HandOutKeeps
<1>10. ASSUME NEW b \in Batches, Credentials!RotateIssue(w, b)
       PROVE  CredentialsSound'
  <2>1. at = "issue"
    BY <1>10 DEF Credentials!RotateIssue
  <2> QED BY <1>1, <1>10, <2>1, RotateKeeps
<1> QED
  BY <1>2, <1>3, <1>4, <1>5, <1>6, <1>7, <1>8, <1>9, <1>10 DEF Credentials!Goes, Credentials!Advancing

\* A ceremony begins with what is there, or takes up what its flow holds.
LEMMA StartKeeps ==
    ASSUME CredentialsSound, NEW w \in Worker, NEW c \in Ceremony, Credentials!Start(w, c),
           UNCHANGED <<opened, issued, enrolled, erased, settled, cut>>, resetting' = None,
           Redeems(c), c.user \in used_ids', settled # None => c.kind # "register",
           settled # None /\ c.kind = "recovery" => c.code[1] = settled,
           IF c.kind = "register" THEN c.user \notin used_ids /\ used_ids' = used_ids \union {c.user}
           ELSE c.user = user /\ UNCHANGED used_ids
    PROVE  CredentialsSound'
<1> DEFINE r == [at |-> "open", as |-> c]
<1>1. /\ r \in RequestStates /\ r.at = "open" /\ r.as = c
      /\ request[w] = Resting /\ Credentials!Put(w, r)
      /\ UNCHANGED <<user, creds, code, flow, sessions>>
  BY DEF RequestStates, Opening, Credentials!Start, Resting, Credentials!tables
<1>2. IdsFresh
  BY DEF CredentialsSound
<1>3. used_ids \subseteq used_ids' /\ used_ids' \subseteq Ids
  BY SoundTypes DEF Ceremony, Credentials!Ceremonies
<1>4. \A v \in Worker : v # w /\ Unborn(v) => request[v].as.user # c.user
  BY <1>2 DEF IdsFresh, Unborn, InCeremony
<1> HIDE DEF r
<1> QED BY <1>1, <1>3, <1>4, BeginningKeeps


LEMMA FinishKeeps ==
    ASSUME CredentialsSound, NEW w \in Worker, NEW f \in Row, Credentials!Finish(w, f),
           UNCHANGED <<enrolled, erased, settled, cut>>, resetting' = None
    PROVE  CredentialsSound'
<1> DEFINE c == flow[f]
           stage == Credentials!FirstStage(c.kind)
           r == [at |-> stage, flow |-> f, as |-> c]
<1>1. /\ request[w] = Resting /\ c # None /\ Credentials!Put(w, r)
      /\ UNCHANGED <<user, used_ids, creds, code, flow, sessions, opened, issued>>
  BY DEF Credentials!Finish, Resting, Credentials!tables, Credentials!ids
<1>2. c \in Ceremony
  BY <1>1, SoundTypes
<1>3. /\ stage \in Stages /\ stage \notin {"mark", "codes"}
      /\ stage = "user" => c.kind = "register"
      /\ stage = "credential" => c.kind = "recovery"
  <2>1. /\ c.kind = "register" => stage = "user"
        /\ c.kind = "recovery" => stage = "credential"
        /\ c.kind \notin {"register", "recovery"} => stage = "consume"
    BY DEF Credentials!FirstStage
  <2> HIDE DEF c, stage
  <2> QED BY <2>1 DEF Stages, Credentials!Stages
<1>4. r.at = stage /\ r.as = c /\ r \in RequestStates
  <2> HIDE DEF c, stage
  <2> QED BY <1>2, <1>3 DEF RequestStates, Staged
<1>5. Redeems(c) /\ c.user \in used_ids
  BY <1>1 DEF CredentialsSound, Ceremonial, IdsFresh
<1>6. \A v \in Worker : v # w /\ Unborn(v) => request[v].as.user # c.user
  BY <1>1 DEF CredentialsSound, IdsFresh
<1>7. stage = "user" => c.user \notin erased
  BY <1>1, <1>3 DEF CredentialsSound, StaysErased
<1>8. settled # None => c.kind # "register" /\ (c.kind = "recovery" => c.code[1] = settled)
  BY <1>1 DEF CredentialsSound, ResetSettled
<1>9. stage # "open" /\ used_ids \subseteq used_ids' /\ used_ids' \subseteq Ids
  BY <1>1, <1>3, SoundTypes DEF Stages, Credentials!Stages
<1> HIDE DEF c, stage, r
<1> QED BY <1>1, <1>3, <1>4, <1>5, <1>6, <1>7, <1>8, <1>9, BeginningKeeps

LEMMA ResetKeeps ==
    ASSUME CredentialsSound, NEW w \in Worker, Credentials!reset_credentials(w),
           UNCHANGED <<enrolled, erased, settled, cut>>,
           resetting' = IF Credentials!Busy \union Credentials!Open = {} THEN w ELSE None
    PROVE  CredentialsSound'
<1> DEFINE r == [at |-> "clear", user |-> user]
<1>1. /\ user # None /\ request[w] = Resting /\ Credentials!Put(w, r)
      /\ UNCHANGED <<user, used_ids, creds, code, flow, sessions, opened, issued>>
      /\ r.at = "clear" /\ r.user = user
  BY DEF Credentials!reset_credentials, Resting, Credentials!tables, Credentials!ids
<1>2. r \in RequestStates
  BY <1>1, SoundTypes DEF RequestStates, Renewing
<1>3. resetting' # None =>
        resetting' = w /\ (\A v \in Worker : request[v] = Resting) /\ \A f \in Row : flow[f] = None
  BY DEF Credentials!Busy, Credentials!Open, Resting
<1>4. "clear" \notin Stages /\ used_ids' \subseteq Ids
  BY <1>1, SoundTypes DEF Stages, Credentials!Stages
<1> HIDE DEF r
<1> QED BY <1>1, <1>2, <1>3, <1>4, BeginningKeeps

\* The rest of a beginning, by what it starts.
LEMMA BeginsKeeps ==
    ASSUME CredentialsSound, NEW w \in Worker, Credentials!Begins(w)
    PROVE  CredentialsSound'
<1>1. /\ UNCHANGED <<erased, settled, enrolled, cut>>
      /\ resetting' = IF Credentials!Busy \union Credentials!Open = {} /\ request'[w].at = "clear"
                        THEN w ELSE None
  BY DEF Credentials!Begins
<1>2. ASSUME NEW r \in RequestStates, Credentials!Put(w, r)
      PROVE  request'[w] = r
  BY <1>2, PutThere DEF CredentialsSound
<1>3. ASSUME NEW c \in Ceremony, Credentials!Start(w, c)
      PROVE  resetting' = None
  <2> DEFINE r == [at |-> "open", as |-> c]
  <2>1. r \in RequestStates /\ r.at = "open" /\ Credentials!Put(w, r)
    BY <1>3 DEF RequestStates, Opening, Credentials!Start
  <2> HIDE DEF r
  <2> QED BY <1>1, <1>2, <2>1
<1>4. ASSUME NEW rp \in Credentials!Rps, NEW u \in Ids, Credentials!register_start(w, u, rp)
      PROVE  CredentialsSound'
  <2> DEFINE c == Credentials!Challenge("register", u, rp, None)
  <2>1. /\ c \in Ceremony /\ c.kind = "register" /\ c.user = u /\ Redeems(c)
    BY DEF Credentials!Challenge, Ceremony, Credentials!Ceremonies, Credentials!Kinds, Redeems
  <2>2. /\ user = None /\ u \notin used_ids /\ used_ids' = used_ids \union {u}
        /\ Credentials!Start(w, c) /\ UNCHANGED <<opened, issued>>
    BY <1>4 DEF Credentials!register_start
  <2>3. settled = None
    BY <2>2 DEF CredentialsSound, ResetSettled
  <2> HIDE DEF c
  <2> QED BY <1>1, <1>3, <2>1, <2>2, <2>3, StartKeeps
<1>5. ASSUME NEW rp \in Credentials!Rps, NEW kind \in {"login", "delete"}, user \in Ids,
             Credentials!Start(w, Credentials!Challenge(kind, user, rp, None)), UNCHANGED <<used_ids, opened, issued>>
      PROVE  CredentialsSound'
  <2> DEFINE c == Credentials!Challenge(kind, user, rp, None)
  <2>1. c \in Ceremony /\ c.kind = kind /\ c.user = user /\ Redeems(c)
    BY <1>5 DEF Credentials!Challenge, Ceremony, Credentials!Ceremonies, Credentials!Kinds, Redeems
  <2>2. user \in used_ids
    BY <1>5, CredentialConstants DEF CredentialsSound, IdsFresh
  <2> HIDE DEF c
  <2>3. Credentials!Start(w, c)
    BY <1>5 DEF c
  <2> QED BY <1>1, <1>3, <1>5, <2>1, <2>2, <2>3, StartKeeps
<1>6. ASSUME NEW rp \in Credentials!Rps, NEW spare \in Codes, Credentials!recovery_start(w, rp, spare)
      PROVE  CredentialsSound'
  <2> DEFINE c == Credentials!Challenge("recovery", user, rp, spare)
  <2>1. /\ user \in Ids /\ Live(spare) /\ Credentials!Start(w, c) /\ UNCHANGED <<used_ids, opened, issued>>
    BY <1>6, SoundTypes DEF Credentials!recovery_start, Credentials!Unused, Live, Credentials!ids
  <2>2. c \in Ceremony /\ c.kind = "recovery" /\ c.user = user /\ c.code = spare
    BY <2>1 DEF Credentials!Challenge, Ceremony, Credentials!Ceremonies, Credentials!Kinds, Codes
  <2>3. spare[1] \in issued /\ user \in used_ids /\ (settled # None => spare[1] = settled)
    BY <2>1, CredentialConstants DEF CredentialsSound, Belonging, IdsFresh, ResetSettled, Live
  <2> HIDE DEF c
  <2> QED BY <1>1, <1>3, <2>1, <2>2, <2>3, StartKeeps DEF Redeems
<1>7. ASSUME NEW f \in Row, Credentials!OpenFlow(w, f)
      PROVE  CredentialsSound'
  <2>1. Credentials!Put(w, Resting) /\ Resting \in RequestStates /\ Resting.at # "clear"
    BY <1>7 DEF Credentials!OpenFlow, Resting, RequestStates, Credentials!Idle
  <2> QED BY <1>1, <1>2, <1>7, <2>1, OpeningKeeps
<1>8. ASSUME NEW f \in Row, Credentials!Finish(w, f)
      PROVE  CredentialsSound'
  <2>1. f \in Credentials!Open
    BY <1>8 DEF Credentials!Finish, Credentials!Open
  <2> QED BY <1>1, <1>8, <2>1, FinishKeeps
<1>9. CASE Credentials!reset_credentials(w)
  <2> DEFINE r == [at |-> "clear", user |-> user]
  <2>1. Credentials!Put(w, r) /\ r \in RequestStates /\ r.at = "clear"
    BY <1>9, SoundTypes DEF Credentials!reset_credentials, RequestStates, Renewing
  <2>2. request'[w].at = "clear"
    <3> HIDE DEF r
    <3> QED BY <1>2, <2>1
  <2> QED BY <1>1, <1>9, <2>2, ResetKeeps
<1>10. ASSUME NEW rp \in Credentials!Rps, Credentials!login_start(w, rp) \/ Credentials!delete_challenge(w, rp)
       PROVE  CredentialsSound'
  <2>1. user \in Ids /\ UNCHANGED <<used_ids, opened, issued>>
    BY <1>10, SoundTypes DEF Credentials!login_start, Credentials!delete_challenge, Credentials!ids
  <2>2. \E kind \in {"login", "delete"} : Credentials!Start(w, Credentials!Challenge(kind, user, rp, None))
    BY <1>10 DEF Credentials!login_start, Credentials!delete_challenge
  <2> QED BY <1>5, <2>1, <2>2
<1> QED
  BY <1>4, <1>6, <1>7, <1>8, <1>9, <1>10 DEF Credentials!Begins, Credentials!Starting, Codes


\* A request that goes on keeps its flow, one that begins takes what its flow holds.
LEMMA FlowsKept ==
    ASSUME Credentials!TypeOK, FlowsOnce, NEW w \in Worker,
           UNCHANGED opened, \A f \in Row : flow'[f] \in {flow[f], None},
           \A v \in Worker : v # w => request'[v] = request[v],
           request'[w].at \in Stages =>
             \/ /\ request[w].at \in Stages
                /\ request'[w].flow = request[w].flow /\ request'[w].as = request[w].as
             \/ /\ request'[w].flow \in Row /\ request'[w].as # None
                /\ flow[request'[w].flow] = request'[w].as
    PROVE  FlowsOnce'
<1>1. \A v \in Worker : request[v].at \in Stages => request[v].flow \in Row
  BY CredentialTypes DEF Staged
<1>2. ASSUME NEW v \in Worker, request'[v].at \in Stages
      PROVE  /\ request'[v].flow \in Row /\ request'[v].flow \in opened
             /\ flow[request'[v].flow] \in {request'[v].as, None}
             /\ \/ /\ request[v].at \in Stages
                   /\ request'[v].flow = request[v].flow /\ request'[v].as = request[v].as
                \/ request'[v].as # None /\ flow[request'[v].flow] = request'[v].as
  <2>1. CASE v = w
    BY <1>1, <1>2, <2>1 DEF FlowsOnce
  <2>2. CASE v # w
    BY <1>1, <1>2, <2>2 DEF FlowsOnce
  <2> QED BY <2>1, <2>2
<1>3. ASSUME NEW v \in Worker, NEW x \in Worker, request'[v].at \in Stages, request'[x].at \in Stages,
             request'[v].flow = request'[x].flow
      PROVE  request'[v].as = request'[x].as
  BY <1>2, <1>3 DEF FlowsOnce
<1>4. \A f \in Row : flow'[f] # None => f \in opened
  BY DEF FlowsOnce
<1> QED BY <1>2, <1>3, <1>4 DEF FlowsOnce

LEMMA FlowsPut ==
    ASSUME Credentials!TypeOK, FlowsOnce, NEW w \in Worker, NEW r \in RequestStates,
           Credentials!Put(w, r), r.at \notin Stages,
           UNCHANGED opened, \A f \in Row : flow'[f] \in {flow[f], None}
    PROVE  FlowsOnce'
<1>1. request'[w] = r /\ \A v \in Worker : v # w => request'[v] = request[v]
  BY PutThere
<1> QED BY <1>1, FlowsKept

LEMMA FlowsTo ==
    ASSUME Credentials!TypeOK, FlowsOnce, NEW w \in Worker, NEW stage \in Stages,
           request[w].at \in Stages, Credentials!To(w, stage),
           UNCHANGED opened, \A f \in Row : flow'[f] \in {flow[f], None}
    PROVE  FlowsOnce'
<1>1. /\ request'[w].as = request[w].as /\ request'[w].flow = request[w].flow
      /\ \A v \in Worker : v # w => request'[v] = request[v]
  BY WentOn
<1> QED BY <1>1, FlowsKept

LEMMA FlowsNext ==
    ASSUME Credentials!TypeOK, FlowsOnce, Credentials!MCNext
    PROVE  FlowsOnce'
<1>1. /\ Resting \in RequestStates /\ Resting.at \notin Stages
      /\ {"user", "credential", "codes", "mark", "consume", "session", "erase"} = Stages
      /\ {"idle", "open", "clear", "rotate", "issue"} \intersect Stages = {}
  BY DEF Resting, Credentials!Idle, RequestStates, Stages, Credentials!Stages
<1>2. ASSUME NEW w \in Worker, Credentials!Put(w, Resting), UNCHANGED opened,
             \A f \in Row : flow'[f] \in {flow[f], None}
      PROVE  FlowsOnce'
  BY <1>1, <1>2, FlowsPut
<1>3. ASSUME NEW w \in Worker, NEW c \in Ceremony, Credentials!Start(w, c), UNCHANGED opened
      PROVE  FlowsOnce'
  <2> DEFINE r == [at |-> "open", as |-> c]
  <2>1. r \in RequestStates /\ r.at = "open" /\ Credentials!Put(w, r) /\ UNCHANGED flow
    BY <1>3 DEF RequestStates, Opening, Credentials!Start, Credentials!tables
  <2> HIDE DEF r
  <2> QED BY <1>1, <1>3, <2>1, FlowsPut
<1>4. ASSUME NEW w \in Worker, Renews(w), NEW stage \in {"rotate", "issue"}, Credentials!To(w, stage),
             UNCHANGED <<opened, flow>>
      PROVE  FlowsOnce'
  <2>1. request'[w].at = stage /\ \A v \in Worker : v # w => request'[v] = request[v]
    BY <1>4, RenewalWentOn
  <2> QED BY <1>1, <1>4, <2>1, FlowsKept
<1>5. ASSUME NEW w \in Worker, Credentials!Starting(w)
      PROVE  FlowsOnce'
  <2>1. ASSUME NEW rp \in Credentials!Rps, NEW u \in Ids, Credentials!register_start(w, u, rp)
        PROVE  FlowsOnce'
    <3>1. Credentials!Challenge("register", u, rp, None) \in Ceremony
      BY DEF Credentials!Challenge, Ceremony, Credentials!Ceremonies, Credentials!Kinds
    <3> QED BY <1>3, <2>1, <3>1 DEF Credentials!register_start
  <2>2. ASSUME NEW rp \in Credentials!Rps, Credentials!login_start(w, rp) \/ Credentials!delete_challenge(w, rp)
        PROVE  FlowsOnce'
    <3>1. user \in Ids
      BY <2>2 DEF Credentials!login_start, Credentials!delete_challenge, Credentials!TypeOK
    <3>2. \A kind \in {"login", "delete"} : Credentials!Challenge(kind, user, rp, None) \in Ceremony
      BY <3>1 DEF Credentials!Challenge, Ceremony, Credentials!Ceremonies, Credentials!Kinds
    <3> QED
      BY <1>3, <2>2, <3>2 DEF Credentials!login_start, Credentials!delete_challenge, Credentials!ids
  <2>3. ASSUME NEW rp \in Credentials!Rps, NEW c \in Codes, Credentials!recovery_start(w, rp, c)
        PROVE  FlowsOnce'
    <3>1. user \in Ids
      BY <2>3 DEF Credentials!recovery_start, Credentials!TypeOK
    <3>2. Credentials!Challenge("recovery", user, rp, c) \in Ceremony
      BY <3>1 DEF Credentials!Challenge, Ceremony, Credentials!Ceremonies, Credentials!Kinds, Codes
    <3> QED BY <1>3, <2>3, <3>2 DEF Credentials!recovery_start, Credentials!ids
  <2>4. ASSUME NEW f \in Row, Credentials!OpenFlow(w, f)
        PROVE  FlowsOnce'
    <3>1. /\ request[w].at = "open" /\ f \notin opened /\ opened' = opened \union {f}
          /\ flow' = [flow EXCEPT ![f] = request[w].as] /\ Credentials!Put(w, Resting)
      BY <2>4 DEF Credentials!OpenFlow, Resting
    <3>2. request'[w] = Resting /\ \A v \in Worker : v # w => request'[v] = request[v]
      BY <1>1, <3>1, PutThere
    <3>3. flow \in [Row -> Ceremony \union {None}]
      BY DEF Credentials!TypeOK, Ceremony
    <3>4. \A v \in Worker : request[v].at \in Stages => request[v].flow \in Row
      BY CredentialTypes DEF Staged
    <3>5. \A g \in Row : g # f => flow'[g] = flow[g]
      BY <3>1, <3>3
    <3>6. \A v \in Worker : request'[v].at \in Stages =>
            request'[v] = request[v] /\ request[v].flow # f /\ request[v].flow \in Row
      BY <1>1, <3>1, <3>2, <3>4 DEF FlowsOnce
    <3> QED BY <3>1, <3>5, <3>6 DEF FlowsOnce
  <2>5. ASSUME NEW f \in Row, Credentials!Finish(w, f)
        PROVE  FlowsOnce'
    <3> DEFINE r == [at |-> Credentials!FirstStage(flow[f].kind), flow |-> f, as |-> flow[f]]
    <3>1. /\ flow[f] # None /\ Credentials!Put(w, r) /\ UNCHANGED <<flow, opened>>
          /\ r.flow = f /\ r.as = flow[f]
      BY <2>5 DEF Credentials!Finish, Credentials!tables, Credentials!ids
    <3>2. r \in RequestStates
      <4>1. Credentials!FirstStage(flow[f].kind) \in Stages
        <5>1. \A kind : Credentials!FirstStage(kind) \in {"user", "credential", "consume"}
          BY DEF Credentials!FirstStage
        <5> QED BY <1>1, <5>1
      <4>2. flow[f] \in Ceremony
        BY <3>1 DEF Credentials!TypeOK, Ceremony
      <4> HIDE DEF Credentials!FirstStage
      <4> QED BY <4>1, <4>2 DEF RequestStates, Staged
    <3> HIDE DEF r
    <3>3. request'[w] = r /\ \A v \in Worker : v # w => request'[v] = request[v]
      BY <3>1, <3>2, PutThere
    <3> QED BY <3>1, <3>3, FlowsKept
  <2>6. CASE Credentials!reset_credentials(w)
    <3> DEFINE r == [at |-> "clear", user |-> user]
    <3>1. r \in RequestStates /\ r.at = "clear" /\ Credentials!Put(w, r) /\ UNCHANGED <<flow, opened>>
      BY <2>6 DEF Credentials!reset_credentials, RequestStates, Renewing, Credentials!TypeOK,
                  Credentials!tables, Credentials!ids
    <3> HIDE DEF r
    <3> QED BY <1>1, <3>1, FlowsPut
  <2> QED BY <1>5, <2>1, <2>2, <2>3, <2>4, <2>5, <2>6 DEF Credentials!Starting, Codes
<1>6. ASSUME NEW w \in Worker, Credentials!Advancing(w)
      PROVE  FlowsOnce'
  <2>1. CASE Credentials!InsertUser(w)
    <3>1. request[w].at = "user" /\ UNCHANGED <<flow, opened>>
          /\ (Credentials!To(w, "credential") \/ Credentials!Put(w, Resting))
      BY <2>1 DEF Credentials!InsertUser, Credentials!ids, Resting
    <3> QED BY <1>1, <1>2, <3>1, FlowsTo
  <2>2. CASE Credentials!store_new_credential(w)
    <3> DEFINE next == IF request[w].as.kind = "register" THEN "codes" ELSE "mark"
    <3>1. request[w].at = "credential" /\ UNCHANGED <<flow, opened>> /\ next \in Stages
          /\ (Credentials!To(w, next) \/ Credentials!Put(w, Resting))
      BY <1>1, <2>2 DEF Credentials!store_new_credential, Credentials!ids, Credentials!As, Resting
    <3> HIDE DEF next
    <3> QED BY <1>1, <1>2, <3>1, FlowsTo
  <2>3. CASE Credentials!mark_code_used(w)
    BY <1>1, <2>3, FlowsTo DEF Credentials!mark_code_used, Credentials!ids
  <2>4. CASE Credentials!ConsumeFlow(w)
    <3> DEFINE next == IF request[w].as.kind = "delete" THEN "erase" ELSE "session"
    <3>1. /\ request[w].at = "consume" /\ next \in Stages /\ Credentials!To(w, next) /\ UNCHANGED opened
          /\ flow' = [flow EXCEPT ![request[w].flow] = None] \/ UNCHANGED flow
      BY <1>1, <2>4 DEF Credentials!ConsumeFlow, Credentials!As, Credentials!ids
    <3>2. \A f \in Row : flow'[f] \in {flow[f], None}
      BY <3>1 DEF Credentials!TypeOK
    <3> HIDE DEF next
    <3> QED BY <1>1, <3>1, <3>2, FlowsTo
  <2>5. CASE Credentials!create_session(w)
    BY <1>2, <2>5 DEF Credentials!create_session, Credentials!ids, Resting
  <2>6. CASE Credentials!delete_user_data(w)
    <3>1. \A f \in Row : flow'[f] \in {flow[f], None}
      BY <2>6 DEF Credentials!delete_user_data, Credentials!FlowsWithout
    <3> QED BY <1>2, <2>6, <3>1 DEF Credentials!delete_user_data, Credentials!ids, Resting
  <2>7. CASE Credentials!delete_all_credentials(w)
    BY <1>4, <2>7 DEF Credentials!delete_all_credentials, Credentials!ids, Renews
  <2>8. CASE Credentials!ForgetUnused(w)
    BY <1>4, <2>8 DEF Credentials!ForgetUnused, Credentials!ids, Renews
  <2>9. ASSUME NEW b \in Batches, Credentials!issue_recovery_codes(w, b)
        PROVE  FlowsOnce'
    <3>1. request[w].at = "codes" /\ UNCHANGED <<flow, opened>>
          /\ (Credentials!To(w, "consume") \/ Credentials!Put(w, Resting))
      BY <2>9 DEF Credentials!issue_recovery_codes, Resting
    <3> QED BY <1>1, <1>2, <3>1, FlowsTo
  <2>10. ASSUME NEW b \in Batches, Credentials!RotateIssue(w, b)
         PROVE  FlowsOnce'
    BY <1>2, <2>10 DEF Credentials!RotateIssue, Resting
  <2> QED
    BY <1>6, <2>1, <2>2, <2>3, <2>4, <2>5, <2>6, <2>7, <2>8, <2>9, <2>10 DEF Credentials!Advancing
<1>7. ASSUME NEW w \in Worker, Credentials!Fails(w)
      PROVE  FlowsOnce'
  BY <1>2, <1>7 DEF Credentials!Fails, Credentials!tables, Credentials!ids, Resting
<1>8. CASE Credentials!Meanwhile
  <2>1. /\ UNCHANGED <<request, opened>>
        /\ UNCHANGED flow \/ \E f \in Row : flow' = [flow EXCEPT ![f] = None]
    BY <1>8 DEF Credentials!Meanwhile, Credentials!logout, Credentials!ExpireFlow, Credentials!OperatorIssue,
                Credentials!ids
  <2>2. \A f \in Row : flow'[f] \in {flow[f], None}
    BY <2>1 DEF Credentials!TypeOK
  <2>3. \A v \in Worker : request[v].at \in Stages => request[v].flow \in Row
    BY CredentialTypes DEF Staged
  <2> QED BY <2>1, <2>2, <2>3 DEF FlowsOnce
<1> QED
  BY <1>5, <1>6, <1>7, <1>8 DEF Credentials!MCNext, Credentials!Begins, Credentials!Goes, Credentials!Stops


LEMMA CredentialsNextKeeps ==
    ASSUME CredentialsSound, FlowsOnce, Credentials!MCNext
    PROVE  CredentialsSound'
<1>1. ASSUME NEW w \in Worker, Credentials!Stops(w)
      PROVE  CredentialsSound'
  <2>1. /\ Credentials!Put(w, Resting) /\ Resting \in RequestStates /\ cut' = TRUE
        /\ UNCHANGED <<user, creds, code, flow, sessions, used_ids, opened, issued>>
        /\ UNCHANGED <<erased, resetting, settled, enrolled>>
    BY <1>1 DEF Credentials!Stops, Credentials!Fails, Credentials!tables, Credentials!ids, Resting, RequestStates
  <2>2. /\ request' \in [Worker -> RequestStates] /\ request'[w] = Resting
        /\ \A v \in Worker : v # w => request'[v] = request[v]
    BY <2>1, PutThere DEF CredentialsSound
  <2> QED BY <2>1, <2>2, QuietKeeps, SoundTypes
<1>2. CASE (\E u \in sessions : Credentials!logout(u)) /\ UNCHANGED <<enrolled, erased, resetting, settled, cut>>
  <2>1. /\ sessions' \subseteq sessions
        /\ UNCHANGED <<user, used_ids, creds, code, flow, opened, issued, request>>
    BY <1>2 DEF Credentials!logout, Credentials!ids
  <2> QED BY <1>2, <2>1, QuietKeeps, SoundTypes DEF CredentialsSound
<1>3. CASE (\E f \in Row : Credentials!ExpireFlow(f)) /\ UNCHANGED <<enrolled, erased, resetting, settled, cut>>
  <2>1. /\ \E f \in Row : flow' = [flow EXCEPT ![f] = None]
        /\ UNCHANGED <<user, used_ids, creds, code, sessions, opened, issued, request>>
    BY <1>3 DEF Credentials!ExpireFlow, Credentials!ids
  <2>2. flow' \in [Row -> Ceremony \union {None}] /\ \A f \in Row : flow'[f] \in {flow[f], None}
    BY <2>1, SoundTypes
  <2> QED BY <1>3, <2>1, <2>2, QuietKeeps, SoundTypes DEF CredentialsSound
<1>4. CASE Credentials!Meanwhile
  <2>1. ASSUME NEW b \in Batches, Credentials!OperatorIssue(b), settled' = None, resetting' = None,
               UNCHANGED <<erased, enrolled, cut>>
        PROVE  CredentialsSound'
    BY <2>1, OperatorKeeps
  <2> QED BY <1>2, <1>3, <1>4, <2>1 DEF Credentials!Meanwhile, Credentials!histories
<1> QED BY <1>1, <1>4, BeginsKeeps, GoingKeeps DEF Credentials!MCNext

-----------------------------------------------------------------------------
(* Of the behaviours of MCRecords that show the credentials *)

RecordsSound == part = "credentials" => CredentialsSound /\ FlowsOnce

LEMMA CredentialsStart ==
    ASSUME Credentials!MCInit
    PROVE  CredentialsSound /\ FlowsOnce
<1>1. /\ user = None /\ used_ids = {} /\ creds = {} /\ opened = {} /\ issued = {} /\ sessions = {}
      /\ code = [c \in Codes |-> None] /\ flow = [f \in Row |-> None]
      /\ request = [w \in Worker |-> Resting]
      /\ erased = {} /\ resetting = None /\ settled = None /\ enrolled = {} /\ cut = FALSE
  BY DEF Credentials!MCInit, Credentials!Init, Codes, Resting
<1>2. /\ \A w \in Worker : request[w].at = "idle"
      /\ \A c \in Codes : code[c] = None
      /\ "idle" \notin Stages
  BY <1>1 DEF Resting, Credentials!Idle, Stages, Credentials!Stages
<1>3. Credentials!TypeOK
  BY <1>1 DEF Credentials!TypeOK, Codes, Resting
<1>4. \A w \in Worker : ~ InCeremony(w) /\ ~ Unborn(w)
  BY <1>2 DEF InCeremony, Unborn
<1>5. Belonging /\ Ceremonial /\ Redeemed
  BY <1>1, <1>2, <1>4 DEF Belonging, Ceremonial, Redeemed
<1>6. WayInComing /\ ResetSettled /\ ResetUndisturbed
  BY <1>1, CredentialConstants DEF WayInComing, ResetSettled, ResetUndisturbed
<1>7. IdsFresh /\ StaysErased
  BY <1>1, <1>4 DEF IdsFresh, StaysErased
<1>8. FlowsOnce
  BY <1>1, <1>2 DEF FlowsOnce
<1> QED BY <1>1, <1>3, <1>5, <1>6, <1>7, <1>8 DEF CredentialsSound

LEMMA RecordsStep ==
    ASSUME RecordsSound, [RecordsNext]_<<part, ledgerVars, alertVars, credentialVars>>
    PROVE  RecordsSound'
<1> SUFFICES ASSUME part = "credentials", part' = part
             PROVE  CredentialsSound' /\ FlowsOnce'
  BY DEF RecordsSound, RecordsNext
<1>1. CredentialsSound /\ FlowsOnce /\ Credentials!TypeOK
  BY DEF RecordsSound, CredentialsSound
<1>2. CASE Credentials!MCNext
  BY <1>1, <1>2, CredentialsNextKeeps, FlowsNext
<1>3. CASE UNCHANGED credentialVars
  <2>1. /\ UNCHANGED <<user, used_ids, creds, code, flow, opened, issued, sessions, request>>
        /\ UNCHANGED <<erased, resetting, settled, enrolled, cut>>
    BY <1>3 DEF credentialVars
  <2>2. CredentialsSound'
    BY <1>1, <2>1, QuietKeeps, SoundTypes DEF CredentialsSound
  <2> QED BY <1>1, <2>1, <2>2 DEF FlowsOnce
<1> QED BY <1>2, <1>3 DEF RecordsNext

LEMMA RecordsHold == RecordsSpec => []RecordsSound
<1>1. RecordsInit => RecordsSound
  BY CredentialsStart DEF RecordsInit, RecordsSound
<1> QED BY <1>1, RecordsStep, PTL DEF RecordsSpec

\* An account whose requests all ran to their end keeps a way into the app, unless
\* overlapping recoveries spent two of its codes on the admin console: a registration
\* hands out codes after it stored its passkey (auth.rs, register_finish), a reset after
\* it cleared and dropped (admin.rs, reset_credentials), a recovery marks the code it
\* took after it stored what that code enrolled (recovery_finish).
THEOREM WayIn == RecordsSpec => []WayInAlone
<1>1. ASSUME RecordsSound, part = "credentials", user # None, Credentials!Busy = {}, ~ cut,
             Credentials!CredsOf(user, "app") = {}, Credentials!Unused(user) = {}
      PROVE  \E c, d \in Credentials!EnrolledOnAdmin : c # d
  <2>1. CredentialsSound
    BY <1>1 DEF RecordsSound
  <2>2. \A w \in Worker : request[w].at = "idle"
    BY <1>1 DEF Credentials!Busy, Credentials!Idle
  <2>3. PICK b \in Batches : Whole(b)
    BY <1>1, <2>1, <2>2 DEF CredentialsSound, WayInComing, Promises
  <2>4. ASSUME NEW s \in Slots
        PROVE  <<b, s>> \in Credentials!EnrolledOnAdmin
    <3>1. <<b, s>> \in Codes
      BY <2>1, SoundTypes
    <3>2. ~ Live(<<b, s>>)
      BY <1>1, <2>1, <3>1 DEF Live, Credentials!Unused, Codes, CredentialsSound, Belonging
    <3>3. PICK k \in creds : <<<<b, s>>, k.by>> \in enrolled
      BY <2>3, <3>2 DEF Whole, EnrolledBy
    <3>4. k.user = user /\ k.rp \in {"app", "admin"}
      BY <2>1, SoundTypes DEF CredentialsSound, Belonging, Credentials!Rps
    <3>5. k \in Credentials!CredsOf(user, "admin")
      BY <1>1, <3>4 DEF Credentials!CredsOf
    <3> DEFINE e == <<<<b, s>>, k.by>>
    <3>6. e \in {t \in enrolled : \E l \in Credentials!CredsOf(user, "admin") : l.by = t[2]}
          /\ e[1] = <<b, s>>
      BY <3>3, <3>5
    <3> HIDE DEF e
    <3> QED BY <3>6 DEF Credentials!EnrolledOnAdmin
  <2> QED BY <2>4, CredentialConstants
<1>2. RecordsSound => WayInAlone
  BY <1>1 DEF WayInAlone, Credentials!WayInAlone
<1> QED BY <1>2, RecordsHold, PTL

\* After a reset with nothing else under way, every passkey was enrolled by a code that
\* the reset gave out (admin.rs, reset_credentials): no ceremony was open that a cleared
\* passkey or a dropped code could still finish.
THEOREM ResetsHold == RecordsSpec => []ResetHoldsAlone
<1>1. RecordsSound => ResetHoldsAlone
  BY DEF RecordsSound, CredentialsSound, ResetSettled, ResetHoldsAlone, Credentials!ResetHoldsAlone
<1> QED BY <1>1, RecordsHold, PTL

\* An account that was erased while no registration of it was being finished does not
\* come back: its open registrations went with it (account.rs, delete_user_data).
THEOREM ErasedStaysErased == RecordsSpec => []ErasedForGood
<1>1. RecordsSound => ErasedForGood
  BY DEF RecordsSound, CredentialsSound, StaysErased, ErasedForGood, Credentials!ErasedForGood
<1> QED BY <1>1, RecordsHold, PTL

-----------------------------------------------------------------------------
(* The ledger, whose proof is in DuplicateMatchProofs *)

LedgerSound == part = "ledger" => MatchedSound

LEMMA LedgerHolds == RecordsSpec => []LedgerSound
<1>1. RecordsInit => LedgerSound
  BY MatchedStart DEF RecordsInit, LedgerSound
<1>2. ASSUME LedgerSound, [RecordsNext]_<<part, ledgerVars, alertVars, credentialVars>>
      PROVE  LedgerSound'
  <2> SUFFICES ASSUME part = "ledger", part' = part PROVE MatchedSound'
    BY <1>2 DEF LedgerSound, RecordsNext
  <2>1. MatchedSound /\ [MCNext]_<<vars, overlapped, disturbed>>
    BY <1>2 DEF LedgerSound, RecordsNext, ledgerVars
  <2> QED BY <2>1, MatchedStep
<1> QED BY <1>1, <1>2, PTL DEF RecordsSpec

\* The matcher (budget.rs, match_imported and match_logged): a link runs from an import to
\* a logged row, no logged row is claimed by two imports while requests come one at a time,
\* and of inserts that nothing else disturbs each unmistakable pair is linked, never to an
\* import an ignore rule excluded.
THEOREM MatchedRight == RecordsSpec => []MatchedRightAlone
<1>1. LedgerSound => MatchedRightAlone
  BY MatchedSoundHolds DEF LedgerSound, MatchedRightAlone
<1> QED BY <1>1, LedgerHolds, PTL

-----------------------------------------------------------------------------
(* The limit alerts: names *)

Scopes == Alerts!Scopes
Levels == Alerts!Levels
AtRest == Alerts!Idle
Past(w) == check[w].at \in {"spent", "clear", "raise"}
Ahead(w) == {check[w].todo[i] : i \in 1 .. Len(check[w].todo)}

LEMMA AlertConstants ==
  /\ Budget \notin Categories /\ None \notin Nat /\ None \notin Levels
  /\ Users # {}
  /\ \A f \in [Categories -> Amounts] \union [Categories -> Limits] : Alerts!Of(f, Budget) \in Nat
  /\ Alerts!Of([c \in Categories |-> 0], Budget) = 0
  /\ Amounts \subseteq Nat /\ Limits \subseteq Nat /\ 0 \in Amounts
  /\ Scopes = Categories \union {Budget} /\ Levels = {"approaching", "exceeded"}
  /\ None # "unknown"
<1>1. Alerts!LimitAlertsAssumption /\ Alerts!SumsAssumption
  BY RecordsAssumption
<1>2. None \notin Nat /\ None # "approaching" /\ None # "exceeded" /\ None # "unknown"
  BY <1>1 DEF Alerts!LimitAlertsAssumption
<1> QED BY <1>1, <1>2 DEF Alerts!LimitAlertsAssumption, Alerts!SumsAssumption, Scopes, Alerts!Scopes,
           Levels, Alerts!Levels

\* The figure of a category is its own; that of the budget depends on nothing else.
LEMMA OfCategory == \A f, s : s # Budget => Alerts!Of(f, s) = f[s]
BY DEF Alerts!Of

LEMMA FiguresStay ==
    ASSUME NEW s, spent' = spent, limit' = limit
    PROVE  /\ Alerts!Of(spent, s)' = Alerts!Of(spent, s)
           /\ Alerts!Of(limit, s)' = Alerts!Of(limit, s)
           /\ Alerts!LevelNow(s)' = Alerts!LevelNow(s)
BY DEF Alerts!LevelNow


\* What a request is doing for the scope at hand.
Reading == [at : {"read"}, user : Users, todo : Seq(Scopes)]
HasLimit == [at : {"spent"}, user : Users, todo : Seq(Scopes), limit : Nat]
Deciding == [at : {"clear", "raise"}, user : Users, todo : Seq(Scopes),
             level : Levels \union {None}, figure : Nat, downgraded : BOOLEAN]
CheckStates == {AtRest} \union Reading \union HasLimit \union Deciding

LEMMA AlertTypes ==
    ASSUME Alerts!TypeOK
    PROVE  /\ spent \in [Categories -> Amounts] /\ limit \in [Categories -> Limits]
           /\ alert \in [Users \X Scopes \X Levels -> Nat \union {None}]
           /\ check \in [Worker -> CheckStates]
           /\ \A w \in Worker :
                /\ check[w] = AtRest <=> check[w].at = "idle"
                /\ check[w].at \in {"idle", "read", "spent", "clear", "raise"}
                /\ check[w].at = "read" => check[w] \in Reading
                /\ check[w].at = "spent" => check[w] \in HasLimit
                /\ check[w].at \in {"clear", "raise"} => check[w] \in Deciding
                /\ check[w].at # "idle" =>
                     /\ check[w].user \in Users /\ check[w].todo \in Seq(Scopes)
                     /\ check[w].todo # << >> /\ Head(check[w].todo) \in Scopes
<1>1. check \in [Worker -> CheckStates]
  BY DEF Alerts!TypeOK, Alerts!Checks, CheckStates, Reading, HasLimit, Deciding, AtRest, Scopes, Levels
<1>2. ASSUME NEW r \in CheckStates
      PROVE  /\ r = AtRest <=> r.at = "idle"
             /\ r.at \in {"idle", "read", "spent", "clear", "raise"}
             /\ r.at = "read" => r \in Reading
             /\ r.at = "spent" => r \in HasLimit
             /\ r.at \in {"clear", "raise"} => r \in Deciding
             /\ r.at # "idle" => r.user \in Users /\ r.todo \in Seq(Scopes)
  BY DEF CheckStates, Reading, HasLimit, Deciding, AtRest, Alerts!Idle
<1>3. \A w \in Worker : check[w] # AtRest => check[w].todo # << >>
  BY DEF Alerts!TypeOK, AtRest
<1>4. /\ spent \in [Categories -> Amounts] /\ limit \in [Categories -> Limits]
      /\ alert \in [Users \X Scopes \X Levels -> Nat \union {None}]
  BY DEF Alerts!TypeOK, Alerts!Keys, Scopes, Levels
<1> QED BY <1>1, <1>2, <1>3, <1>4

\* The types again, of where a step leads.
LEMMA AlertTypesNext ==
    ASSUME spent' \in [Categories -> Amounts], limit' \in [Categories -> Limits],
           alert' \in [Users \X Scopes \X Levels -> Nat \union {None}],
           check' \in [Worker -> CheckStates],
           \A w \in Worker : check'[w] # AtRest => check'[w].todo # << >>
    PROVE  Alerts!TypeOK'
BY DEF Alerts!TypeOK, Alerts!Checks, Alerts!Keys, CheckStates, Reading, HasLimit, Deciding,
   AtRest, Scopes, Levels

LEMMA TodoShrinks ==
    ASSUME NEW q \in Seq(Scopes), q # << >>
    PROVE  /\ Len(q) = 1 => {q[i] : i \in 1 .. Len(q)} = {Head(q)}
           /\ Len(q) # 1 => /\ Tail(q) \in Seq(Scopes) /\ Tail(q) # << >>
                            /\ {q[i] : i \in 1 .. Len(q)}
                                 = {Head(q)} \union {Tail(q)[i] : i \in 1 .. Len(Tail(q))}
<1>1. Len(q) \in Nat \ {0} /\ Head(q) = q[1] /\ Tail(q) \in Seq(Scopes) /\ Len(Tail(q)) = Len(q) - 1
  OBVIOUS
<1>2. \A i \in 1 .. Len(Tail(q)) : Tail(q)[i] = q[i + 1]
  BY <1>1
<1>3. CASE Len(q) = 1
  BY <1>1, <1>3
<1>4. CASE Len(q) # 1
  <2>1. Tail(q) # << >>
    <3>1. Len(Tail(q)) # 0
      BY <1>1, <1>4
    <3>2. Len(<< >>) = 0
      OBVIOUS
    <3> QED BY <3>1, <3>2, Zenon
  <2>2. ASSUME NEW i \in 1 .. Len(q) PROVE i = 1 \/ (i - 1 \in 1 .. Len(Tail(q)) /\ q[i] = Tail(q)[i - 1])
    BY <1>1, <1>2
  <2>3. ASSUME NEW i \in 1 .. Len(Tail(q)) PROVE i + 1 \in 1 .. Len(q) /\ Tail(q)[i] = q[i + 1]
    BY <1>1, <1>2
  <2>4. 1 \in 1 .. Len(q)
    BY <1>1
  <2> QED BY <1>1, <1>4, <2>1, <2>2, <2>3, <2>4
<1> QED BY <1>3, <1>4

\* A request is put into a state: the others stay where they are.
LEMMA PutCheck ==
    ASSUME Alerts!TypeOK, NEW w \in Worker, NEW r \in CheckStates, check' = [check EXCEPT ![w] = r]
    PROVE  /\ check' \in [Worker -> CheckStates] /\ check'[w] = r
           /\ \A v \in Worker : v # w => check'[v] = check[v]
BY AlertTypes

LEMMA DoneGoesOn ==
    ASSUME Alerts!TypeOK, NEW w \in Worker, check[w].at # "idle", Alerts!Done(w)
    PROVE  /\ check' \in [Worker -> CheckStates]
           /\ \A v \in Worker : v # w => check'[v] = check[v]
           /\ \/ check'[w] = AtRest /\ Ahead(w) = {Alerts!Scope(w)}
              \/ /\ check'[w].at = "read" /\ check'[w].todo # << >>
                 /\ Ahead(w) = {Alerts!Scope(w)} \union Ahead(w)'
<1>1. check[w].todo \in Seq(Scopes) /\ check[w].todo # << >> /\ check[w].user \in Users
  BY AlertTypes
<1>2. Len(check[w].todo) # 1 => Tail(check[w].todo) \in Seq(Scopes) /\ Tail(check[w].todo) # << >>
  BY <1>1, TodoShrinks
<1> DEFINE r == IF Len(check[w].todo) = 1 THEN AtRest
                ELSE [at |-> "read", user |-> check[w].user, todo |-> Tail(check[w].todo)]
<1>3. r \in CheckStates
  BY <1>1, <1>2 DEF CheckStates, Reading
<1>4. check' = [check EXCEPT ![w] = r]
  BY DEF Alerts!Done, AtRest
<1>5. /\ check' \in [Worker -> CheckStates] /\ check'[w] = r
      /\ \A v \in Worker : v # w => check'[v] = check[v]
  <2> HIDE DEF r
  <2> QED BY <1>3, <1>4, PutCheck
<1>6. CASE Len(check[w].todo) = 1
  BY <1>1, <1>5, <1>6, TodoShrinks DEF Ahead, Alerts!Scope
<1>7. CASE Len(check[w].todo) # 1
  <2>1. check'[w].at = "read" /\ check'[w].todo = Tail(check[w].todo)
    BY <1>5, <1>7
  <2> HIDE DEF r
  <2>2. Ahead(w)' = {Tail(check[w].todo)[i] : i \in 1 .. Len(Tail(check[w].todo))}
    BY <2>1 DEF Ahead
  <2>3. Ahead(w) = {Alerts!Scope(w)} \union Ahead(w)'
    BY <1>1, <1>7, <2>2, TodoShrinks DEF Ahead, Alerts!Scope
  <2> QED BY <1>2, <1>5, <1>7, <2>1, <2>3
<1> QED BY <1>5, <1>6, <1>7


\* A request has read the figures of its scope.
LEMMA FoundTo ==
    ASSUME Alerts!TypeOK, NEW w \in Worker, check[w].at # "idle",
           NEW l \in Levels \union {None}, NEW n \in Nat, Alerts!Found(w, l, n)
    PROVE  /\ check' \in [Worker -> CheckStates]
           /\ \A v \in Worker : v # w => check'[v] = check[v]
           /\ check'[w].at = "clear" /\ check'[w].user = check[w].user /\ check'[w].todo = check[w].todo
           /\ check'[w].level = l /\ check'[w].figure = n
<1> DEFINE r == [at |-> "clear", user |-> check[w].user, todo |-> check[w].todo,
                 level |-> l, figure |-> n, downgraded |-> FALSE]
<1>1. check[w].todo \in Seq(Scopes) /\ check[w].user \in Users
  BY AlertTypes
<1>2. r \in CheckStates
  BY <1>1 DEF CheckStates, Deciding
<1>3. check' = [check EXCEPT ![w] = r]
  BY DEF Alerts!Found
<1>4. /\ check' \in [Worker -> CheckStates] /\ check'[w] = r
      /\ \A v \in Worker : v # w => check'[v] = check[v]
  <2> HIDE DEF r
  <2> QED BY <1>2, <1>3, PutCheck
<1> QED BY <1>4

LEMMA LimitTo ==
    ASSUME Alerts!TypeOK, NEW w \in Worker, Alerts!ReadBudgetLimit(w)
    PROVE  /\ check' \in [Worker -> CheckStates]
           /\ \A v \in Worker : v # w => check'[v] = check[v]
           /\ check'[w].at = "spent" /\ check'[w].user = check[w].user /\ check'[w].todo = check[w].todo
           /\ check'[w].limit = Alerts!Of(limit, Budget)
<1> DEFINE r == [at |-> "spent", user |-> check[w].user, todo |-> check[w].todo,
                 limit |-> Alerts!Of(limit, Budget)]
<1>1. check[w].todo \in Seq(Scopes) /\ check[w].user \in Users
  BY AlertTypes DEF Alerts!ReadBudgetLimit
<1>2. r \in CheckStates
  BY <1>1, AlertTypes, AlertConstants DEF CheckStates, HasLimit
<1>3. check' = [check EXCEPT ![w] = r]
  BY DEF Alerts!ReadBudgetLimit
<1>4. /\ check' \in [Worker -> CheckStates] /\ check'[w] = r
      /\ \A v \in Worker : v # w => check'[v] = check[v]
  <2> HIDE DEF r
  <2> QED BY <1>2, <1>3, PutCheck
<1> QED BY <1>4

LEMMA RaiseTo ==
    ASSUME Alerts!TypeOK, NEW w \in Worker, check[w].at = "clear", NEW d \in BOOLEAN,
           check' = [check EXCEPT ![w].at = "raise", ![w].downgraded = d]
    PROVE  /\ check' \in [Worker -> CheckStates]
           /\ \A v \in Worker : v # w => check'[v] = check[v]
           /\ check'[w].at = "raise" /\ check'[w].user = check[w].user /\ check'[w].todo = check[w].todo
           /\ check'[w].level = check[w].level /\ check'[w].figure = check[w].figure
           /\ check'[w].downgraded = d
<1> DEFINE r == [[check[w] EXCEPT !.at = "raise"] EXCEPT !.downgraded = d]
<1>1. check[w] \in Deciding
  BY AlertTypes
<1>2. /\ r \in Deciding /\ r.at = "raise" /\ r.downgraded = d
      /\ r.user = check[w].user /\ r.todo = check[w].todo
      /\ r.level = check[w].level /\ r.figure = check[w].figure
  BY <1>1 DEF Deciding
<1>3. check' = [check EXCEPT ![w] = r]
  BY AlertTypes
<1>4. r \in CheckStates
  <2> HIDE DEF r
  <2> QED BY <1>2 DEF CheckStates
<1>5. /\ check' \in [Worker -> CheckStates] /\ check'[w] = r
      /\ \A v \in Worker : v # w => check'[v] = check[v]
  <2> HIDE DEF r
  <2> QED BY <1>3, <1>4, PutCheck
<1> HIDE DEF r
<1> QED BY <1>2, <1>5

-----------------------------------------------------------------------------
(* The invariant *)

Mine(w, u, s) == check[w].user = u /\ Alerts!Scope(w) = s
Raising(u, s) == \E w \in Worker : check[w].at = "raise" /\ Mine(w, u, s)

HistoryTypes ==
  /\ told \in [Users \X Scopes -> Levels \union {None, "unknown"}]
  /\ fresh \subseteq Users \X Scopes /\ clean \subseteq Worker
  /\ troubles \in Nat

StageKnown ==
  \A w \in Worker :
    /\ check[w].at = "spent" => Alerts!Scope(w) = Budget
    /\ check[w].at = "raise" => check[w].level \in Levels

\* What an undisturbed request knows is so, and nobody else reconciles its scope.
Unrivalled(w) ==
  \A v \in Worker : v # w /\ Past(v) => ~ Mine(v, check[w].user, Alerts!Scope(w))
Informed(w) ==
  /\ check[w].at = "spent" => check[w].limit = Alerts!Of(limit, Budget)
  /\ check[w].at \in {"clear", "raise"} =>
       /\ check[w].level = Alerts!LevelNow(Alerts!Scope(w))
       /\ check[w].figure = Alerts!Of(spent, Alerts!Scope(w))
CleanKnows == \A w \in clean : Past(w) /\ Unrivalled(w) /\ Informed(w)

\* It has cleared what is stale, and remembers an improvement.
Safe(w) ==
  /\ \A l \in Levels \ {check[w].level} : alert[<<check[w].user, Alerts!Scope(w), l>>] = None
  /\ told[<<check[w].user, Alerts!Scope(w)>>] = check[w].level =>
       alert[<<check[w].user, Alerts!Scope(w), check[w].level>>] # None
  /\ told[<<check[w].user, Alerts!Scope(w)>>] = "exceeded" =>
       check[w].level = "exceeded" \/ check[w].downgraded
Cleared == \A w \in clean : check[w].at = "raise" => Safe(w)

\* Between reconciliations a scope has the alert of the level it was left at.
Standing ==
  \A u \in Users, s \in Scopes :
    told[<<u, s>>] # "unknown" /\ ~ Raising(u, s) =>
      \A l \in Levels : alert[<<u, s, l>>] # None <=> l = told[<<u, s>>]

\* And the figure of now, until the figures move.
FreshFigures ==
  \A u \in Users, s \in Scopes :
    <<u, s>> \in fresh /\ told[<<u, s>>] # "unknown" =>
      /\ told[<<u, s>>] = Alerts!LevelNow(s)
      /\ \A l \in Levels :
           alert[<<u, s, l>>] = IF l = told[<<u, s>>] THEN Alerts!Of(spent, s) ELSE None

AlertsKnown == Alerts!TypeOK /\ HistoryTypes /\ StageKnown /\ CleanKnows /\ Cleared /\ Standing /\ FreshFigures

-----------------------------------------------------------------------------
(* The kinds of step *)

\* A request that is past its first read writes alerts of its scope, and is not to be
\* trusted to have left them right.
LEMMA WritesKeep ==
    ASSUME AlertsKnown, Alerts!TypeOK', NEW w \in Worker, Past(w),
           UNCHANGED <<spent, limit>>, troubles' \in Nat,
           \A v \in Worker : v # w => check'[v] = check[v],
           check'[w].at = "raise" =>
             /\ check'[w].user = check[w].user /\ Alerts!Scope(w)' = Alerts!Scope(w)
             /\ check'[w].level \in Levels,
           check'[w].at # "spent", check'[w].at # "clear",
           \A u \in Users, s \in Scopes, l \in Levels :
             alert'[<<u, s, l>>] = alert[<<u, s, l>>] \/ Mine(w, u, s),
           Alerts!Disturb({Alerts!Pair(w)}), clean' = clean \ {w}
    PROVE  AlertsKnown'
<1> DEFINE o == check[w].user
           z == Alerts!Scope(w)
<1>1. o \in Users /\ z \in Scopes
  BY AlertTypes DEF AlertsKnown, Past, Alerts!Scope
<1>2. /\ told' \in [Users \X Scopes -> Levels \union {None, "unknown"}]
      /\ told'[<<o, z>>] = "unknown"
      /\ \A u \in Users, s \in Scopes : ~ Mine(w, u, s) => told'[<<u, s>>] = told[<<u, s>>]
      /\ fresh' = fresh \ {<<o, z>>}
  BY <1>1 DEF AlertsKnown, HistoryTypes, Alerts!Disturb, Alerts!Pair, Alerts!Pairs, Scopes, Mine
<1>3. HistoryTypes'
  BY <1>2 DEF AlertsKnown, HistoryTypes
<1>4. \A v \in Worker : v # w => Alerts!Scope(v)' = Alerts!Scope(v) /\ (Past(v)' <=> Past(v))
  BY DEF Alerts!Scope, Past
<1>5. StageKnown'
  BY <1>4 DEF AlertsKnown, StageKnown
<1>6. \A s : Alerts!Of(spent, s)' = Alerts!Of(spent, s) /\ Alerts!Of(limit, s)' = Alerts!Of(limit, s)
             /\ Alerts!LevelNow(s)' = Alerts!LevelNow(s)
  BY FiguresStay
<1>7. ASSUME NEW v \in clean'
      PROVE  /\ v \in clean /\ v \in Worker /\ v # w /\ check'[v] = check[v]
             /\ Alerts!Scope(v)' = Alerts!Scope(v) /\ Past(v) /\ Past(v)'
             /\ ~ Mine(w, check[v].user, Alerts!Scope(v))
             /\ \A x \in Worker : x # v /\ Past(x)' => ~ Mine(x, check[v].user, Alerts!Scope(v))'
  <2>1. v \in clean /\ v \in Worker /\ v # w
    BY DEF AlertsKnown, HistoryTypes
  <2>2. /\ Past(v)
        /\ \A x \in Worker : x # v /\ Past(x) => ~ Mine(x, check[v].user, Alerts!Scope(v))
    BY <2>1 DEF AlertsKnown, CleanKnows, Unrivalled
  <2>3. ~ Mine(w, check[v].user, Alerts!Scope(v))
    BY <2>1, <2>2
  <2>4. Past(w)' => ~ Mine(w, check[v].user, Alerts!Scope(v))'
    BY <1>4, <2>1, <2>3 DEF Past, Mine
  <2>5. ASSUME NEW x \in Worker, x # v, x # w, Past(x)' PROVE ~ Mine(x, check[v].user, Alerts!Scope(v))'
    <3>1. ~ Mine(x, check[v].user, Alerts!Scope(v))
      BY <1>4, <2>2, <2>5
    <3>2. check'[x] = check[x] /\ check'[v] = check[v] /\ Alerts!Scope(v)' = Alerts!Scope(v)
          /\ Alerts!Scope(x)' = Alerts!Scope(x)
      BY <1>4, <2>1, <2>5
    <3> QED BY <3>1, <3>2 DEF Mine
  <2> QED BY <1>4, <2>1, <2>2, <2>3, <2>4, <2>5
<1>8. CleanKnows'
  <2> SUFFICES ASSUME NEW v \in clean' PROVE Past(v)' /\ Unrivalled(v)' /\ Informed(v)'
    BY DEF CleanKnows
  <2>1. Informed(v)
    BY <1>7 DEF AlertsKnown, CleanKnows
  <2>2. Informed(v)'
    BY <1>6, <1>7, <2>1 DEF Informed
  <2> QED BY <1>7, <2>2 DEF Unrivalled
<1>11. Cleared'
  <2> SUFFICES ASSUME NEW v \in clean', check'[v].at = "raise" PROVE Safe(v)'
    BY DEF Cleared
  <2> DEFINE p == check[v].user
             y == Alerts!Scope(v)
  <2>1. p \in Users /\ y \in Scopes /\ check[v].level \in Levels
    BY <1>7, AlertTypes DEF AlertsKnown, StageKnown, Alerts!Scope
  <2>2. Safe(v)
    BY <1>7 DEF AlertsKnown, Cleared
  <2>3. ~ Mine(w, p, y)
    BY <1>7
  <2>4. told'[<<p, y>>] = told[<<p, y>>] /\ \A l \in Levels : alert'[<<p, y, l>>] = alert[<<p, y, l>>]
    BY <1>2, <2>1, <2>3
  <2> QED BY <1>7, <2>1, <2>2, <2>4 DEF Safe
<1>9. Standing'
  BY <1>2, <1>4 DEF AlertsKnown, Standing, Mine, Raising
<1>10. FreshFigures'
  BY <1>2, <1>6 DEF AlertsKnown, FreshFigures, Mine
<1> QED BY <1>3, <1>5, <1>8, <1>9, <1>10, <1>11 DEF AlertsKnown

\* No alert is written, and no request starts or stops raising one.
LEMMA QuietAlerts ==
    ASSUME AlertsKnown, Alerts!TypeOK', told' = told, alert' = alert,
           fresh' \subseteq fresh, clean' \subseteq Worker, troubles' \in Nat,
           \A w \in Worker : check'[w].at = "raise" \/ check[w].at = "raise" => check'[w] = check[w],
           \A w \in Worker : check'[w].at = "spent" => Alerts!Scope(w)' = Budget,
           \A u \in Users, s \in Scopes : <<u, s>> \in fresh' =>
             Alerts!LevelNow(s)' = Alerts!LevelNow(s) /\ Alerts!Of(spent, s)' = Alerts!Of(spent, s),
           \A w \in clean' : check'[w].at = "raise" => w \in clean,
           CleanKnows'
    PROVE  AlertsKnown'
<1>1. HistoryTypes'
  BY DEF AlertsKnown, HistoryTypes
<1>2. \A w \in Worker : check[w].at = "raise" => Alerts!Scope(w)' = Alerts!Scope(w)
  BY DEF Alerts!Scope
<1>3. StageKnown'
  BY DEF AlertsKnown, StageKnown
<1>4. Cleared'
  BY <1>1, <1>2 DEF AlertsKnown, Cleared, Safe, HistoryTypes
<1>5. Standing'
  <2> SUFFICES ASSUME NEW u \in Users, NEW s \in Scopes, told[<<u, s>>] # "unknown", ~ Raising(u, s)'
               PROVE  \A l \in Levels : alert[<<u, s, l>>] # None <=> l = told[<<u, s>>]
    BY DEF Standing
  <2>1. ~ Raising(u, s)
    BY <1>2 DEF Raising, Mine
  <2> QED BY <2>1 DEF AlertsKnown, Standing
<1>6. FreshFigures'
  BY DEF AlertsKnown, FreshFigures
<1> QED BY <1>1, <1>3, <1>4, <1>5, <1>6 DEF AlertsKnown

\* An undisturbed request has cleared what is stale and goes on to raise its alert.
LEMMA ClearsKeep ==
    ASSUME AlertsKnown, Alerts!TypeOK', NEW w \in clean,
           check[w].at = "clear", check[w].level \in Levels,
           \A v \in Worker : v # w => check'[v] = check[v],
           check'[w].at = "raise", check'[w].user = check[w].user, check'[w].todo = check[w].todo,
           check'[w].level = check[w].level, check'[w].figure = check[w].figure,
           check[w].level = "approaching" /\ alert[<<check[w].user, Alerts!Scope(w), "exceeded">>] # None
             => check'[w].downgraded,
           \A u \in Users, s \in Scopes, l \in Levels :
             alert'[<<u, s, l>>] = IF Mine(w, u, s) /\ l # check[w].level THEN None ELSE alert[<<u, s, l>>],
           UNCHANGED <<spent, limit, told, fresh, clean, troubles>>
    PROVE  AlertsKnown'
<1> DEFINE o == check[w].user
           z == Alerts!Scope(w)
<1>1. w \in Worker /\ o \in Users /\ z \in Scopes /\ ~ Raising(o, z)
      /\ \A v \in Worker : v # w /\ Past(v) => ~ Mine(v, o, z)
  <2>1. w \in Worker /\ Unrivalled(w)
    BY DEF AlertsKnown, HistoryTypes, CleanKnows
  <2>2. o \in Users /\ z \in Scopes
    BY <2>1, AlertTypes DEF AlertsKnown, Alerts!Scope
  <2>3. ~ Raising(o, z)
    BY <2>1 DEF Unrivalled, Raising, Past
  <2> QED BY <2>1, <2>2, <2>3 DEF Unrivalled
<1>2. \A v \in Worker : Alerts!Scope(v)' = Alerts!Scope(v) /\ check'[v].user = check[v].user
                        /\ check'[v].level = check[v].level /\ (Past(v)' <=> Past(v))
  BY DEF Alerts!Scope, Past
<1>3. \A s : Alerts!Of(spent, s)' = Alerts!Of(spent, s) /\ Alerts!Of(limit, s)' = Alerts!Of(limit, s)
             /\ Alerts!LevelNow(s)' = Alerts!LevelNow(s)
  BY FiguresStay
<1>4. HistoryTypes'
  BY DEF AlertsKnown, HistoryTypes
<1>5. StageKnown'
  BY <1>2 DEF AlertsKnown, StageKnown
<1>6. CleanKnows'
  <2> SUFFICES ASSUME NEW v \in clean PROVE Past(v)' /\ Unrivalled(v)' /\ Informed(v)'
    BY DEF CleanKnows
  <2>1. v \in Worker /\ Past(v) /\ Unrivalled(v) /\ Informed(v) /\ Informed(w)
    BY DEF AlertsKnown, HistoryTypes, CleanKnows
  <2>2. Past(v)'
    BY <1>2, <2>1
  <2>3. Unrivalled(v)'
    BY <1>2, <2>1 DEF Unrivalled, Mine
  <2>4. Informed(v)'
    BY <1>2, <1>3, <2>1 DEF Informed
  <2> QED BY <2>2, <2>3, <2>4
<1>7. told[<<o, z>>] # "unknown" =>
        \A l \in Levels : alert[<<o, z, l>>] # None <=> l = told[<<o, z>>]
  BY <1>1 DEF AlertsKnown, Standing
<1>8. Safe(w)'
  <2>1. \A l \in Levels \ {check[w].level} : alert'[<<o, z, l>>] = None
    BY <1>1 DEF Mine
  <2>2. told[<<o, z>>] = check[w].level => alert'[<<o, z, check[w].level>>] # None
    BY <1>1, <1>7, AlertConstants DEF Mine
  <2>3. told[<<o, z>>] = "exceeded" => check[w].level = "exceeded" \/ check'[w].downgraded
    BY <1>7, AlertConstants
  <2> QED BY <1>1, <1>2, <2>1, <2>2, <2>3 DEF Safe
<1>9. Cleared'
  <2> SUFFICES ASSUME NEW v \in clean, v # w, check[v].at = "raise" PROVE Safe(v)'
    BY <1>8 DEF AlertsKnown, Cleared, HistoryTypes
  <2> DEFINE p == check[v].user
             y == Alerts!Scope(v)
  <2>1. p \in Users /\ y \in Scopes /\ check[v].level \in Levels /\ v \in Worker
    BY AlertTypes DEF AlertsKnown, HistoryTypes, StageKnown, Alerts!Scope
  <2>2. Safe(v)
    BY DEF AlertsKnown, Cleared
  <2>3. ~ Mine(w, p, y)
    BY <1>1, <2>1 DEF Mine, Past
  <2>4. \A l \in Levels : alert'[<<p, y, l>>] = alert[<<p, y, l>>]
    BY <2>1, <2>3
  <2> QED BY <1>2, <2>1, <2>2, <2>4 DEF Safe
<1>10. Standing'
  <2> SUFFICES ASSUME NEW u \in Users, NEW s \in Scopes, told[<<u, s>>] # "unknown", ~ Raising(u, s)'
               PROVE  \A l \in Levels : alert'[<<u, s, l>>] # None <=> l = told[<<u, s>>]
    BY DEF Standing
  <2>1. ~ Mine(w, u, s)
    BY <1>1, <1>2 DEF Raising, Mine
  <2>2. ~ Raising(u, s)
    BY <1>2 DEF Raising, Mine
  <2> QED BY <2>1, <2>2 DEF AlertsKnown, Standing
<1>11. FreshFigures'
  <2> SUFFICES ASSUME NEW u \in Users, NEW s \in Scopes, <<u, s>> \in fresh, told[<<u, s>>] # "unknown",
                      NEW l \in Levels
               PROVE  /\ told[<<u, s>>] = Alerts!LevelNow(s)
                      /\ alert'[<<u, s, l>>] = IF l = told[<<u, s>>] THEN Alerts!Of(spent, s) ELSE None
    BY <1>3 DEF FreshFigures
  <2>1. /\ told[<<u, s>>] = Alerts!LevelNow(s)
        /\ alert[<<u, s, l>>] = IF l = told[<<u, s>>] THEN Alerts!Of(spent, s) ELSE None
    BY DEF AlertsKnown, FreshFigures
  <2>2. Mine(w, u, s) => check[w].level = told[<<u, s>>]
    BY <2>1 DEF AlertsKnown, CleanKnows, Informed, Mine
  <2> QED BY <2>1, <2>2
<1> QED BY <1>4, <1>5, <1>6, <1>9, <1>10, <1>11 DEF AlertsKnown

\* An undisturbed request has done its last write of the scope: the alert of its level
\* stands there, with its figure, and no other.
LEMMA ConcludesKeep ==
    ASSUME AlertsKnown, Alerts!TypeOK', NEW w \in clean,
           check[w].at \in {"clear", "raise"}, check'[w].at \in {"idle", "read"},
           \A v \in Worker : v # w => check'[v] = check[v],
           \A u \in Users, s \in Scopes, l \in Levels :
             alert'[<<u, s, l>>] = IF Mine(w, u, s) THEN IF l = check[w].level THEN check[w].figure ELSE None
                                   ELSE alert[<<u, s, l>>],
           told' = [told EXCEPT ![Alerts!Pair(w)] = check[w].level],
           fresh' = fresh \union {Alerts!Pair(w)}, clean' = clean \ {w},
           UNCHANGED <<spent, limit, troubles>>
    PROVE  AlertsKnown'
<1> DEFINE o == check[w].user
           z == Alerts!Scope(w)
           e == check[w].level
<1>1. w \in Worker /\ o \in Users /\ z \in Scopes /\ e \in Levels \union {None}
      /\ check[w].figure \in Nat
      /\ \A v \in Worker : v # w /\ Past(v) => ~ Mine(v, o, z)
  <2>1. w \in Worker /\ Unrivalled(w)
    BY DEF AlertsKnown, HistoryTypes, CleanKnows
  <2>2. o \in Users /\ z \in Scopes
    BY <2>1, AlertTypes DEF AlertsKnown, Alerts!Scope
  <2>3. check[w] \in Deciding
    BY <2>1, AlertTypes DEF AlertsKnown
  <2> QED BY <2>1, <2>2, <2>3 DEF Unrivalled, Deciding
<1>2. /\ told' \in [Users \X Scopes -> Levels \union {None, "unknown"}] /\ told'[<<o, z>>] = e
      /\ \A u \in Users, s \in Scopes : ~ Mine(w, u, s) => told'[<<u, s>>] = told[<<u, s>>]
      /\ fresh' = fresh \union {<<o, z>>}
  BY <1>1 DEF AlertsKnown, HistoryTypes, Alerts!Pair, Mine
<1>3. HistoryTypes'
  BY <1>1, <1>2 DEF AlertsKnown, HistoryTypes
<1>4. \A v \in Worker : v # w => Alerts!Scope(v)' = Alerts!Scope(v) /\ (Past(v)' <=> Past(v))
  BY DEF Alerts!Scope, Past
<1>5. ~ Past(w)' /\ check'[w].at # "raise"
  BY DEF Past
<1>6. StageKnown'
  BY <1>4 DEF AlertsKnown, StageKnown
<1>7. \A s : Alerts!Of(spent, s)' = Alerts!Of(spent, s) /\ Alerts!Of(limit, s)' = Alerts!Of(limit, s)
             /\ Alerts!LevelNow(s)' = Alerts!LevelNow(s)
  BY FiguresStay
<1>8. ASSUME NEW v \in clean'
      PROVE  v \in clean /\ v \in Worker /\ v # w /\ Past(v) /\ Unrivalled(v) /\ Informed(v)
             /\ ~ Mine(w, check[v].user, Alerts!Scope(v))
  <2>1. v \in clean /\ v \in Worker /\ v # w /\ Past(v) /\ Unrivalled(v) /\ Informed(v)
    BY DEF AlertsKnown, HistoryTypes, CleanKnows
  <2>2. Past(w)
    BY DEF Past
  <2> QED BY <1>1, <2>1, <2>2 DEF Unrivalled
<1>9. CleanKnows'
  <2> SUFFICES ASSUME NEW v \in clean' PROVE Past(v)' /\ Unrivalled(v)' /\ Informed(v)'
    BY DEF CleanKnows
  <2>1. Past(v)'
    BY <1>4, <1>8
  <2>2. Unrivalled(v)'
    <3> SUFFICES ASSUME NEW x \in Worker, x # v, Past(x)'
                 PROVE  ~ Mine(x, check[v].user, Alerts!Scope(v))'
      BY DEF Unrivalled
    <3>1. x # w /\ Past(x) /\ ~ Mine(x, check[v].user, Alerts!Scope(v))
      BY <1>4, <1>5, <1>8 DEF Unrivalled
    <3>2. check'[x] = check[x] /\ check'[v] = check[v] /\ Alerts!Scope(v)' = Alerts!Scope(v)
          /\ Alerts!Scope(x)' = Alerts!Scope(x)
      BY <1>4, <1>8, <3>1
    <3> QED BY <3>1, <3>2 DEF Mine
  <2>3. Informed(v)'
    BY <1>4, <1>7, <1>8 DEF Informed
  <2> QED BY <2>1, <2>2, <2>3
<1>10. Cleared'
  <2> SUFFICES ASSUME NEW v \in clean', check'[v].at = "raise" PROVE Safe(v)'
    BY DEF Cleared
  <2> DEFINE p == check[v].user
             y == Alerts!Scope(v)
  <2>1. check'[v] = check[v] /\ Alerts!Scope(v)' = y
    BY <1>4, <1>8
  <2>2. p \in Users /\ y \in Scopes /\ check[v].level \in Levels
    BY <1>8, <2>1, AlertTypes DEF AlertsKnown, StageKnown, Alerts!Scope
  <2>3. Safe(v)
    BY <1>8, <2>1 DEF AlertsKnown, Cleared
  <2>4. ~ Mine(w, p, y)
    BY <1>8
  <2>5. told'[<<p, y>>] = told[<<p, y>>] /\ \A l \in Levels : alert'[<<p, y, l>>] = alert[<<p, y, l>>]
    BY <1>2, <2>2, <2>4
  <2> QED BY <2>1, <2>2, <2>3, <2>5 DEF Safe
<1>11. Standing'
  <2> SUFFICES ASSUME NEW u \in Users, NEW s \in Scopes, told'[<<u, s>>] # "unknown", ~ Raising(u, s)',
                      NEW l \in Levels
               PROVE  alert'[<<u, s, l>>] # None <=> l = told'[<<u, s>>]
    BY DEF Standing
  <2>1. CASE Mine(w, u, s)
    <3>1. told'[<<u, s>>] = e /\ check[w].figure # None
      BY <1>1, <1>2, <2>1, AlertConstants DEF Mine
    <3> QED BY <2>1, <3>1
  <2>2. CASE ~ Mine(w, u, s)
    <3>1. ~ Raising(u, s)
      BY <1>4, <2>2 DEF Raising, Mine
    <3> QED BY <1>2, <2>2, <3>1 DEF AlertsKnown, Standing
  <2> QED BY <2>1, <2>2
<1>12. FreshFigures'
  <2> SUFFICES ASSUME NEW u \in Users, NEW s \in Scopes, <<u, s>> \in fresh', told'[<<u, s>>] # "unknown"
               PROVE  /\ told'[<<u, s>>] = Alerts!LevelNow(s)'
                      /\ \A l \in Levels :
                           alert'[<<u, s, l>>] = IF l = told'[<<u, s>>] THEN Alerts!Of(spent, s)' ELSE None
    BY DEF FreshFigures
  <2>1. CASE Mine(w, u, s)
    <3>1. told'[<<u, s>>] = e /\ e = Alerts!LevelNow(s) /\ check[w].figure = Alerts!Of(spent, s)
      BY <1>2, <2>1 DEF AlertsKnown, CleanKnows, Informed, Mine
    <3> QED BY <1>7, <2>1, <3>1
  <2>2. CASE ~ Mine(w, u, s)
    <3>1. <<u, s>> \in fresh /\ told'[<<u, s>>] = told[<<u, s>>]
      BY <1>2, <2>2 DEF Mine
    <3> QED BY <1>7, <2>2, <3>1 DEF AlertsKnown, FreshFigures
  <2> QED BY <2>1, <2>2
<1> QED BY <1>3, <1>6, <1>9, <1>10, <1>11, <1>12 DEF AlertsKnown

\* The user dismisses an alert: nothing is known of its scope until the next check.
LEMMA DismissKeeps ==
    ASSUME AlertsKnown, Alerts!TypeOK', NEW k \in Alerts!Keys, Alerts!Dismiss(k),
           Alerts!Disturb({<<k[1], k[2]>>}), clean' = clean, troubles' \in Nat
    PROVE  AlertsKnown'
<1>1. /\ k[1] \in Users /\ k[2] \in Scopes /\ k = <<k[1], k[2], k[3]>>
      /\ UNCHANGED <<spent, limit, check>> /\ alert' = [alert EXCEPT ![k] = None]
      /\ alert \in [Users \X Scopes \X Levels -> Nat \union {None}]
  BY AlertTypes DEF AlertsKnown, Alerts!Keys, Scopes, Levels, Alerts!Dismiss
<1>2. /\ told' \in [Users \X Scopes -> Levels \union {None, "unknown"}]
      /\ told'[<<k[1], k[2]>>] = "unknown"
      /\ \A u \in Users, s \in Scopes :
           told'[<<u, s>>] = "unknown" \/ (told'[<<u, s>>] = told[<<u, s>>] /\ (u # k[1] \/ s # k[2]))
      /\ fresh' \subseteq fresh
  BY <1>1 DEF AlertsKnown, HistoryTypes, Alerts!Disturb, Alerts!Pairs, Scopes
<1>3. \A u \in Users, s \in Scopes, l \in Levels :
        /\ alert'[<<u, s, l>>] = alert[<<u, s, l>>] \/ alert'[<<u, s, l>>] = None
        /\ u # k[1] \/ s # k[2] => alert'[<<u, s, l>>] = alert[<<u, s, l>>]
  BY <1>1
<1>4. HistoryTypes'
  BY <1>2 DEF AlertsKnown, HistoryTypes
<1>5. \A s : Alerts!Of(spent, s)' = Alerts!Of(spent, s) /\ Alerts!Of(limit, s)' = Alerts!Of(limit, s)
             /\ Alerts!LevelNow(s)' = Alerts!LevelNow(s)
  BY <1>1, FiguresStay
<1>6. \A w : Alerts!Scope(w)' = Alerts!Scope(w)
  BY <1>1 DEF Alerts!Scope
<1>7. StageKnown' /\ CleanKnows'
  BY <1>1, <1>5, <1>6 DEF AlertsKnown, StageKnown, CleanKnows, Past, Unrivalled, Informed, Mine
<1>8. Cleared'
  <2> SUFFICES ASSUME NEW w \in clean, check[w].at = "raise" PROVE Safe(w)'
    BY <1>1 DEF Cleared
  <2> DEFINE o == check[w].user
             z == Alerts!Scope(w)
  <2>1. Safe(w) /\ w \in Worker /\ check[w].level \in Levels
    BY DEF AlertsKnown, Cleared, HistoryTypes, StageKnown
  <2>2. o \in Users /\ z \in Scopes
    BY <2>1, AlertTypes DEF AlertsKnown, Alerts!Scope
  <2>3. told'[<<o, z>>] = "unknown" \/ (told'[<<o, z>>] = told[<<o, z>>] /\ (o # k[1] \/ z # k[2]))
    BY <1>2, <2>2
  <2>4. "unknown" \notin Levels
    BY AlertConstants
  <2> QED BY <1>1, <1>3, <1>6, <2>1, <2>2, <2>3, <2>4 DEF Safe
<1>9. Standing'
  <2> SUFFICES ASSUME NEW u \in Users, NEW s \in Scopes, told'[<<u, s>>] # "unknown", ~ Raising(u, s)'
               PROVE  \A l \in Levels : alert'[<<u, s, l>>] # None <=> l = told'[<<u, s>>]
    BY DEF Standing
  <2>1. ~ Raising(u, s)
    BY <1>1, <1>6 DEF Raising, Mine
  <2> QED BY <1>2, <1>3, <2>1 DEF AlertsKnown, Standing
<1>10. FreshFigures'
  BY <1>2, <1>3, <1>5 DEF AlertsKnown, FreshFigures
<1> QED BY <1>4, <1>7, <1>8, <1>9, <1>10 DEF AlertsKnown

-----------------------------------------------------------------------------
(* The steps *)

LEMMA BeginTo ==
    ASSUME Alerts!TypeOK, NEW w \in Worker, NEW u \in Users, NEW q \in Seq(Scopes), q # << >>,
           Alerts!Reconcile(w, u, q)
    PROVE  /\ check' \in [Worker -> CheckStates]
           /\ \A v \in Worker : v # w => check'[v] = check[v]
           /\ check'[w].at = "read" /\ check'[w].todo = q /\ check'[w] # AtRest
<1> DEFINE r == [at |-> "read", user |-> u, todo |-> q]
<1>1. r \in CheckStates /\ r # AtRest
  BY DEF CheckStates, Reading, AtRest, Alerts!Idle
<1>2. check' = [check EXCEPT ![w] = r]
  BY DEF Alerts!Reconcile
<1>3. /\ check' \in [Worker -> CheckStates] /\ check'[w] = r
      /\ \A v \in Worker : v # w => check'[v] = check[v]
  <2> HIDE DEF r
  <2> QED BY <1>1, <1>2, PutCheck
<1> QED BY <1>1, <1>3

\* What a request that spends leaves behind.
Spends(w, q) ==
  /\ check[w].at = "idle" /\ check'[w].at = "read" /\ check'[w].todo = q
  /\ \A v \in Worker : v # w => check'[v] = check[v]

LEMMA SpendTypes ==
    ASSUME Alerts!TypeOK, NEW w \in Worker, NEW u \in Users, NEW c \in Categories,
           Alerts!Spend(w, u, c)
    PROVE  /\ Alerts!TypeOK' /\ UNCHANGED <<limit, alert>>
           /\ \A b \in Categories : b # c => spent'[b] = spent[b]
           /\ Spends(w, <<c, Budget>>)
<1>1. /\ check[w].at = "idle" /\ UNCHANGED <<limit, alert>>
      /\ Alerts!Reconcile(w, u, <<c, Budget>>)
  BY DEF Alerts!Spend, Alerts!Idle
<1>2. PICK a \in Amounts : spent' = [spent EXCEPT ![c] = a]
  BY DEF Alerts!Spend
<1>3. spent' \in [Categories -> Amounts] /\ \A b \in Categories : b # c => spent'[b] = spent[b]
  BY <1>2, AlertTypes
<1>4. <<c, Budget>> \in Seq(Scopes) /\ <<c, Budget>> # << >>
  BY AlertConstants
<1>5. /\ check' \in [Worker -> CheckStates] /\ check'[w].at = "read" /\ check'[w].todo = <<c, Budget>>
      /\ \A v \in Worker : v # w => check'[v] = check[v]
  BY <1>1, <1>4, BeginTo
<1>6. Alerts!TypeOK'
  BY <1>1, <1>3, <1>4, <1>5, AlertTypes, AlertTypesNext DEF Alerts!TypeOK, AtRest
<1> QED BY <1>1, <1>3, <1>5, <1>6 DEF Spends

LEMMA MoveTypes ==
    ASSUME Alerts!TypeOK, NEW w \in Worker, NEW u \in Users, NEW c \in Categories, NEW d \in Categories,
           Alerts!Move(w, u, c, d)
    PROVE  /\ Alerts!TypeOK' /\ UNCHANGED <<limit, alert>>
           /\ \A b \in Categories : b # c /\ b # d => spent'[b] = spent[b]
           /\ Spends(w, <<d, Budget, c, Budget>>)
<1>1. /\ check[w].at = "idle" /\ UNCHANGED <<limit, alert>>
      /\ Alerts!Reconcile(w, u, <<d, Budget, c, Budget>>)
      /\ c # d /\ spent[c] + spent[d] \in Amounts
      /\ spent' = [spent EXCEPT ![c] = 0, ![d] = @ + spent[c]]
  BY DEF Alerts!Move, Alerts!Idle, Alerts!ScopesOfMove
<1>2. spent[c] \in Nat /\ spent[d] \in Nat /\ spent \in [Categories -> Amounts] /\ 0 \in Amounts
  BY AlertTypes, AlertConstants
<1>3. spent' \in [Categories -> Amounts] /\ \A b \in Categories : b # c /\ b # d => spent'[b] = spent[b]
  <2>1. spent' = [[spent EXCEPT ![c] = 0] EXCEPT ![d] = spent[d] + spent[c]]
    BY <1>1, <1>2
  <2>2. spent[d] + spent[c] \in Amounts
    BY <1>1, <1>2
  <2> QED BY <1>2, <2>1, <2>2
<1>4. <<d, Budget, c, Budget>> \in Seq(Scopes) /\ <<d, Budget, c, Budget>> # << >>
  BY AlertConstants
<1>5. /\ check' \in [Worker -> CheckStates] /\ check'[w].at = "read"
      /\ check'[w].todo = <<d, Budget, c, Budget>>
      /\ \A v \in Worker : v # w => check'[v] = check[v]
  BY <1>1, <1>4, BeginTo
<1>6. Alerts!TypeOK'
  BY <1>1, <1>3, <1>4, <1>5, AlertTypes, AlertTypesNext DEF Alerts!TypeOK, AtRest
<1> QED BY <1>1, <1>3, <1>5, <1>6 DEF Spends

LEMMA QuietTypes ==
    ASSUME Alerts!TypeOK, NEW c \in Categories, Alerts!ChangeQuietly(c)
    PROVE  Alerts!TypeOK' /\ UNCHANGED <<alert, check>>
<1>1. UNCHANGED <<alert, check>>
  BY DEF Alerts!ChangeQuietly
<1>2. spent' \in [Categories -> Amounts] /\ limit' \in [Categories -> Limits]
  BY AlertTypes DEF Alerts!ChangeQuietly
<1> QED BY <1>1, <1>2 DEF Alerts!TypeOK

\* The figures of a scope move only if it was touched.
LEMMA UnmovedFigures ==
    ASSUME Alerts!TypeOK, Alerts!TypeOK', NEW u \in Users, NEW s \in Scopes, <<u, s>> \notin Alerts!Moved
    PROVE  /\ Alerts!Of(spent, s)' = Alerts!Of(spent, s)
           /\ Alerts!Of(limit, s)' = Alerts!Of(limit, s)
           /\ Alerts!LevelNow(s)' = Alerts!LevelNow(s)
<1>1. s \notin Alerts!Touched /\ (s = Budget => Alerts!Touched = {})
  BY DEF Alerts!Moved, Alerts!Pairs, Scopes
<1>2. CASE s = Budget
  <2>1. \A c \in Categories : spent'[c] = spent[c] /\ limit'[c] = limit[c]
    BY <1>1, <1>2 DEF Alerts!Touched
  <2>2. spent' = spent /\ limit' = limit
    BY <2>1 DEF Alerts!TypeOK
  <2> QED BY <2>2, FiguresStay
<1>3. CASE s # Budget
  <2>1. spent'[s] = spent[s] /\ limit'[s] = limit[s]
    BY <1>1, <1>3, AlertConstants DEF Alerts!Touched
  <2>2. /\ Alerts!Of(spent, s)' = Alerts!Of(spent, s)
        /\ Alerts!Of(limit, s)' = Alerts!Of(limit, s)
    BY <1>3, <2>1, OfCategory
  <2> QED BY <2>2 DEF Alerts!LevelNow
<1> QED BY <1>2, <1>3

LEMMA SpendingKeeps ==
    ASSUME AlertsKnown, Alerts!TypeOK', alert' = alert, Alerts!Quietly, troubles' \in Nat,
           \A w \in Worker : check'[w] = check[w] \/ (check[w].at = "idle" /\ check'[w].at = "read")
    PROVE  AlertsKnown'
<1>1. told' = told /\ fresh' = fresh \ Alerts!Moved /\ clean' \subseteq clean
      /\ \A w \in clean' : Alerts!Pair(w) \notin Alerts!Moved
  BY DEF Alerts!Quietly
<1>2. \A w \in Worker : check'[w] = check[w] => Alerts!Scope(w)' = Alerts!Scope(w)
  BY DEF Alerts!Scope
<1>3. CleanKnows'
  <2> SUFFICES ASSUME NEW w \in clean' PROVE Past(w)' /\ Unrivalled(w)' /\ Informed(w)'
    BY DEF CleanKnows
  <2> DEFINE o == check[w].user
             z == Alerts!Scope(w)
  <2>1. w \in Worker /\ Past(w) /\ Unrivalled(w) /\ Informed(w)
    BY <1>1 DEF AlertsKnown, HistoryTypes, CleanKnows
  <2>2. check'[w] = check[w] /\ z' = z /\ o \in Users /\ z \in Scopes
    BY <1>2, <2>1, AlertTypes DEF AlertsKnown, Past, Alerts!Scope
  <2>3. Past(w)'
    BY <2>1, <2>2 DEF Past
  <2>4. Unrivalled(w)'
    BY <1>2, <2>1, <2>2 DEF Unrivalled, Mine, Past
  <2>5. <<o, z>> \notin Alerts!Moved
    BY <1>1 DEF Alerts!Pair
  <2>6. /\ Alerts!Of(spent, z)' = Alerts!Of(spent, z)
        /\ Alerts!Of(limit, z)' = Alerts!Of(limit, z)
        /\ Alerts!LevelNow(z)' = Alerts!LevelNow(z)
    <3> HIDE DEF o, z
    <3> QED BY <2>2, <2>5, UnmovedFigures DEF AlertsKnown
  <2>7. check[w].at = "spent" => z = Budget
    BY <2>1 DEF AlertsKnown, StageKnown
  <2>8. Informed(w)'
    BY <2>1, <2>2, <2>6, <2>7 DEF Informed
  <2> QED BY <2>3, <2>4, <2>8
<1>4. \A u \in Users, s \in Scopes : <<u, s>> \in fresh' =>
        Alerts!LevelNow(s)' = Alerts!LevelNow(s) /\ Alerts!Of(spent, s)' = Alerts!Of(spent, s)
  BY <1>1, UnmovedFigures DEF AlertsKnown
<1>5. \A w \in Worker : check'[w].at = "spent" => Alerts!Scope(w)' = Budget
  BY <1>2 DEF AlertsKnown, StageKnown
<1> QED BY <1>1, <1>3, <1>4, <1>5, QuietAlerts DEF AlertsKnown, HistoryTypes

LEMMA LevelTypes == \A n, m : Alerts!limit_level(n, m) \in Levels \union {None}
BY DEF Alerts!limit_level, Levels, Alerts!Levels

\* A request reads its scope, wholly or the budget's limit first.
LEMMA FirstReadFacts ==
    ASSUME Alerts!TypeOK, NEW w \in Worker, Alerts!Begins(w)
    PROVE  /\ Alerts!TypeOK' /\ UNCHANGED <<spent, limit, alert>>
           /\ \A v \in Worker : v # w => check'[v] = check[v]
           /\ check[w].at = "read" /\ check'[w].at \in {"spent", "clear"}
           /\ check'[w].user = check[w].user /\ check'[w].todo = check[w].todo
           /\ check'[w].at = "spent" => Alerts!Scope(w) = Budget /\ check'[w].limit = Alerts!Of(limit, Budget)
           /\ check'[w].at = "clear" => /\ check'[w].level = Alerts!LevelNow(Alerts!Scope(w))
                                        /\ check'[w].figure = Alerts!Of(spent, Alerts!Scope(w))
<1>1. check[w].at = "read" /\ UNCHANGED <<spent, limit, alert>>
  BY DEF Alerts!Begins, Alerts!ReadCategory, Alerts!ReadBudgetLimit
<1>2. Alerts!Scope(w) \in Scopes /\ check[w].todo # << >>
  BY <1>1, AlertTypes DEF Alerts!Scope
<1>3. CASE Alerts!ReadCategory(w)
  <2> DEFINE z == Alerts!Scope(w)
             l == Alerts!LevelNow(z)
  <2>1. z # Budget /\ z \in Categories /\ Alerts!Found(w, l, spent[z])
    BY <1>2, <1>3, AlertConstants DEF Alerts!ReadCategory
  <2>2. l \in Levels \union {None} /\ spent[z] \in Nat /\ spent[z] = Alerts!Of(spent, z)
    BY <2>1, LevelTypes, AlertTypes, AlertConstants, OfCategory DEF Alerts!LevelNow
  <2>3. /\ check' \in [Worker -> CheckStates]
        /\ \A v \in Worker : v # w => check'[v] = check[v]
        /\ check'[w].at = "clear" /\ check'[w].user = check[w].user /\ check'[w].todo = check[w].todo
        /\ check'[w].level = l /\ check'[w].figure = spent[z]
    <3> HIDE DEF l, z
    <3> QED BY <1>1, <2>1, <2>2, FoundTo
  <2>4. Alerts!TypeOK'
    BY <1>1, <1>2, <2>3, AlertTypes, AlertTypesNext DEF Alerts!TypeOK, AtRest
  <2> QED BY <1>1, <2>2, <2>3, <2>4
<1>4. CASE Alerts!ReadBudgetLimit(w)
  <2>1. /\ check' \in [Worker -> CheckStates]
        /\ \A v \in Worker : v # w => check'[v] = check[v]
        /\ check'[w].at = "spent" /\ check'[w].user = check[w].user /\ check'[w].todo = check[w].todo
        /\ check'[w].limit = Alerts!Of(limit, Budget)
    BY <1>4, LimitTo
  <2>2. Alerts!TypeOK'
    BY <1>1, <1>2, <2>1, AlertTypes, AlertTypesNext DEF Alerts!TypeOK, AtRest
  <2> QED BY <1>1, <1>4, <2>1, <2>2 DEF Alerts!ReadBudgetLimit
<1> QED BY <1>3, <1>4 DEF Alerts!Begins

LEMMA FirstReadKeeps ==
    ASSUME AlertsKnown, NEW w \in Worker, Alerts!Begins(w),
           clean' = IF Alerts!Rivals(w) = {} THEN clean \union {w} ELSE clean \ Alerts!Rivals(w),
           UNCHANGED <<told, fresh, troubles>>
    PROVE  AlertsKnown'
<1>1. /\ Alerts!TypeOK /\ Alerts!TypeOK' /\ UNCHANGED <<spent, limit, alert>>
      /\ \A v \in Worker : v # w => check'[v] = check[v]
      /\ check[w].at = "read" /\ check'[w].at \in {"spent", "clear"}
      /\ check'[w].user = check[w].user /\ check'[w].todo = check[w].todo
  BY FirstReadFacts DEF AlertsKnown
<1>2. /\ check'[w].at = "spent" => Alerts!Scope(w) = Budget /\ check'[w].limit = Alerts!Of(limit, Budget)
      /\ check'[w].at = "clear" => /\ check'[w].level = Alerts!LevelNow(Alerts!Scope(w))
                                   /\ check'[w].figure = Alerts!Of(spent, Alerts!Scope(w))
  BY <1>1, FirstReadFacts
<1>3. \A s : Alerts!Of(spent, s)' = Alerts!Of(spent, s) /\ Alerts!Of(limit, s)' = Alerts!Of(limit, s)
             /\ Alerts!LevelNow(s)' = Alerts!LevelNow(s)
  BY <1>1, FiguresStay
<1>4. \A v \in Worker : Alerts!Scope(v)' = Alerts!Scope(v) /\ check'[v].user = check[v].user
                        /\ (v # w => (Past(v)' <=> Past(v)))
  BY <1>1 DEF Alerts!Scope, Past
<1>5. ASSUME NEW v \in clean', v # w
      PROVE  v \in clean /\ v \in Worker /\ Past(v) /\ Unrivalled(v) /\ Informed(v)
             /\ ~ Mine(w, check[v].user, Alerts!Scope(v))
  <2>1. v \in clean
    BY <1>5
  <2>2. v \in Worker /\ Past(v) /\ Unrivalled(v) /\ Informed(v)
    BY <2>1 DEF AlertsKnown, HistoryTypes, CleanKnows
  <2>3. v \notin Alerts!Rivals(w)
    BY <1>5
  <2>4. ~ Mine(w, check[v].user, Alerts!Scope(v))
    BY <1>5, <2>2, <2>3 DEF Alerts!Rivals, Alerts!Past, Past, Mine
  <2> QED BY <2>1, <2>2, <2>4
<1>6. CleanKnows'
  <2> SUFFICES ASSUME NEW v \in clean' PROVE Past(v)' /\ Unrivalled(v)' /\ Informed(v)'
    BY DEF CleanKnows
  <2>1. CASE v = w
    <3>1. w \in clean'
      BY <2>1
    <3>2. w \notin clean
      BY <1>1 DEF AlertsKnown, CleanKnows, Past
    <3>3. Alerts!Rivals(w) = {}
      BY <3>1, <3>2
    <3>4. Unrivalled(w)'
      BY <1>4, <3>3 DEF Unrivalled, Mine, Past, Alerts!Rivals, Alerts!Past
    <3>5. Past(w)'
      BY <1>1 DEF Past
    <3>6. Informed(w)'
      BY <1>1, <1>2, <1>3, <1>4 DEF Informed
    <3> QED BY <2>1, <3>4, <3>5, <3>6
  <2>2. CASE v # w
    <3>1. Past(v)'
      BY <1>4, <1>5, <2>2
    <3>2. Unrivalled(v)'
      BY <1>4, <1>5, <2>2 DEF Unrivalled, Mine
    <3>3. Informed(v)'
      BY <1>1, <1>3, <1>4, <1>5, <2>2 DEF Informed
    <3> QED BY <3>1, <3>2, <3>3
  <2> QED BY <2>1, <2>2
<1>7. clean' \subseteq Worker /\ troubles' \in Nat
  BY DEF AlertsKnown, HistoryTypes
<1>8. \A v \in Worker : check'[v].at = "spent" => Alerts!Scope(v)' = Budget
  BY <1>1, <1>2, <1>4 DEF AlertsKnown, StageKnown
<1>9. \A v \in Worker : check'[v].at = "raise" \/ check[v].at = "raise" => check'[v] = check[v]
  BY <1>1
<1>10. \A v \in clean' : check'[v].at = "raise" => v \in clean
  BY <1>1, <1>5
<1> QED BY <1>1, <1>3, <1>6, <1>7, <1>8, <1>9, <1>10, QuietAlerts

\* The second query of the budget.
LEMMA SpentFacts ==
    ASSUME AlertsKnown, NEW w \in Worker, Alerts!ReadBudgetSpent(w)
    PROVE  /\ Alerts!TypeOK' /\ UNCHANGED <<spent, limit, alert>>
           /\ \A v \in Worker : v # w => check'[v] = check[v]
           /\ check[w].at = "spent" /\ check'[w].at = "clear"
           /\ check'[w].user = check[w].user /\ check'[w].todo = check[w].todo
           /\ check'[w].level = Alerts!limit_level(Alerts!Of(spent, Budget), check[w].limit)
           /\ check'[w].figure = Alerts!Of(spent, Budget)
<1> DEFINE n == Alerts!Of(spent, Budget)
           l == Alerts!limit_level(n, check[w].limit)
<1>1. check[w].at = "spent" /\ UNCHANGED <<spent, limit, alert>> /\ Alerts!Found(w, l, n)
      /\ Alerts!TypeOK /\ check[w].todo # << >>
  BY AlertTypes DEF AlertsKnown, Alerts!ReadBudgetSpent
<1>2. l \in Levels \union {None} /\ n \in Nat
  BY <1>1, LevelTypes, AlertTypes, AlertConstants
<1>3. /\ check' \in [Worker -> CheckStates]
      /\ \A v \in Worker : v # w => check'[v] = check[v]
      /\ check'[w].at = "clear" /\ check'[w].user = check[w].user /\ check'[w].todo = check[w].todo
      /\ check'[w].level = l /\ check'[w].figure = n
  <2> HIDE DEF l, n
  <2> QED BY <1>1, <1>2, FoundTo
<1>4. Alerts!TypeOK'
  BY <1>1, <1>3, AlertTypes, AlertTypesNext DEF Alerts!TypeOK, AtRest
<1> QED BY <1>1, <1>3, <1>4

LEMMA SpentKeeps ==
    ASSUME AlertsKnown, NEW w \in Worker, Alerts!ReadBudgetSpent(w),
           UNCHANGED <<told, fresh, clean, troubles>>
    PROVE  AlertsKnown'
<1>1. /\ Alerts!TypeOK' /\ UNCHANGED <<spent, limit, alert>>
      /\ \A v \in Worker : v # w => check'[v] = check[v]
      /\ check[w].at = "spent" /\ check'[w].at = "clear"
      /\ check'[w].user = check[w].user /\ check'[w].todo = check[w].todo
      /\ check'[w].level = Alerts!limit_level(Alerts!Of(spent, Budget), check[w].limit)
      /\ check'[w].figure = Alerts!Of(spent, Budget)
  BY SpentFacts
<1>2. \A s : Alerts!Of(spent, s)' = Alerts!Of(spent, s) /\ Alerts!Of(limit, s)' = Alerts!Of(limit, s)
             /\ Alerts!LevelNow(s)' = Alerts!LevelNow(s)
  BY <1>1, FiguresStay
<1>3. \A v \in Worker : Alerts!Scope(v)' = Alerts!Scope(v) /\ check'[v].user = check[v].user
                        /\ (Past(v)' <=> Past(v))
  BY <1>1 DEF Alerts!Scope, Past
<1>4. Alerts!Scope(w) = Budget
  BY <1>1 DEF AlertsKnown, StageKnown
<1>5. CleanKnows'
  <2> SUFFICES ASSUME NEW v \in clean PROVE Past(v)' /\ Unrivalled(v)' /\ Informed(v)'
    BY DEF CleanKnows
  <2>1. v \in Worker /\ Past(v) /\ Unrivalled(v) /\ Informed(v)
    BY DEF AlertsKnown, HistoryTypes, CleanKnows
  <2>2. Past(v)' /\ Unrivalled(v)'
    BY <1>3, <2>1 DEF Unrivalled, Mine
  <2>3. v = w => check'[w].level = Alerts!LevelNow(Budget)
    BY <1>1, <2>1 DEF Informed, Alerts!LevelNow
  <2>4. Informed(v)'
    BY <1>1, <1>2, <1>3, <1>4, <2>1, <2>3 DEF Informed
  <2> QED BY <2>2, <2>4
<1>6. clean' \subseteq Worker /\ troubles' \in Nat
  BY DEF AlertsKnown, HistoryTypes
<1>7. \A v \in Worker : check'[v].at = "spent" => Alerts!Scope(v)' = Budget
  BY <1>1, <1>3 DEF AlertsKnown, StageKnown
<1>8. \A v \in Worker : check'[v].at = "raise" \/ check[v].at = "raise" => check'[v] = check[v]
  BY <1>1
<1> QED BY <1>1, <1>2, <1>5, <1>6, <1>7, <1>8, QuietAlerts

\* The DELETE of what is stale, done or failed.
LEMMA ClearFacts ==
    ASSUME AlertsKnown, NEW w \in Worker, Alerts!ClearStale(w)
    PROVE  /\ Alerts!TypeOK' /\ UNCHANGED <<spent, limit>>
           /\ check[w].at = "clear" /\ check[w].level \in Levels \union {None}
           /\ \A v \in Worker : v # w => check'[v] = check[v]
           /\ \/ \A u \in Users, s \in Scopes, l \in Levels :
                   alert'[<<u, s, l>>] = IF Mine(w, u, s) /\ l # check[w].level THEN None ELSE alert[<<u, s, l>>]
              \/ alert' = alert
           /\ check[w].level = None => Alerts!Done(w) /\ check'[w].at \in {"idle", "read"}
           /\ check[w].level # None =>
                /\ check'[w].at = "raise" /\ check'[w].user = check[w].user /\ check'[w].todo = check[w].todo
                /\ check'[w].level = check[w].level /\ check'[w].figure = check[w].figure
                /\ check[w].level = "approaching" /\ alert[<<check[w].user, Alerts!Scope(w), "exceeded">>] # None
                     => check'[w].downgraded
<1> DEFINE o == check[w].user
           z == Alerts!Scope(w)
           e == check[w].level
           stale == {<<o, z, l>> : l \in Alerts!stale_limit_keys(e)}
<1>1. /\ check[w].at = "clear" /\ UNCHANGED <<spent, limit>> /\ Alerts!TypeOK
      /\ o \in Users /\ z \in Scopes /\ e \in Levels \union {None} /\ check[w].todo # << >>
  <2>1. check[w].at = "clear" /\ UNCHANGED <<spent, limit>> /\ Alerts!TypeOK
    BY DEF AlertsKnown, Alerts!ClearStale
  <2>2. check[w] \in Deciding /\ z \in Scopes /\ check[w].todo # << >>
    BY <2>1, AlertTypes DEF Alerts!Scope
  <2> QED BY <2>1, <2>2 DEF Deciding
<1>2. /\ alert \in [Users \X Scopes \X Levels -> Nat \union {None}]
      /\ Users \X Scopes \X Levels = Alerts!Keys
      /\ \A l : l \in Alerts!stale_limit_keys(e) <=> l \in Levels /\ l # e
  BY <1>1, AlertTypes DEF Alerts!Keys, Scopes, Levels, Alerts!stale_limit_keys
<1>3. \A u \in Users, s \in Scopes, l \in Levels :
        <<u, s, l>> \in stale <=> Mine(w, u, s) /\ l # e
  BY <1>2 DEF Mine
<1> DEFINE emptied == [k \in Alerts!Keys |-> IF k \in stale THEN None ELSE alert[k]]
<1>4. PICK d \in BOOLEAN :
        /\ \/ alert' = emptied /\ d = (\E k \in stale : alert[k] # None)
           \/ alert' = alert /\ d = TRUE
        /\ IF e = None THEN Alerts!Done(w)
           ELSE check' = [check EXCEPT ![w].at = "raise", ![w].downgraded = d]
  <2> DEFINE worse == \E k \in stale : alert[k] # None
  <2>1. \/ /\ alert' = emptied
           /\ IF e = None THEN Alerts!Done(w)
              ELSE check' = [check EXCEPT ![w].at = "raise", ![w].downgraded = worse]
        \/ /\ alert' = alert
           /\ IF e = None THEN Alerts!Done(w)
              ELSE check' = [check EXCEPT ![w].at = "raise", ![w].downgraded = TRUE]
    BY DEF Alerts!ClearStale
  <2>2. worse \in BOOLEAN /\ TRUE \in BOOLEAN
    OBVIOUS
  <2> HIDE DEF worse
  <2>3. \/ alert' = emptied /\ worse = worse
        \/ alert' = alert
    BY <2>1
  <2> QED BY <2>1, <2>2, Zenon DEF worse
<1>5. \/ \A u \in Users, s \in Scopes, l \in Levels :
           alert'[<<u, s, l>>] = IF Mine(w, u, s) /\ l # e THEN None ELSE alert[<<u, s, l>>]
      \/ alert' = alert
  <2>1. ASSUME alert' = emptied, NEW u \in Users, NEW s \in Scopes, NEW l \in Levels
        PROVE  alert'[<<u, s, l>>] = IF Mine(w, u, s) /\ l # e THEN None ELSE alert[<<u, s, l>>]
    BY <1>2, <1>3, <2>1
  <2> QED BY <1>4, <2>1
<1>6. alert' \in [Users \X Scopes \X Levels -> Nat \union {None}]
  BY <1>2, <1>4
<1>7. CASE e = None
  <2>1. Alerts!Done(w)
    BY <1>4, <1>7
  <2>2. /\ check' \in [Worker -> CheckStates]
        /\ \A v \in Worker : v # w => check'[v] = check[v]
        /\ check'[w] = AtRest \/ (check'[w].at = "read" /\ check'[w].todo # << >>)
    BY <1>1, <2>1, DoneGoesOn
  <2>3. check'[w].at \in {"idle", "read"}
    BY <2>2 DEF AtRest, Alerts!Idle
  <2>4. Alerts!TypeOK'
    BY <1>1, <1>6, <2>2, AlertTypes, AlertTypesNext DEF Alerts!TypeOK, AtRest
  <2> QED BY <1>1, <1>5, <1>7, <2>1, <2>2, <2>3, <2>4
<1>8. CASE e # None
  <2>1. check' = [check EXCEPT ![w].at = "raise", ![w].downgraded = d]
    BY <1>4, <1>8
  <2>2. /\ check' \in [Worker -> CheckStates]
        /\ \A v \in Worker : v # w => check'[v] = check[v]
        /\ check'[w].at = "raise" /\ check'[w].user = o /\ check'[w].todo = check[w].todo
        /\ check'[w].level = e /\ check'[w].figure = check[w].figure
        /\ check'[w].downgraded = d
    BY <1>1, <2>1, RaiseTo
  <2>3. Alerts!TypeOK'
    BY <1>1, <1>6, <2>2, AlertTypes, AlertTypesNext DEF Alerts!TypeOK, AtRest
  <2>4. ASSUME e = "approaching", alert[<<o, z, "exceeded">>] # None PROVE d
    <3>1. <<o, z, "exceeded">> \in stale
      BY <1>1, <1>3, <2>4, AlertConstants DEF Mine
    <3> HIDE DEF stale
    <3> QED BY <1>4, <2>4, <3>1
  <2> QED BY <1>1, <1>5, <1>8, <2>2, <2>3, <2>4
<1> QED BY <1>7, <1>8

\* The upsert of the alert, done or failed.
LEMMA RaiseFacts ==
    ASSUME AlertsKnown, NEW w \in Worker, Alerts!RaiseAlert(w)
    PROVE  /\ Alerts!TypeOK' /\ UNCHANGED <<spent, limit>> /\ Alerts!Done(w)
           /\ check[w].at = "raise" /\ check[w].level \in Levels /\ check'[w].at \in {"idle", "read"}
           /\ \A v \in Worker : v # w => check'[v] = check[v]
           /\ \A u \in Users, s \in Scopes, l \in Levels :
                alert'[<<u, s, l>>] = alert[<<u, s, l>>] \/ (Mine(w, u, s) /\ l = check[w].level)
<1> DEFINE o == check[w].user
           z == Alerts!Scope(w)
           e == check[w].level
           n == check[w].figure
<1>1. check[w].at = "raise" /\ UNCHANGED <<spent, limit>> /\ Alerts!Done(w) /\ Alerts!TypeOK
      /\ (alert' = [alert EXCEPT ![<<o, z, e>>] = n] \/ alert' = alert)
  BY DEF AlertsKnown, Alerts!RaiseAlert, Alerts!KeyOf, Alerts!Refreshed
<1>2. o \in Users /\ z \in Scopes /\ e \in Levels /\ n \in Nat /\ check[w].todo # << >>
  <2>1. check[w] \in Deciding /\ z \in Scopes /\ check[w].todo # << >>
    BY <1>1, AlertTypes DEF Alerts!Scope
  <2>2. e \in Levels
    BY <1>1 DEF AlertsKnown, StageKnown
  <2> QED BY <2>1, <2>2 DEF Deciding
<1>3. alert \in [Users \X Scopes \X Levels -> Nat \union {None}]
  BY <1>1, AlertTypes
<1>4. /\ alert' \in [Users \X Scopes \X Levels -> Nat \union {None}]
      /\ \A u \in Users, s \in Scopes, l \in Levels :
           alert'[<<u, s, l>>] = alert[<<u, s, l>>] \/ (Mine(w, u, s) /\ l = e)
  BY <1>1, <1>2, <1>3 DEF Mine
<1>5. /\ check' \in [Worker -> CheckStates]
      /\ \A v \in Worker : v # w => check'[v] = check[v]
      /\ check'[w] = AtRest \/ (check'[w].at = "read" /\ check'[w].todo # << >>)
  BY <1>1, DoneGoesOn
<1>6. check'[w].at \in {"idle", "read"}
  BY <1>5 DEF AtRest, Alerts!Idle
<1>7. Alerts!TypeOK'
  BY <1>1, <1>4, <1>5, AlertTypes, AlertTypesNext DEF Alerts!TypeOK, AtRest
<1> QED BY <1>1, <1>2, <1>4, <1>5, <1>6, <1>7

Written(w) == Alerts!ClearStale(w) \/ Alerts!RaiseAlert(w)

\* A write is past the first read, and stays within its scope.
LEMMA WrittenFacts ==
    ASSUME AlertsKnown, NEW w \in Worker, Written(w)
    PROVE  /\ Alerts!TypeOK' /\ UNCHANGED <<spent, limit>> /\ Past(w)
           /\ \A v \in Worker : v # w => check'[v] = check[v]
           /\ check'[w].at = "raise" =>
                /\ check'[w].user = check[w].user /\ Alerts!Scope(w)' = Alerts!Scope(w)
                /\ check'[w].level \in Levels
           /\ check'[w].at # "spent" /\ check'[w].at # "clear"
           /\ \A u \in Users, s \in Scopes, l \in Levels :
                alert'[<<u, s, l>>] = alert[<<u, s, l>>] \/ Mine(w, u, s)
<1>1. CASE Alerts!ClearStale(w)
  BY <1>1, ClearFacts DEF Past, Alerts!Scope
<1>2. CASE Alerts!RaiseAlert(w)
  BY <1>2, RaiseFacts DEF Past
<1> QED BY <1>1, <1>2 DEF Written

LEMMA DisturbedKeeps ==
    ASSUME AlertsKnown, NEW w \in Worker, Written(w), Alerts!Disturb({Alerts!Pair(w)}),
           clean' = clean \ {w}, troubles' \in Nat
    PROVE  AlertsKnown'
BY WrittenFacts, WritesKeep

LEMMA CleanKeeps ==
    ASSUME AlertsKnown, NEW w \in clean, Written(w), Alerts!Writes(w),
           IF Alerts!Ends(w) THEN /\ told' = [told EXCEPT ![Alerts!Pair(w)] = check[w].level]
                                  /\ fresh' = fresh \union {Alerts!Pair(w)}
                                  /\ clean' = clean \ {w}
           ELSE UNCHANGED <<told, fresh, clean>>,
           UNCHANGED troubles
    PROVE  AlertsKnown'
<1> DEFINE o == check[w].user
           z == Alerts!Scope(w)
           e == check[w].level
<1>1. /\ w \in Worker /\ Alerts!TypeOK' /\ UNCHANGED <<spent, limit>> /\ Past(w)
      /\ \A v \in Worker : v # w => check'[v] = check[v]
  BY WrittenFacts DEF AlertsKnown, HistoryTypes
<1>2. o \in Users /\ z \in Scopes
  BY <1>1, AlertTypes DEF AlertsKnown, Past, Alerts!Scope
<1>3. CASE Alerts!ClearStale(w)
  <2>1. /\ check[w].at = "clear" /\ e \in Levels \union {None}
        /\ \/ \A u \in Users, s \in Scopes, l \in Levels :
                alert'[<<u, s, l>>] = IF Mine(w, u, s) /\ l # e THEN None ELSE alert[<<u, s, l>>]
           \/ alert' = alert
    BY <1>1, <1>3, ClearFacts
  <2>2. \A l \in Levels : l # e => alert'[<<o, z, l>>] = None
    BY <2>1 DEF Alerts!Writes, Alerts!stale_limit_keys, Levels
  <2>3. \A u \in Users, s \in Scopes, l \in Levels :
          alert'[<<u, s, l>>] = IF Mine(w, u, s) /\ l # e THEN None ELSE alert[<<u, s, l>>]
    <3>1. ASSUME alert' = alert, NEW u \in Users, NEW s \in Scopes, NEW l \in Levels, Mine(w, u, s), l # e
          PROVE  alert[<<u, s, l>>] = None
      <4>1. u = o /\ s = z
        BY <3>1 DEF Mine
      <4> QED BY <2>2, <3>1, <4>1
    <3> HIDE DEF e
    <3> QED BY <2>1, <3>1
  <2>4. CASE e = None
    <3>1. check'[w].at \in {"idle", "read"}
      BY <1>1, <1>3, <2>4, ClearFacts
    <3>2. Alerts!Ends(w)
      BY <1>3, <3>1 DEF Alerts!Ends
    <3>3. \A u \in Users, s \in Scopes, l \in Levels :
            alert'[<<u, s, l>>] = IF Mine(w, u, s) THEN IF l = e THEN check[w].figure ELSE None
                                  ELSE alert[<<u, s, l>>]
      BY <2>3, <2>4, AlertConstants
    <3> QED BY <1>1, <2>1, <3>1, <3>2, <3>3, ConcludesKeep
  <2>5. CASE e # None
    <3>1. /\ check'[w].at = "raise" /\ check'[w].user = o /\ check'[w].todo = check[w].todo
          /\ check'[w].level = e /\ check'[w].figure = check[w].figure
          /\ e = "approaching" /\ alert[<<o, z, "exceeded">>] # None => check'[w].downgraded
      BY <1>1, <1>3, <2>5, ClearFacts
    <3>2. ~ Alerts!Ends(w)
      BY <3>1 DEF Alerts!Ends
    <3> QED BY <1>1, <2>1, <2>3, <2>5, <3>1, <3>2, ClearsKeep
  <2> QED BY <2>4, <2>5
<1>4. CASE Alerts!RaiseAlert(w)
  <2>1. /\ check[w].at = "raise" /\ e \in Levels /\ check'[w].at \in {"idle", "read"}
        /\ \A u \in Users, s \in Scopes, l \in Levels :
             alert'[<<u, s, l>>] = alert[<<u, s, l>>] \/ (Mine(w, u, s) /\ l = e)
    BY <1>1, <1>4, RaiseFacts
  <2>2. Alerts!Ends(w)
    BY <1>4, <2>1 DEF Alerts!Ends
  <2>3. alert'[<<o, z, e>>] = check[w].figure
    BY <2>1 DEF Alerts!Writes, Alerts!KeyOf, Alerts!Refreshed
  <2>4. \A l \in Levels \ {e} : alert[<<o, z, l>>] = None
    BY <2>1 DEF AlertsKnown, Cleared, Safe
  <2>5. \A u \in Users, s \in Scopes, l \in Levels :
          alert'[<<u, s, l>>] = IF Mine(w, u, s) THEN IF l = e THEN check[w].figure ELSE None
                                ELSE alert[<<u, s, l>>]
    <3> SUFFICES ASSUME NEW u \in Users, NEW s \in Scopes, NEW l \in Levels
                 PROVE  alert'[<<u, s, l>>] = IF Mine(w, u, s) THEN IF l = e THEN check[w].figure ELSE None
                                              ELSE alert[<<u, s, l>>]
      OBVIOUS
    <3>1. CASE Mine(w, u, s)
      <4>1. u = o /\ s = z
        BY <3>1 DEF Mine
      <4>2. l # e => alert'[<<u, s, l>>] = None
        BY <2>1, <2>4, <4>1
      <4> QED BY <2>3, <3>1, <4>1, <4>2
    <3>2. CASE ~ Mine(w, u, s)
      BY <2>1, <3>2
    <3> QED BY <3>1, <3>2
  <2> QED BY <1>1, <2>1, <2>2, <2>5, ConcludesKeep
<1> QED BY <1>3, <1>4 DEF Written

\* A query fails, or the request is cut off.
LEMMA StopFacts ==
    ASSUME AlertsKnown, NEW w \in Worker, Alerts!ReadFails(w) \/ Alerts!CutOff(w)
    PROVE  /\ Alerts!TypeOK' /\ UNCHANGED <<spent, limit, alert>>
           /\ check[w].at # "idle" /\ check'[w].at \in {"idle", "read"}
           /\ \A v \in Worker : v # w => check'[v] = check[v]
<1>1. Alerts!TypeOK /\ AtRest \in CheckStates /\ UNCHANGED <<spent, limit, alert>>
  BY DEF AlertsKnown, CheckStates, Alerts!ReadFails, Alerts!CutOff
<1>2. CASE Alerts!ReadFails(w)
  <2>1. check[w].at \in {"read", "spent"} /\ Alerts!Done(w)
    BY <1>2 DEF Alerts!ReadFails
  <2>2. /\ check' \in [Worker -> CheckStates]
        /\ \A v \in Worker : v # w => check'[v] = check[v]
        /\ check'[w] = AtRest \/ (check'[w].at = "read" /\ check'[w].todo # << >>)
    BY <1>1, <2>1, DoneGoesOn
  <2>3. check'[w].at \in {"idle", "read"}
    BY <2>2 DEF AtRest, Alerts!Idle
  <2>4. Alerts!TypeOK'
    BY <1>1, <2>2, AlertTypes, AlertTypesNext DEF Alerts!TypeOK, AtRest
  <2> QED BY <1>1, <2>1, <2>2, <2>3, <2>4
<1>3. CASE Alerts!CutOff(w)
  <2>1. check[w] # AtRest /\ check' = [check EXCEPT ![w] = AtRest]
    BY <1>3 DEF Alerts!CutOff, AtRest
  <2>2. check' \in [Worker -> CheckStates] /\ check'[w] = AtRest
        /\ \A v \in Worker : v # w => check'[v] = check[v]
    BY <1>1, <2>1, PutCheck
  <2>3. check[w].at # "idle" /\ check'[w].at = "idle"
    BY <1>1, <2>1, <2>2, AlertTypes DEF AtRest, Alerts!Idle
  <2>4. Alerts!TypeOK'
    BY <1>1, <2>2, AlertTypes, AlertTypesNext DEF Alerts!TypeOK, AtRest
  <2> QED BY <1>1, <2>2, <2>3, <2>4
<1> QED BY <1>2, <1>3

LEMMA StopsKeep ==
    ASSUME AlertsKnown, NEW w \in Worker, Alerts!ReadFails(w) \/ Alerts!CutOff(w),
           IF check[w].at = "raise" THEN Alerts!Disturb({Alerts!Pair(w)}) ELSE UNCHANGED <<told, fresh>>,
           clean' = clean \ {w}, troubles' \in Nat
    PROVE  AlertsKnown'
<1>1. /\ Alerts!TypeOK' /\ UNCHANGED <<spent, limit, alert>>
      /\ check[w].at # "idle" /\ check'[w].at \in {"idle", "read"}
      /\ \A v \in Worker : v # w => check'[v] = check[v]
  BY StopFacts
<1>2. CASE check[w].at = "raise"
  BY <1>1, <1>2, WritesKeep DEF Past
<1>3. CASE check[w].at # "raise"
  <2>1. \A s : Alerts!Of(spent, s)' = Alerts!Of(spent, s) /\ Alerts!Of(limit, s)' = Alerts!Of(limit, s)
               /\ Alerts!LevelNow(s)' = Alerts!LevelNow(s)
    BY <1>1, FiguresStay
  <2>2. \A v \in Worker : v # w => Alerts!Scope(v)' = Alerts!Scope(v) /\ (Past(v)' <=> Past(v))
    BY <1>1 DEF Alerts!Scope, Past
  <2>3. ~ Past(w)'
    BY <1>1 DEF Past
  <2>4. CleanKnows'
    <3> SUFFICES ASSUME NEW v \in clean, v # w PROVE Past(v)' /\ Unrivalled(v)' /\ Informed(v)'
      BY DEF CleanKnows
    <3>1. v \in Worker /\ Past(v) /\ Unrivalled(v) /\ Informed(v)
      BY DEF AlertsKnown, HistoryTypes, CleanKnows
    <3>2. Past(v)'
      BY <2>2, <3>1
    <3>3. Unrivalled(v)'
      <4> SUFFICES ASSUME NEW x \in Worker, x # v, Past(x)'
                   PROVE  ~ Mine(x, check[v].user, Alerts!Scope(v))'
        BY DEF Unrivalled
      <4>1. x # w /\ Past(x) /\ ~ Mine(x, check[v].user, Alerts!Scope(v))
        BY <2>2, <2>3, <3>1 DEF Unrivalled
      <4>2. check'[x] = check[x] /\ check'[v] = check[v] /\ Alerts!Scope(v)' = Alerts!Scope(v)
            /\ Alerts!Scope(x)' = Alerts!Scope(x)
        BY <1>1, <2>2, <3>1, <4>1
      <4> QED BY <4>1, <4>2 DEF Mine
    <3>4. Informed(v)'
      BY <1>1, <2>1, <2>2, <3>1 DEF Informed
    <3> QED BY <3>2, <3>3, <3>4
  <2>5. clean' \subseteq Worker
    BY DEF AlertsKnown, HistoryTypes
  <2>6. \A v \in Worker : check'[v].at = "spent" => Alerts!Scope(v)' = Budget
    BY <1>1, <2>2 DEF AlertsKnown, StageKnown
  <2>7. \A v \in Worker : check'[v].at = "raise" \/ check[v].at = "raise" => check'[v] = check[v]
    BY <1>1, <1>3
  <2>8. \A v \in clean' : check'[v].at = "raise" => v \in clean
    OBVIOUS
  <2> QED BY <1>1, <1>3, <2>1, <2>4, <2>5, <2>6, <2>7, <2>8, QuietAlerts
<1> QED BY <1>2, <1>3

LEMMA RequestKeeps ==
    ASSUME AlertsKnown, Alerts!Request, UNCHANGED troubles
    PROVE  AlertsKnown'
<1>1. Alerts!Quietly /\ troubles' \in Nat /\ Alerts!TypeOK
  BY DEF Alerts!Request, AlertsKnown, HistoryTypes
<1>2. PICK w \in Worker, u \in Users, c \in Categories :
        Alerts!Spend(w, u, c) \/ \E d \in Categories : Alerts!Move(w, u, c, d)
  BY DEF Alerts!Request
<1>3. /\ Alerts!TypeOK' /\ alert' = alert
      /\ \A v \in Worker : check'[v] = check[v] \/ (check[v].at = "idle" /\ check'[v].at = "read")
  <2>1. CASE Alerts!Spend(w, u, c)
    BY <1>1, <2>1, SpendTypes DEF Spends
  <2>2. ASSUME NEW d \in Categories, Alerts!Move(w, u, c, d)
        PROVE  /\ Alerts!TypeOK' /\ alert' = alert
               /\ \A v \in Worker : check'[v] = check[v] \/ (check[v].at = "idle" /\ check'[v].at = "read")
    BY <1>1, <2>2, MoveTypes DEF Spends
  <2> QED BY <1>2, <2>1, <2>2
<1> QED BY <1>1, <1>3, SpendingKeeps

LEMMA TroubleKeeps ==
    ASSUME AlertsKnown, Alerts!Trouble
    PROVE  AlertsKnown' /\ troubles' # 0
<1>1. troubles \in Nat /\ troubles' \in Nat /\ troubles' # 0 /\ Alerts!TypeOK
  BY DEF Alerts!Trouble, AlertsKnown, HistoryTypes
<1>2. ASSUME NEW c \in Categories, Alerts!ChangeQuietly(c), Alerts!Quietly PROVE AlertsKnown'
  BY <1>1, <1>2, QuietTypes, SpendingKeeps
<1>3. ASSUME NEW k \in Alerts!Keys, Alerts!Dismiss(k), Alerts!Disturb({<<k[1], k[2]>>}), clean' = clean
      PROVE  AlertsKnown'
  <2>1. alert' \in [Users \X Scopes \X Levels -> Nat \union {None}] /\ UNCHANGED <<spent, limit, check>>
    BY <1>1, <1>3, AlertTypes DEF Alerts!Dismiss, Alerts!Keys, Scopes, Levels
  <2>2. Alerts!TypeOK'
    BY <1>1, <2>1, AlertTypes, AlertTypesNext DEF Alerts!TypeOK, AtRest
  <2> QED BY <1>1, <1>3, <2>2, DismissKeeps
<1>4. ASSUME NEW w \in Worker, Alerts!Fails(w) PROVE AlertsKnown'
  <2>1. CASE Alerts!ReadFails(w) \/ Alerts!CutOff(w)
    <3>1. CASE /\ IF check[w].at = "raise" THEN Alerts!Disturb({Alerts!Pair(w)})
                  ELSE UNCHANGED <<told, fresh>>
               /\ clean' = clean \ {w}
      BY <1>1, <2>1, <3>1, StopsKeep
    <3>2. CASE Written(w) /\ Alerts!Disturb({Alerts!Pair(w)}) /\ clean' = clean \ {w}
      BY <1>1, <3>2, DisturbedKeeps
    <3> QED BY <1>4, <2>1, <3>1, <3>2 DEF Alerts!Fails, Written
  <2>2. CASE ~ (Alerts!ReadFails(w) \/ Alerts!CutOff(w))
    BY <1>1, <1>4, <2>2, DisturbedKeeps DEF Alerts!Fails, Written
  <2> QED BY <2>1, <2>2
<1> QED BY <1>1, <1>2, <1>3, <1>4 DEF Alerts!Trouble

LEMMA WorkKeeps ==
    ASSUME AlertsKnown, NEW w \in Worker, Alerts!Step(w), UNCHANGED troubles
    PROVE  AlertsKnown'
<1>1. troubles' \in Nat
  BY DEF AlertsKnown, HistoryTypes
<1>2. CASE /\ Alerts!Begins(w)
           /\ clean' = IF Alerts!Rivals(w) = {} THEN clean \union {w} ELSE clean \ Alerts!Rivals(w)
           /\ UNCHANGED <<told, fresh>>
  BY <1>2, FirstReadKeeps
<1>3. CASE Alerts!ReadBudgetSpent(w) /\ UNCHANGED <<told, fresh, clean>>
  BY <1>3, SpentKeeps
<1>4. CASE /\ w \in clean /\ Written(w) /\ Alerts!Writes(w)
           /\ IF Alerts!Ends(w) THEN /\ told' = [told EXCEPT ![Alerts!Pair(w)] = check[w].level]
                                     /\ fresh' = fresh \union {Alerts!Pair(w)}
                                     /\ clean' = clean \ {w}
              ELSE UNCHANGED <<told, fresh, clean>>
  BY <1>4, CleanKeeps
<1>5. CASE Written(w) /\ Alerts!Disturb({Alerts!Pair(w)}) /\ clean' = clean \ {w}
  BY <1>1, <1>5, DisturbedKeeps
<1> QED BY <1>2, <1>3, <1>4, <1>5 DEF Alerts!Step, Written

-----------------------------------------------------------------------------
(* One request at a time, and no trouble *)

InTurn ==
  /\ \A v, w \in Worker : check[v].at # "idle" /\ check[w].at # "idle" => v = w
  /\ \A w \in Worker : Past(w) => w \in clean
  /\ \A u \in Users, s \in Scopes : told[<<u, s>>] # "unknown"
  /\ \A s \in Scopes :
       (\E u \in Users : <<u, s>> \in fresh) \/ \E w \in Worker : check[w].at # "idle" /\ s \in Ahead(w)

InOrder == crowded \/ troubles # 0 \/ InTurn

\* The scopes whose figures a request moves are those it goes on to reconcile.
LEMMA RequestInTurn ==
    ASSUME AlertsKnown, Alerts!Request, InTurn, ~ crowded'
    PROVE  InTurn'
<1>1. /\ told' = told /\ fresh' = fresh \ Alerts!Moved /\ Alerts!TypeOK
      /\ \A w \in Worker : check[w].at = "idle"
  BY AlertTypes DEF Alerts!Request, Alerts!Quietly, AlertsKnown, AtRest
<1>2. PICK w \in Worker, u \in Users, c \in Categories :
        Alerts!Spend(w, u, c) \/ \E d \in Categories : Alerts!Move(w, u, c, d)
  BY DEF Alerts!Request
<1>3. \E q \in Seq(Scopes) :
        /\ Spends(w, q)
        /\ \A s \in Scopes : s \in {q[i] : i \in 1 .. Len(q)} \/ \A v \in Users : <<v, s>> \notin Alerts!Moved
  <2>1. ASSUME Alerts!Spend(w, u, c)
        PROVE  /\ <<c, Budget>> \in Seq(Scopes) /\ Spends(w, <<c, Budget>>)
               /\ \A s \in Scopes : s \in {c, Budget} \/ \A v \in Users : <<v, s>> \notin Alerts!Moved
    <3>1. /\ Spends(w, <<c, Budget>>) /\ limit' = limit
          /\ \A b \in Categories : b # c => spent'[b] = spent[b]
      BY <1>1, <2>1, SpendTypes
    <3>2. Alerts!Touched \subseteq {c}
      BY <3>1 DEF Alerts!Touched
    <3> QED BY <3>1, <3>2, AlertConstants DEF Alerts!Moved
  <2>2. ASSUME NEW d \in Categories, Alerts!Move(w, u, c, d)
        PROVE  /\ <<d, Budget, c, Budget>> \in Seq(Scopes) /\ Spends(w, <<d, Budget, c, Budget>>)
               /\ \A s \in Scopes : s \in {c, d, Budget} \/ \A v \in Users : <<v, s>> \notin Alerts!Moved
    <3>1. /\ Spends(w, <<d, Budget, c, Budget>>) /\ limit' = limit
          /\ \A b \in Categories : b # c /\ b # d => spent'[b] = spent[b]
      BY <1>1, <2>2, MoveTypes
    <3>2. Alerts!Touched \subseteq {c, d}
      BY <3>1 DEF Alerts!Touched
    <3> QED BY <3>1, <3>2, AlertConstants DEF Alerts!Moved
  <2>3. {<<c, Budget>>[i] : i \in 1 .. Len(<<c, Budget>>)} = {c, Budget}
    OBVIOUS
  <2>4. ASSUME NEW d \in Categories
        PROVE  {c, d, Budget} \subseteq
                 {<<d, Budget, c, Budget>>[i] : i \in 1 .. Len(<<d, Budget, c, Budget>>)}
    OBVIOUS
  <2>5. CASE Alerts!Spend(w, u, c)
    BY <2>1, <2>3, <2>5
  <2>6. ASSUME NEW d \in Categories, Alerts!Move(w, u, c, d)
        PROVE  \E q \in Seq(Scopes) :
                 /\ Spends(w, q)
                 /\ \A s \in Scopes :
                      s \in {q[i] : i \in 1 .. Len(q)} \/ \A v \in Users : <<v, s>> \notin Alerts!Moved
    <3> DEFINE q == <<d, Budget, c, Budget>>
    <3>1. /\ q \in Seq(Scopes) /\ Spends(w, q)
          /\ \A s \in Scopes : s \in {c, d, Budget} \/ \A v \in Users : <<v, s>> \notin Alerts!Moved
      BY <2>2, <2>6
    <3>2. {c, d, Budget} \subseteq {q[i] : i \in 1 .. Len(q)}
      BY <2>4
    <3> HIDE DEF q
    <3> QED BY <3>1, <3>2
  <2> QED BY <1>2, <2>5, <2>6
<1>4. PICK q \in Seq(Scopes) :
        /\ Spends(w, q)
        /\ \A s \in Scopes : s \in {q[i] : i \in 1 .. Len(q)} \/ \A v \in Users : <<v, s>> \notin Alerts!Moved
  BY <1>3
<1>5. /\ check'[w].at = "read" /\ Ahead(w)' = {q[i] : i \in 1 .. Len(q)}
      /\ \A v \in Worker : v # w => check'[v].at = "idle"
  BY <1>1, <1>4 DEF Spends, Ahead
<1>6. \A v \in Worker : ~ Past(v)'
  BY <1>5 DEF Past
<1>7. ASSUME NEW s \in Scopes
      PROVE  (\E v \in Users : <<v, s>> \in fresh') \/ s \in Ahead(w)'
  <2>1. PICK v \in Users : <<v, s>> \in fresh
    BY <1>1 DEF InTurn
  <2> QED BY <1>1, <1>4, <1>5, <2>1
<1> QED BY <1>1, <1>5, <1>6, <1>7 DEF InTurn

LEMMA WorkInTurn ==
    ASSUME AlertsKnown, NEW w \in Worker, Alerts!Step(w), InTurn
    PROVE  InTurn'
<1>1. Alerts!TypeOK
  BY DEF AlertsKnown
<1>2. ASSUME check[w].at # "idle" PROVE \A v \in Worker : v # w => check[v].at = "idle" /\ ~ Past(v)
  BY <1>2 DEF InTurn, Past
<1>3. CASE /\ Alerts!Begins(w)
           /\ clean' = IF Alerts!Rivals(w) = {} THEN clean \union {w} ELSE clean \ Alerts!Rivals(w)
           /\ UNCHANGED <<told, fresh>>
  <2>1. /\ check[w].at = "read" /\ check'[w].at \in {"spent", "clear"}
        /\ check'[w].todo = check[w].todo
        /\ \A v \in Worker : v # w => check'[v] = check[v]
    BY <1>1, <1>3, FirstReadFacts
  <2>2. Alerts!Rivals(w) = {}
    BY <1>2, <2>1 DEF Alerts!Rivals, Alerts!Past, Past
  <2>3. \A v \in Worker : Past(v)' => v \in clean'
    BY <1>2, <1>3, <2>1, <2>2 DEF Past
  <2>4. \A v \in Worker : Ahead(v)' = Ahead(v) /\ (check'[v].at # "idle" <=> check[v].at # "idle")
    BY <2>1 DEF Ahead
  <2> QED BY <1>3, <2>3, <2>4 DEF InTurn
<1>4. CASE Alerts!ReadBudgetSpent(w) /\ UNCHANGED <<told, fresh, clean>>
  <2>1. /\ check[w].at = "spent" /\ check'[w].at = "clear" /\ check'[w].todo = check[w].todo
        /\ \A v \in Worker : v # w => check'[v] = check[v]
    BY <1>4, SpentFacts
  <2>2. \A v \in Worker : /\ Ahead(v)' = Ahead(v) /\ (check'[v].at # "idle" <=> check[v].at # "idle")
                          /\ (Past(v)' <=> Past(v))
    BY <2>1 DEF Ahead, Past
  <2> QED BY <1>4, <2>2 DEF InTurn
<1>5. CASE Written(w)
  <2>1. /\ Past(w) /\ \A v \in Worker : v # w => check'[v] = check[v]
    BY <1>5, WrittenFacts
  <2>2. check[w].at \in {"clear", "raise"} /\ w \in clean /\ Alerts!Scope(w) \in Scopes /\ check[w].user \in Users
    BY <1>1, <1>5, <2>1, AlertTypes DEF Written, Alerts!ClearStale, Alerts!RaiseAlert, Alerts!Scope, InTurn
  <2>3. /\ ~ Alerts!Begins(w) /\ ~ Alerts!ReadBudgetSpent(w)
    BY <2>2 DEF Alerts!Begins, Alerts!ReadCategory, Alerts!ReadBudgetLimit, Alerts!ReadBudgetSpent
  <2>4. IF Alerts!Ends(w) THEN /\ told' = [told EXCEPT ![Alerts!Pair(w)] = check[w].level]
                               /\ fresh' = fresh \union {Alerts!Pair(w)}
                               /\ clean' = clean \ {w}
        ELSE UNCHANGED <<told, fresh, clean>>
    BY <2>2, <2>3 DEF Alerts!Step
  <2>5. CASE check'[w].at = "raise"
    <3>1. ~ Alerts!Ends(w)
      BY <2>5 DEF Alerts!Ends
    <3>2. check'[w].todo = check[w].todo
      BY <1>5, <2>5, ClearFacts, RaiseFacts DEF Written
    <3>3. \A v \in Worker : /\ Ahead(v)' = Ahead(v) /\ (check'[v].at # "idle" <=> check[v].at # "idle")
                            /\ (Past(v)' <=> Past(v))
      BY <2>1, <2>2, <2>5, <3>2 DEF Ahead, Past
    <3> QED BY <2>4, <3>1, <3>3 DEF InTurn
  <2>6. CASE check'[w].at # "raise"
    <3>1. Alerts!Ends(w)
      BY <1>5, <2>6 DEF Alerts!Ends, Written
    <3>2. Alerts!Done(w)
      BY <1>5, <2>6, ClearFacts, RaiseFacts DEF Written
    <3>3. \/ check'[w] = AtRest /\ Ahead(w) = {Alerts!Scope(w)}
          \/ check'[w].at = "read" /\ Ahead(w) = {Alerts!Scope(w)} \union Ahead(w)'
      BY <1>1, <2>2, <3>2, DoneGoesOn
    <3>4. check'[w].at \in {"idle", "read"}
      BY <3>3 DEF AtRest, Alerts!Idle
    <3>5. fresh' = fresh \union {<<check[w].user, Alerts!Scope(w)>>}
      BY <2>4, <3>1 DEF Alerts!Pair
    <3>6. \A u \in Users, s \in Scopes : told'[<<u, s>>] # "unknown"
      <4>1. check[w].level \in Levels \union {None}
        BY <1>1, <2>2, AlertTypes DEF Deciding
      <4>2. check[w].level # "unknown"
        BY <4>1, AlertConstants
      <4>3. told \in [Users \X Scopes -> Levels \union {None, "unknown"}]
        BY DEF AlertsKnown, HistoryTypes
      <4> QED BY <2>4, <3>1, <4>2, <4>3 DEF Alerts!Pair, InTurn
    <3>7. \A v \in Worker : ~ Past(v)'
      BY <1>2, <2>1, <2>2, <3>4 DEF Past
    <3>8. \A v \in Worker : v # w => check'[v].at = "idle"
      BY <1>2, <2>1, <2>2
    <3>9. ASSUME NEW s \in Scopes
          PROVE  (\E u \in Users : <<u, s>> \in fresh')
                 \/ \E v \in Worker : check'[v].at # "idle" /\ s \in Ahead(v)'
      <4>1. CASE s = Alerts!Scope(w)
        BY <2>2, <3>5, <4>1
      <4>2. CASE \E u \in Users : <<u, s>> \in fresh
        BY <3>5, <4>2
      <4>3. CASE s # Alerts!Scope(w) /\ s \in Ahead(w)
        <5>1. check'[w].at = "read" /\ s \in Ahead(w)'
          BY <3>3, <4>3
        <5> QED BY <5>1
      <4> QED BY <1>2, <2>2, <4>1, <4>2, <4>3 DEF InTurn
    <3> QED BY <3>6, <3>7, <3>8, <3>9 DEF InTurn
  <2> QED BY <2>5, <2>6
<1> QED BY <1>3, <1>4, <1>5 DEF Alerts!Step, Written

-----------------------------------------------------------------------------
(* The promises of the alerts *)

AlertsSound == part = "alerts" => AlertsKnown /\ InOrder

LEMMA AlertsStart == Alerts!MCInit => AlertsKnown /\ InOrder
<1> SUFFICES ASSUME Alerts!MCInit PROVE AlertsKnown /\ InOrder
  OBVIOUS
<1>1. /\ spent = [c \in Categories |-> 0] /\ limit \in [Categories -> Limits]
      /\ alert = [k \in Users \X Scopes \X Levels |-> None] /\ check = [w \in Worker |-> AtRest]
      /\ \A c \in Categories : limit[c] # 0
      /\ told = [p \in Users \X Scopes |-> None] /\ fresh = Users \X Scopes /\ clean = {}
      /\ crowded = FALSE /\ troubles = 0
  BY DEF Alerts!MCInit, Alerts!Init, Alerts!Keys, Alerts!Pairs, Scopes, Levels, AtRest
<1>2. \A w \in Worker : check[w] = AtRest /\ check[w].at = "idle"
  BY <1>1 DEF AtRest, Alerts!Idle
<1>3. Alerts!TypeOK
  BY <1>1, AlertConstants DEF Alerts!TypeOK, Alerts!Keys, Scopes, Levels, AtRest
<1>4. HistoryTypes
  BY <1>1 DEF HistoryTypes
<1>5. StageKnown /\ CleanKnows /\ Cleared
  BY <1>1, <1>2 DEF StageKnown, CleanKnows, Cleared
<1>6. Standing
  BY <1>1, AlertConstants DEF Standing
<1>7. ASSUME NEW s \in Scopes PROVE Alerts!LevelNow(s) = None
  <2>1. Alerts!Of(spent, s) = 0
    BY <1>1, OfCategory, AlertConstants
  <2>2. Alerts!Of(limit, s) \in Nat
    BY <1>1, OfCategory, AlertConstants
  <2>3. Alerts!limit_level(0, Alerts!Of(limit, s)) = None
    BY <2>2 DEF Alerts!limit_level
  <2> QED BY <2>1, <2>3 DEF Alerts!LevelNow
<1>8. FreshFigures
  BY <1>1, <1>7, AlertConstants DEF FreshFigures
<1>9. InTurn
  BY <1>1, <1>2, AlertConstants DEF InTurn, Past
<1> QED BY <1>3, <1>4, <1>5, <1>6, <1>8, <1>9 DEF AlertsKnown, InOrder

LEMMA AlertsStep ==
    ASSUME AlertsSound, [RecordsNext]_<<part, ledgerVars, alertVars, credentialVars>>
    PROVE  AlertsSound'
<1> SUFFICES ASSUME part = "alerts", part' = part PROVE AlertsKnown' /\ InOrder'
  BY DEF AlertsSound, RecordsNext
<1>1. AlertsKnown /\ InOrder
  BY DEF AlertsSound
<1>2. CASE Alerts!MCNext
  <2>1. CASE Alerts!Request /\ UNCHANGED troubles
    <3>1. AlertsKnown'
      BY <1>1, <2>1, RequestKeeps
    <3>2. ~ crowded' => ~ crowded
      BY <2>1 DEF Alerts!Request
    <3>3. InOrder'
      BY <1>1, <2>1, <3>2, RequestInTurn DEF InOrder
    <3> QED BY <3>1, <3>3
  <2>2. CASE Alerts!Trouble
    BY <1>1, <2>2, TroubleKeeps DEF InOrder
  <2>3. ASSUME NEW w \in Worker, Alerts!Step(w), UNCHANGED <<requests, troubles, crowded>>
        PROVE  AlertsKnown' /\ InOrder'
    BY <1>1, <2>3, WorkKeeps, WorkInTurn DEF InOrder
  <2> QED BY <1>2, <2>1, <2>2, <2>3 DEF Alerts!MCNext, Alerts!bounds
<1>3. CASE UNCHANGED alertVars
  <2>1. UNCHANGED <<spent, limit, alert, check, told, fresh, clean, crowded, troubles>>
    BY <1>3 DEF alertVars
  <2>2. \A s : Alerts!Of(spent, s)' = Alerts!Of(spent, s) /\ Alerts!Of(limit, s)' = Alerts!Of(limit, s)
               /\ Alerts!LevelNow(s)' = Alerts!LevelNow(s)
    BY <2>1, FiguresStay
  <2>3. \A w : Alerts!Scope(w)' = Alerts!Scope(w) /\ (Past(w)' <=> Past(w)) /\ Ahead(w)' = Ahead(w)
    BY <2>1 DEF Alerts!Scope, Past, Ahead
  <2>4. Alerts!TypeOK'
    BY <1>1, <2>1 DEF AlertsKnown, Alerts!TypeOK
  <2>5. HistoryTypes' /\ StageKnown' /\ CleanKnows'
    BY <1>1, <2>1, <2>2, <2>3
    DEF AlertsKnown, HistoryTypes, StageKnown, CleanKnows, Unrivalled, Informed, Mine
  <2>6. Cleared'
    BY <1>1, <2>1, <2>3 DEF AlertsKnown, Cleared, Safe
  <2>7. Standing'
    BY <1>1, <2>1, <2>3 DEF AlertsKnown, Standing, Raising, Mine
  <2>8. FreshFigures'
    BY <1>1, <2>1, <2>2 DEF AlertsKnown, FreshFigures
  <2>9. InOrder'
    BY <1>1, <2>1, <2>3 DEF InOrder, InTurn
  <2> QED BY <2>4, <2>5, <2>6, <2>7, <2>8, <2>9 DEF AlertsKnown
<1> QED BY <1>2, <1>3 DEF RecordsNext

LEMMA AlertsHold == RecordsSpec => []AlertsSound
<1>1. RecordsInit => AlertsSound
  BY AlertsStart DEF RecordsInit, AlertsSound
<1> QED BY <1>1, AlertsStep, PTL DEF RecordsSpec

LEMMA DueKnown ==
    ASSUME AlertsKnown, NEW u \in Users, NEW s \in Scopes, <<u, s>> \in fresh, told[<<u, s>>] # "unknown"
    PROVE  Alerts!AlertsOf(<<u, s>>) = Alerts!Due(s)
<1>1. \A l \in Levels : alert[<<u, s, l>>] = IF Alerts!LevelNow(s) = l THEN Alerts!Of(spent, s) ELSE None
  BY DEF AlertsKnown, FreshFigures
<1>2. Alerts!AlertsOf(<<u, s>>) = [l \in Levels |-> alert[<<u, s, l>>]]
  BY DEF Alerts!AlertsOf, Levels
<1>3. Alerts!Due(s) = [l \in Levels |-> IF Alerts!LevelNow(s) = l THEN Alerts!Of(spent, s) ELSE None]
  BY DEF Alerts!Due, Levels
<1> QED BY <1>1, <1>2, <1>3

\* After a check that nothing disturbed, and until the figures move, a scope has the alert
\* of its level with the figure of now, and no other (notifications.rs,
\* reconcile_limit_notification); requests that come one at a time and meet no failure
\* leave every scope so, since each reconciles all the scopes it touched.
THEOREM AlertsFollow == RecordsSpec => []AlertsFollowChecks
<1>1. ASSUME AlertsKnown, InOrder PROVE Alerts!AlertsFollowChecks
  <2>1. ASSUME NEW p \in fresh, told[p] # "unknown"
        PROVE  Alerts!AlertsOf(p) = Alerts!Due(p[2])
    <3>1. p = <<p[1], p[2]>> /\ p[1] \in Users /\ p[2] \in Scopes
      BY <1>1 DEF AlertsKnown, HistoryTypes
    <3>2. Alerts!AlertsOf(<<p[1], p[2]>>) = Alerts!Due(p[2])
      BY <1>1, <2>1, <3>1, DueKnown
    <3> QED BY <3>1, <3>2
  <2>2. ASSUME troubles = 0, ~ crowded, \A w \in Worker : check[w] = AtRest, NEW s \in Scopes
        PROVE  \E u \in Users : Alerts!AlertsOf(<<u, s>>) = Alerts!Due(s)
    <3>1. \A w \in Worker : check[w].at = "idle"
      BY <2>2 DEF AtRest, Alerts!Idle
    <3>2. PICK u \in Users : <<u, s>> \in fresh
      BY <1>1, <2>2, <3>1 DEF InOrder, InTurn
    <3>3. told[<<u, s>>] # "unknown"
      BY <1>1, <2>2 DEF InOrder, InTurn
    <3> QED BY <1>1, <3>2, <3>3, DueKnown
  <2> QED BY <2>1, <2>2 DEF Alerts!AlertsFollowChecks, AtRest, Scopes
<1>2. AlertsSound => AlertsFollowChecks
  BY <1>1 DEF AlertsSound, AlertsFollowChecks
<1> QED BY <1>2, AlertsHold, PTL

\* A message is surfaced only when its scope got worse since the user was last told
\* (notifications.rs, reconcile_limit_notification): neither the refresh of a figure nor an
\* improvement is shown again, whatever other requests do meanwhile.
THEOREM SurfacedWhenWorse == RecordsSpec => SurfacedOnlyWhenWorse
<1>1. ASSUME AlertsKnown PROVE Alerts!SurfacedIfWorse
  <2> SUFFICES ASSUME NEW w \in Worker, Alerts!RaiseAlert(w), w \in clean,
                      told[Alerts!Pair(w)] # "unknown", Alerts!Surfaces(w)
               PROVE  Alerts!Severity(check[w].level) > Alerts!Severity(told[Alerts!Pair(w)])
    BY DEF Alerts!SurfacedIfWorse
  <2> DEFINE e == check[w].level
             t == told[<<check[w].user, Alerts!Scope(w)>>]
  <2>1. e \in Levels /\ check[w].at = "raise"
    BY <1>1, RaiseFacts
  <2>2. check[w].user \in Users /\ Alerts!Scope(w) \in Scopes
    BY <1>1, <2>1, AlertTypes DEF AlertsKnown, Alerts!Scope
  <2>3. t \in Levels \union {None} /\ t # "unknown" /\ t = told[Alerts!Pair(w)]
    BY <1>1, <2>2 DEF AlertsKnown, HistoryTypes, Alerts!Pair
  <2>4. Safe(w)
    BY <1>1, <2>1 DEF AlertsKnown, Cleared
  <2>5. t # e
    BY <2>4 DEF Safe, Alerts!Surfaces, Alerts!KeyOf
  <2>6. t = "exceeded" => e = "exceeded"
    BY <2>1, <2>4, AlertConstants DEF Safe, Alerts!Surfaces
  <2>7. e \in {"approaching", "exceeded"} /\ (t = None \/ (t = "approaching" /\ e = "exceeded"))
    BY <2>1, <2>3, <2>5, <2>6, AlertConstants
  <2>8. Alerts!Severity(e) > Alerts!Severity(t)
    BY <2>7, AlertConstants DEF Alerts!Severity
  <2> QED BY <2>3, <2>8
<1>2. AlertsSound => [part = "alerts" => Alerts!SurfacedIfWorse]_alertVars
  BY <1>1 DEF AlertsSound
<1> QED BY <1>2, AlertsHold, PTL DEF SurfacedOnlyWhenWorse

-----------------------------------------------------------------------------
(* Types *)

\* The three parts keep their types.
THEOREM RecordsTyped == RecordsSpec => []RecordsTypeOK
<1>1. LedgerSound /\ AlertsSound /\ RecordsSound => RecordsTypeOK
  BY DEF LedgerSound, MatchedSound, IInv, AlertsSound, AlertsKnown, RecordsSound, CredentialsSound, RecordsTypeOK
<1> QED BY <1>1, LedgerHolds, AlertsHold, RecordsHold, PTL

=============================================================================
