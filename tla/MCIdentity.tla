----------------------------- MODULE MCIdentity -----------------------------
EXTENDS Identity, Naturals, TLC

\* Histories.  erased: the ids erased while no registration was being finished.
\* resetting: the reset under way, if no ceremony or other request was around since
\* it began.  settled: the batch that such a reset gave out last, or None.
\* spent: the codes that enrolled, and where.  cut: a request failed or was cut off.
VARIABLES erased, resetting, settled, spent, cut
histories == <<erased, resetting, settled, spent, cut>>

CONSTANTS MaxRequests   \* bound
VARIABLE requests

Open == {f \in Flows : flow[f] # None}
Busy == {w \in Workers : req[w] # Idle}

MCInit ==
  /\ Init
  /\ erased = {} /\ resetting = None /\ settled = None /\ spent = {}
  /\ cut = FALSE /\ requests = 0

Begins(w) ==
  /\ requests < MaxRequests /\ requests' = requests + 1
  /\ Starting(w)
  /\ resetting' = IF Busy \union Open = {} /\ req'[w].at = "clear" THEN w ELSE None
  /\ UNCHANGED <<erased, settled, spent, cut>>

Goes(w) ==
  /\ Advancing(w)
  /\ erased' = IF req[w].at = "erase" /\ \A v \in Busy : req[v].at # "user"
                 THEN erased \union {As(w).user} ELSE erased
  /\ settled' = IF req[w].at = "erase" THEN None
                ELSE IF req[w].at # "issue" THEN settled
                ELSE IF w = resetting /\ issued' # issued
                       THEN CHOOSE b \in issued' : b \notin issued ELSE None
  /\ spent' = IF req[w].at = "credential" /\ creds' # creds /\ As(w).kind = "recovery"
                THEN spent \union {<<As(w).code, req[w].flow>>} ELSE spent
  /\ UNCHANGED <<resetting, cut, requests>>

\* Bound: one failure.
Stops(w) ==
  /\ ~ cut /\ cut' = TRUE
  /\ Fails(w)
  /\ UNCHANGED <<erased, resetting, settled, spent, requests>>

Meanwhile ==
  \/ /\ (\E u \in sessions : logout(u)) \/ \E f \in Flows : ExpireFlow(f)
     /\ UNCHANGED <<histories, requests>>
  \/ /\ \E b \in Batches : OperatorIssue(b)
     /\ settled' = None /\ resetting' = None
     /\ UNCHANGED <<erased, spent, cut, requests>>

\* Ids and batches are generated in one order: which comes first makes no difference.
InOrder ==
  /\ \A i \in used_ids' \ used_ids : i = CHOOSE j \in Ids \ used_ids : TRUE
  /\ \A b \in issued' \ issued : b = CHOOSE c \in Batches \ issued : TRUE

MCNext == (Meanwhile \/ \E w \in Workers : Begins(w) \/ Goes(w) \/ Stops(w)) /\ InOrder

MCSpec == MCInit /\ [][MCNext]_<<vars, histories, requests>>

\* The codes by which passkeys of the admin console were enrolled: a second one is
\* of a recovery that began before the first passkey was there.
EnrolledOnAdmin == {s[1] : s \in {t \in spent : \E k \in CredsOf(user, "admin") : k.by = t[2]}}

\* An account that no request is changing, and whose requests all ran to their end,
\* can be signed in to on the app, with a passkey of it or with an unused code;
\* unless overlapping recoveries spent its codes on the admin console.
WayInAlone ==
  user # None /\ Busy = {} /\ ~ cut =>
    \/ CredsOf(user, "app") # {} \/ Unused(user) # {}
    \/ \E c, d \in EnrolledOnAdmin : c # d

\* The reset "clears every WebAuthn credential a user holds (both RPs) and rotates
\* their recovery codes": with nothing else under way, whoever holds a passkey
\* afterwards enrolled it by a code the reset gave out.
ResetHoldsAlone ==
  settled # None =>
    \A k \in creds : \E s \in spent : s[2] = k.by /\ s[1][1] = settled

\* Erasure is permanent: no registration that is still open brings the account back.
ErasedForGood == user \notin erased
=============================================================================
