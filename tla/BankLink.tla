------------------------------- MODULE BankLink -------------------------------
(***************************************************************************)
(* Linked bank accounts of one user, over the five providers that          *)
(* bank_linking.rs dispatches to besides Plaid (see PlaidSync): opening a   *)
(* consent session, completing it, syncing, the providers' webhooks and    *)
(* the GoCardless poll, disconnecting, and the deletion of the account     *)
(* that disconnects everything first.                                      *)
(*                                                                         *)
(* A session and the authorization its consent grants (a requisition, a    *)
(* Belvo Link, a Basiq connection, an Akahu token, Stripe's accounts) have  *)
(* one identity.  provider is the one every account here belongs to.  What *)
(* a provider calls an account may or may not outlive a consent: stable.   *)
(* Basiq's and Belvo's accounts name the one connection or Link they are   *)
(* part of, and are new in the next.                                       *)
(*                                                                         *)
(* Refusals that touch nothing are not steps: permission, tier, a closed   *)
(* budget, an owner who is not Pro, a webhook that fails its check, and a  *)
(* provider that does not answer.  What a sync imports is not tracked.     *)
(***************************************************************************)
EXTENDS Integers, Sequences, FiniteSets

CONSTANTS Session,  \* consent sessions, and what they grant
          Acct,     \* the user's accounts at the bank
          Budget,   \* the user's budgets
          Worker,   \* requests, syncs and ticks that may overlap
          MaxRow,   \* rows of linked_accounts ever inserted
          None      \* SQL NULL, or nothing

BankLinkAssumption ==
  /\ MaxRow \in Nat
  /\ None \notin Session \union Budget \union Int \union (Session \X Acct)
  /\ \A accts \in SUBSET Acct : None # accts

Providers == {"stripe", "gocardless", "belvo", "basiq", "akahu"}

VARIABLES provider, stable,
          status,   \* of each session: none, pending or completed
          budget,   \* the budget each session was opened for
          covers,   \* the accounts each authorization names; {} once it is deleted
          live,     \* <<session, account>>: the provider would serve the account
          events,   \* accounts or connections the provider has reported as cut
          rows,     \* linked_accounts, in order of creation
          gone,     \* the user is deleted
          req       \* what each worker is in the middle of

bank == <<provider, stable, covers, live, events>>
vars == <<bank, status, budget, rows, gone, req>>

Pairs == Session \X Acct

\* The provider_account_id under which the provider lists an account.
Pid(p) == IF stable THEN p[2] ELSE p

Rows == [pid : Acct \union Pairs, acct : Acct, ref : Session, budget : Budget,
         status : {"active", "consent_expired", "disconnected"}]

Idle == [op |-> "idle"]
RowIds == 1 .. MaxRow
Syncs == [op : {"sync", "expire"}, row : RowIds, pid : Acct \union Pairs, ref : Session]
Work ==
  {Idle} \union Syncs
    \union [op : {"complete"}, s : Session, todo : SUBSET Pairs,
            pair : Pairs \union {None}, onto : RowIds \union {None},
            done : SUBSET RowIds, conflict : BOOLEAN]
    \union [op : {"revoke", "flip"}, row : RowIds, pid : Acct \union Pairs, ref : Session,
            siblings : BOOLEAN, all : BOOLEAN]
    \union [op : {"next", "erase"}]

TypeOK ==
  /\ provider \in Providers /\ stable \in BOOLEAN
  /\ status \in [Session -> {"none", "pending", "completed"}]
  /\ budget \in [Session -> Budget \union {None}]
  /\ covers \in [Session -> (SUBSET Acct) \union {None}]
  /\ live \subseteq Pairs
  /\ events \subseteq Session \union Acct \union Pairs
  /\ rows \in Seq(Rows) /\ Len(rows) <= MaxRow
  /\ \A i, j \in DOMAIN rows : rows[i].pid = rows[j].pid => i = j
  /\ gone \in BOOLEAN
  /\ req \in [Worker -> Work]

Init ==
  /\ provider \in Providers /\ stable \in BOOLEAN
  /\ provider \in {"belvo", "basiq"} => ~ stable
  /\ status = [s \in Session |-> "none"] /\ budget = [s \in Session |-> None]
  /\ covers = [s \in Session |-> None] /\ live = {} /\ events = {}
  /\ rows = << >> /\ gone = FALSE
  /\ req = [w \in Worker |-> Idle]

Become(w, q) == req' = [req EXCEPT ![w] = q]
Finish(w) == Become(w, Idle)

-----------------------------------------------------------------------------
(* The user at the bank, and the bank *)

\* The user consents for some accounts in the provider's own pages.
Consent(s, accts) ==
  /\ status[s] # "none" /\ covers[s] = None /\ accts # {}
  /\ covers' = [covers EXCEPT ![s] = accts]
  /\ live' = live \union ({s} \X accts)
  /\ UNCHANGED <<provider, stable, events, status, budget, rows, gone, req>>

\* What the provider reports of an authorization that was cut: Stripe the
\* account, Basiq the connection, the others nothing.
Reported(cut) ==
  CASE provider = "stripe" -> {Pid(p) : p \in cut}
    [] provider = "basiq" -> {p[1] : p \in cut}
    [] OTHER -> {}

Cut(pairs) ==
  /\ live' = live \ pairs
  /\ events' = events \union Reported(live \intersect pairs)

\* A consent ends at the bank: it expires, or the user withdraws it there.
Withdraw(s) ==
  /\ \E p \in live : p[1] = s
  /\ Cut({s} \X Acct)
  /\ UNCHANGED <<provider, stable, covers, status, budget, rows, gone, req>>

\* The provider answers a sync that names this account and authorization;
\* Belvo and Akahu alone look at the authorization.
Serves(pid, ref) ==
  \E p \in live : Pid(p) = pid /\ (provider \in {"belvo", "akahu"} => p[1] = ref)

-----------------------------------------------------------------------------
(* Opening a session *)

OpenSession(s, b) ==
  /\ ~ gone /\ status[s] = "none"
  /\ status' = [status EXCEPT ![s] = "pending"]
  /\ budget' = [budget EXCEPT ![s] = b]
  /\ UNCHANGED <<bank, rows, gone, req>>

\* create_link_session: Stripe keeps the session, bound to the user's customer.
StartStripe(s, b) == provider = "stripe" /\ OpenSession(s, b)
\* start_link_session: the row first, then the requisition, whose id it gets.
StartGoCardless(s, b) == provider = "gocardless" /\ OpenSession(s, b)
\* start_link_session: the row, then the widget's token.
StartBelvo(s, b) == provider = "belvo" /\ OpenSession(s, b)
\* create_consent_session: for the Basiq user the table names, whoever made it.
StartBasiq(s, b) == provider = "basiq" /\ OpenSession(s, b)
\* create_consent_session: the row's id is the OAuth state.
StartAkahu(s, b) == provider = "akahu" /\ OpenSession(s, b)

-----------------------------------------------------------------------------
(* Completing a session *)

\* The accounts the provider lists to a completion.  Basiq lists whatever its
\* user has connected, in any session; a requisition, or Stripe's session, may
\* have none yet.
Listed(s) ==
  IF provider = "basiq" THEN live
  ELSE IF covers[s] = None THEN {} ELSE {s} \X covers[s]

CanList(s) ==
  CASE provider \in {"stripe", "basiq"} -> TRUE
    [] provider = "gocardless" -> covers[s] # {}
    [] OTHER -> covers[s] \notin {None, {}}

\* The session must be the user's, and pending; Stripe's never ceases to be.
BeginComplete(w, s) ==
  /\ req[w] = Idle /\ ~ gone
  /\ status[s] = "pending" /\ CanList(s)
  /\ Become(w, [op |-> "complete", s |-> s, todo |-> Listed(s), pair |-> None,
                onto |-> None, done |-> {}, conflict |-> FALSE])
  /\ UNCHANGED <<bank, status, budget, rows, gone>>

\* Bug to catch: the id is unique only among the rows still connected.
ConnectedOf(pid) ==
  {i \in DOMAIN rows : rows[i].pid = pid /\ rows[i].status # "disconnected"}

RowsOf(pid) == {i \in DOMAIN rows : rows[i].pid = pid}

\* The account is already linked into another budget.
Elsewhere(w, p) == \E i \in RowsOf(Pid(p)) : rows[i].budget # budget[req[w].s]

Checking(w, p) == req[w].op = "complete" /\ req[w].pair = None /\ p \in req[w].todo

Chosen(w, p, onto) ==
  /\ Become(w, [req[w] EXCEPT !.pair = p, !.onto = onto])
  /\ UNCHANGED <<bank, status, budget, rows, gone>>

Refused(w) == Finish(w) /\ UNCHANGED <<bank, status, budget, rows, gone>>

\* Stripe: an account linked elsewhere ends the request.
CheckStripe(w, p) ==
  /\ Checking(w, p) /\ provider = "stripe"
  /\ IF Elsewhere(w, p) THEN Refused(w) ELSE Chosen(w, p, None)

\* Rows waiting for a new consent; none is found without an IBAN or digits.
Expired(b) ==
  {i \in DOMAIN rows : rows[i].budget = b /\ rows[i].status = "consent_expired"}

\* GoCardless: the same, and a row with the account's IBAN is reused.
CheckGoCardless(w, p) ==
  /\ Checking(w, p) /\ provider = "gocardless"
  /\ IF Elsewhere(w, p) THEN Refused(w)
     ELSE \E i \in {None} \union {j \in Expired(budget[req[w].s]) : rows[j].acct = p[2]} :
            Chosen(w, p, i)

\* Belvo: the same, by the last four digits, which two accounts may share.
CheckBelvo(w, p) ==
  /\ Checking(w, p) /\ provider = "belvo"
  /\ IF Elsewhere(w, p) THEN Refused(w)
     ELSE \E i \in {None} \union Expired(budget[req[w].s]) : Chosen(w, p, i)

\* Basiq and Akahu list more than the session's accounts: one linked elsewhere
\* is skipped.
CheckOrSkip(w, p) ==
  IF Elsewhere(w, p)
    THEN /\ Become(w, [req[w] EXCEPT !.todo = @ \ {p}, !.conflict = TRUE])
         /\ UNCHANGED <<bank, status, budget, rows, gone>>
    ELSE Chosen(w, p, None)

CheckBasiq(w, p) == Checking(w, p) /\ provider = "basiq" /\ CheckOrSkip(w, p)
CheckAkahu(w, p) == Checking(w, p) /\ provider = "akahu" /\ CheckOrSkip(w, p)

\* What a sync by these identifiers may leave the status at: GoCardless and
\* Belvo mark a consent the bank says is over, the others mark nothing.
AfterSync(pid, ref) ==
  {"active"} \union
    (IF provider \in {"gocardless", "belvo"} /\ ~ Serves(pid, ref)
       THEN {"consent_expired"} ELSE {})

\* Each link ends in a first sync of the row.
Linked(w, i) ==
  /\ Become(w, [req[w] EXCEPT !.todo = @ \ {req[w].pair}, !.pair = None, !.onto = None,
                              !.done = @ \union {i}])
  /\ UNCHANGED <<bank, status, budget, gone>>

\* The provider_ref that row i has after a conflict: Akahu alone replaces it.
RefAfter(w, i) == IF provider = "akahu" THEN req[w].pair[1] ELSE rows[i].ref

\* INSERT ... ON CONFLICT (provider_account_id) DO UPDATE: a row that is there
\* keeps its budget, whoever's it is.
Upsert(w) ==
  LET p == req[w].pair
      there == RowsOf(Pid(p))
  IN IF gone THEN Refused(w)
     ELSE IF there # {}
       THEN \E i \in there : \E st \in AfterSync(Pid(p), RefAfter(w, i)) :
              /\ rows' = [rows EXCEPT ![i].status = st, ![i].ref = RefAfter(w, i)]
              /\ Linked(w, i)
       ELSE \E st \in AfterSync(Pid(p), p[1]) :
              /\ Len(rows) < MaxRow
              /\ rows' = Append(rows, [pid |-> Pid(p), acct |-> p[2], ref |-> p[1],
                                       budget |-> budget[req[w].s], status |-> st])
              /\ Linked(w, Len(rows'))

\* UPDATE ... WHERE id: the row found is moved to the new account and consent,
\* unless it is gone or another row has the account.
Reuse(w, i) ==
  LET p == req[w].pair
  IN IF i \notin DOMAIN rows \/ RowsOf(Pid(p)) \ {i} # {} THEN Refused(w)
     ELSE \E st \in AfterSync(Pid(p), p[1]) :
            /\ rows' = [rows EXCEPT ![i] = [@ EXCEPT !.pid = Pid(p), !.acct = p[2],
                                                     !.ref = p[1], !.status = st]]
            /\ Linked(w, i)

Linking(w) == req[w].op = "complete" /\ req[w].pair # None
LinkUpserting(w) == Linking(w) /\ Upsert(w)
LinkStripe(w) == provider = "stripe" /\ LinkUpserting(w)
LinkBasiq(w) == provider = "basiq" /\ LinkUpserting(w)
LinkAkahu(w) == provider = "akahu" /\ LinkUpserting(w)

LinkOrReuse(w) ==
  IF req[w].op = "complete" /\ req[w].onto # None THEN Linking(w) /\ Reuse(w, req[w].onto)
  ELSE LinkUpserting(w)
LinkGoCardless(w) == provider = "gocardless" /\ LinkOrReuse(w)
LinkBelvo(w) == provider = "belvo" /\ LinkOrReuse(w)

\* Every account is linked or skipped: the session is completed, unless all it
\* had was linked elsewhere.
EndComplete(w) ==
  /\ req[w].op = "complete" /\ req[w].pair = None /\ req[w].todo = {}
  /\ status' = IF provider = "stripe" \/ (req[w].done = {} /\ req[w].conflict) THEN status
               ELSE [status EXCEPT ![req[w].s] = "completed"]
  /\ Finish(w)
  /\ UNCHANGED <<bank, budget, rows, gone>>

-----------------------------------------------------------------------------
(* Syncing: the poll, the webhooks and refresh *)

\* A sync starts from a row read as active, perhaps long before in the poll's
\* list, and uses what it then read.  Only a consent found over changes a row.
BeginSync(w, i) ==
  /\ req[w] = Idle /\ provider \in {"gocardless", "belvo"}
  /\ rows[i].status = "active"
  /\ Become(w, [op |-> "sync", row |-> i, pid |-> rows[i].pid, ref |-> rows[i].ref])
  /\ UNCHANGED <<bank, status, budget, rows, gone>>

HearExpired(w) ==
  /\ req[w].op = "sync" /\ ~ Serves(req[w].pid, req[w].ref)
  /\ Become(w, [req[w] EXCEPT !.op = "expire"])
  /\ UNCHANGED <<bank, status, budget, rows, gone>>

\* What it imports, or its failure, is not tracked.
EndSync(w) ==
  /\ req[w].op = "sync" /\ Finish(w)
  /\ UNCHANGED <<bank, status, budget, rows, gone>>

SetStatus(i, st) ==
  rows' = IF i \in DOMAIN rows THEN [rows EXCEPT ![i].status = st] ELSE rows

\* Bug to catch: nothing ties disconnected_at to the status.
ExpireUnchecked(w) ==
  /\ req[w].op = "expire" /\ SetStatus(req[w].row, "consent_expired") /\ Finish(w)
  /\ UNCHANGED <<bank, status, budget, gone>>

\* UPDATE ... WHERE id, which linked_accounts' CHECK refuses to a row that has a
\* disconnected_at.
Expire(w) ==
  /\ req[w].op = "expire" /\ Finish(w)
  /\ LET i == req[w].row
     IN IF i \in DOMAIN rows /\ rows[i].status = "disconnected" THEN UNCHANGED rows
        ELSE SetStatus(i, "consent_expired")
  /\ UNCHANGED <<bank, status, budget, gone>>

\* The account's or the connection's end as Stripe and Basiq report it, which
\* they may do late and again.
Deliver(e) ==
  /\ e \in events /\ ~ gone
  /\ rows' = [i \in DOMAIN rows |->
                IF rows[i].status = "active"
                     /\ e = (IF provider = "stripe" THEN rows[i].pid ELSE rows[i].ref)
                  THEN [rows[i] EXCEPT !.status = "disconnected"] ELSE rows[i]]
  /\ UNCHANGED <<bank, status, budget, gone, req>>

-----------------------------------------------------------------------------
(* Disconnecting, and deleting the account *)

\* Bug to catch: a row that shares the connection counts whatever its status.
SharedByAny(i) == \E j \in DOMAIN rows : j # i /\ rows[j].ref = rows[i].ref

\* Another active row has the same connection.
Shared(i) ==
  \E j \in DOMAIN rows : j # i /\ rows[j].ref = rows[i].ref /\ rows[j].status = "active"

\* The provider of the row is looked up, and what its disconnect needs.
Dispatch(w, i, all) ==
  Become(w, [op |-> "revoke", row |-> i, pid |-> rows[i].pid, ref |-> rows[i].ref,
             siblings |-> provider = "basiq" /\ Shared(i), all |-> all])

Disconnect(w, i) ==
  /\ req[w] = Idle /\ Dispatch(w, i, FALSE)
  /\ UNCHANGED <<bank, status, budget, rows, gone>>

Revoked(w, pairs, ref) ==
  /\ Cut(pairs)
  /\ covers' = IF provider \in {"gocardless", "belvo"} THEN [covers EXCEPT ![ref] = {}]
               ELSE covers
  /\ Become(w, [req[w] EXCEPT !.op = "flip"])
  /\ UNCHANGED <<provider, stable, status, budget, rows, gone>>

Revoking(w, p) == req[w].op = "revoke" /\ provider = p

\* Stripe: that account, whoever authorized it.
RevokeStripe(w) ==
  /\ Revoking(w, "stripe")
  /\ Revoked(w, {p \in Pairs : Pid(p) = req[w].pid}, req[w].ref)
\* GoCardless and Belvo: the whole requisition or Link; one not found is fine.
RevokeGoCardless(w) ==
  Revoking(w, "gocardless") /\ Revoked(w, {req[w].ref} \X Acct, req[w].ref)
RevokeBelvo(w) ==
  Revoking(w, "belvo") /\ Revoked(w, {req[w].ref} \X Acct, req[w].ref)
\* Basiq: the connection, unless another row needs it.
RevokeBasiq(w) ==
  /\ Revoking(w, "basiq")
  /\ Revoked(w, IF req[w].siblings THEN {} ELSE {req[w].ref} \X Acct, req[w].ref)
\* Akahu: nothing, the token may serve other accounts.
RevokeAkahu(w) == Revoking(w, "akahu") /\ Revoked(w, {}, req[w].ref)

\* Only now the row; a deletion goes on to the next.
Flip(w) ==
  /\ req[w].op = "flip"
  /\ SetStatus(req[w].row, "disconnected")
  /\ Become(w, IF req[w].all THEN [op |-> "next"] ELSE Idle)
  /\ UNCHANGED <<bank, status, budget, gone>>

DeleteAccount(w) ==
  /\ req[w] = Idle /\ ~ gone /\ Become(w, [op |-> "next"])
  /\ UNCHANGED <<bank, status, budget, rows, gone>>

\* disconnect_all_linked_accounts: the oldest row not yet disconnected.
Unreleased == {i \in DOMAIN rows : rows[i].status # "disconnected"}
NextAccount(w) ==
  /\ req[w].op = "next"
  /\ IF Unreleased = {} THEN Become(w, [op |-> "erase"])
     ELSE LET oldest == CHOOSE i \in Unreleased : \A j \in Unreleased : i <= j
          IN Dispatch(w, oldest, TRUE)
  /\ UNCHANGED <<bank, status, budget, rows, gone>>

\* The user's rows go in one transaction.
Erase(w) ==
  /\ req[w].op = "erase" /\ Finish(w)
  /\ rows' = << >> /\ gone' = TRUE
  /\ UNCHANGED <<bank, status, budget>>

\* A query or the provider fails, or the server stops: what was done stays.
Fails(w) == req[w] # Idle /\ Refused(w)

-----------------------------------------------------------------------------
Start(s, b) ==
  \/ StartStripe(s, b) \/ StartGoCardless(s, b) \/ StartBelvo(s, b)
  \/ StartBasiq(s, b) \/ StartAkahu(s, b)

Complete(w) ==
  \/ \E s \in Session : BeginComplete(w, s)
  \/ \E p \in Pairs : \/ CheckStripe(w, p) \/ CheckGoCardless(w, p) \/ CheckBelvo(w, p)
                      \/ CheckBasiq(w, p) \/ CheckAkahu(w, p)
  \/ LinkStripe(w) \/ LinkGoCardless(w) \/ LinkBelvo(w) \/ LinkBasiq(w) \/ LinkAkahu(w)
  \/ EndComplete(w)

Sync(w) ==
  \/ \E i \in DOMAIN rows : BeginSync(w, i)
  \/ HearExpired(w) \/ EndSync(w) \/ Expire(w)

Release(w) ==
  \/ \E i \in DOMAIN rows : Disconnect(w, i)
  \/ RevokeStripe(w) \/ RevokeGoCardless(w) \/ RevokeBelvo(w) \/ RevokeBasiq(w)
  \/ RevokeAkahu(w) \/ Flip(w)
  \/ DeleteAccount(w) \/ NextAccount(w) \/ Erase(w)

Next ==
  \/ \E s \in Session, accts \in SUBSET Acct : Consent(s, accts)
  \/ \E s \in Session : Withdraw(s)
  \/ \E s \in Session, b \in Budget : Start(s, b)
  \/ \E e \in events : Deliver(e)
  \/ \E w \in Worker : Complete(w) \/ Sync(w) \/ Release(w) \/ Fails(w)

Spec == Init /\ [][Next]_vars

-----------------------------------------------------------------------------
(* Properties *)

\* A row that was disconnected comes back only by a completion: a sync that
\* read it before, and hears that the consent the disconnect ended is over,
\* must not turn it into one that asks for a new consent.
DisconnectSticks ==
  [][\A i \in DOMAIN rows \intersect DOMAIN rows' :
       rows[i].status = "disconnected" /\ rows'[i].status # "disconnected"
         => \E w \in Worker : Linking(w) /\ i \in req'[w].done]_vars
=============================================================================
