------------------------------ MODULE PlaidSync ------------------------------
(***************************************************************************)
(* Mirroring one linked bank account into a budget's ledger with Plaid's   *)
(* cursor-based /transactions/sync (sync_account_transactions, the webhook,*)
(* manual refresh, disconnect and relink of backend/src/plaid.rs).         *)
(*                                                                         *)
(* The bank is a log of changes and a cursor is a position in it.  A sync  *)
(* reads the saved cursor, fetches pages, applies each entry with one SQL  *)
(* statement and saves the cursor at the end.  Webhooks and refreshes      *)
(* start syncs of the same account independently of each other.            *)
(***************************************************************************)
EXTENDS Naturals, Sequences, Functions

CONSTANTS
    Ptx,        \* provider_transaction_id
    Look,       \* the Plaid-sourced columns: amount, date, description
    Worker,     \* webhook and refresh requests in flight
    None,       \* no row, and no next_cursor
    MaxLog,     \* bound: changes at the bank
    PageSize,   \* most entries in a page
    MaxPages    \* MAX_SYNC_PAGES

ASSUME BoundAssumption ==
    MaxLog \in Nat /\ PageSize \in Nat \ {0} /\ MaxPages \in Nat \ {0}

\* mine: the category and the exclusion the user chose for the row.
Row == [look : Look, mine : BOOLEAN]

ASSUME NoneAssumption == None \notin Look \cup Nat \cup Row

VARIABLES
    log,       \* the bank's changes so far
    ledger,    \* the imported row of each bank transaction, or None
    saved,     \* linked_accounts.plaid_cursor
    status,    \* linked_accounts.status
    closed,    \* budgets.closed_at is set
    sync,      \* what each worker's sync is doing
    touched    \* bank transactions whose row a user edited or deleted

vars == <<log, ledger, saved, status, closed, sync, touched>>
bankVars == <<log>>
accountVars == <<status, closed>>

Change == [kind : {"added", "modified", "removed"}, tx : Ptx, look : Look \cup {None}]
Sync == [at : {"idle", "fetch", "apply", "save"}, cursor : 0..MaxLog,
         pages : 0..MaxPages, todo : SUBSET Change, next : 0..MaxLog \cup {None},
         more : BOOLEAN]
Idle == [at |-> "idle", cursor |-> 0, pages |-> 0, todo |-> {}, next |-> None,
         more |-> FALSE]

TypeOK ==
    /\ log \in Seq(Change) /\ Len(log) <= MaxLog
    /\ ledger \in [Ptx -> Row \cup {None}]
    /\ saved \in 0..Len(log)
    /\ status \in {"active", "consent_expired", "disconnected"}
    /\ closed \in BOOLEAN
    /\ sync \in [Worker -> Sync]
    /\ touched \subseteq Ptx

Init ==
    /\ log = <<>>
    /\ ledger = [p \in Ptx |-> None]
    /\ saved = 0
    /\ status = "active" /\ closed = FALSE
    /\ sync = [w \in Worker |-> Idle]
    /\ touched = {}

-----------------------------------------------------------------------------
(* The bank *)

Known(p) == \E i \in DOMAIN log : log[i].tx = p
Latest(p) ==
    CHOOSE i \in DOMAIN log : log[i].tx = p /\ \A j \in (i + 1)..Len(log) : log[j].tx # p
\* What the bank now says of p; None when it never had it or retracted it.
AtBank(p) == IF Known(p) THEN log[Latest(p)].look ELSE None

BankChange(kind, p, look) ==
    /\ Len(log) < MaxLog
    /\ log' = Append(log, [kind |-> kind, tx |-> p, look |-> look])
    /\ UNCHANGED <<ledger, saved, accountVars, sync, touched>>

\* Plaid never reuses the id of a retracted transaction.
BankAdds(p, look) == ~Known(p) /\ BankChange("added", p, look)
BankModifies(p, look) ==
    AtBank(p) \notin {None, look} /\ BankChange("modified", p, look)
BankRetracts(p) == AtBank(p) # None /\ BankChange("removed", p, None)

\* A page lists a transaction at most once, under one of its three arrays.
Pages(cursor) ==
    {n \in cursor..Len(log) :
        /\ n <= cursor + PageSize
        /\ IsInjective([i \in (cursor + 1)..n |-> log[i].tx])}

-----------------------------------------------------------------------------
(* The sync *)

Become(w, s) == sync' = [sync EXCEPT ![w] = s]
At(w, step) == sync[w].at = step

\* The arrays of a page, in the order the code goes through them; the order within
\* one is the provider's.
Array(e) == IF e.kind = "added" THEN 1 ELSE IF e.kind = "modified" THEN 2 ELSE 3

\* The row is read, with its cursor; a closed budget is a no-op.
Start(w) ==
    /\ At(w, "idle")
    /\ status = "active" /\ ~closed
    /\ Become(w, [Idle EXCEPT !.at = "fetch", !.cursor = saved])
    /\ UNCHANGED <<bankVars, ledger, saved, accountVars, touched>>

\* One call to /transactions/sync.  Neither has_more nor next_cursor is trusted:
\* the provider may repeat the cursor or leave it out.
Fetch(w, n, next, more) ==
    /\ At(w, "fetch")
    /\ status # "disconnected"
    /\ sync[w].pages < MaxPages
    /\ n \in Pages(sync[w].cursor)
    /\ Become(w, [sync[w] EXCEPT
                     !.at = "apply", !.pages = @ + 1, !.next = next, !.more = more,
                     !.todo = {log[i] : i \in (sync[w].cursor + 1)..n}])
    /\ UNCHANGED <<bankVars, ledger, saved, accountVars, touched>>

\* The call fails or the token is revoked: save what there is.
FetchFails(w) ==
    /\ At(w, "fetch")
    /\ sync[w].pages < MaxPages
    /\ Become(w, [sync[w] EXCEPT !.at = "save"])
    /\ UNCHANGED <<bankVars, ledger, saved, accountVars, touched>>

\* The loop ends at the cap, whatever has_more says.
PagesSpent(w) ==
    /\ At(w, "fetch")
    /\ sync[w].pages = MaxPages
    /\ Become(w, [sync[w] EXCEPT !.at = "save"])
    /\ UNCHANGED <<bankVars, ledger, saved, accountVars, touched>>

\* Bug to catch: `modified` is ignored for a row that is there.
ModifiedDoesNothing(e) ==
    IF e.kind = "removed" THEN None
    ELSE IF ledger[e.tx] = None THEN [look |-> e.look, mine |-> FALSE]
    ELSE ledger[e.tx]
\* Bug to catch: a conflict refreshes the whole row.
Overwritten(e) ==
    IF e.kind = "removed" THEN None ELSE [look |-> e.look, mine |-> FALSE]
\* INSERT .. ON CONFLICT DO NOTHING for `added`, DO UPDATE of the Plaid-sourced
\* columns for `modified`, DELETE for `removed`.
Applied(e) ==
    IF e.kind = "removed" THEN None
    ELSE IF ledger[e.tx] = None THEN [look |-> e.look, mine |-> FALSE]
    ELSE IF e.kind = "added" THEN ledger[e.tx]
    ELSE [ledger[e.tx] EXCEPT !.look = e.look]

Apply(w, e) ==
    /\ At(w, "apply")
    /\ e \in sync[w].todo
    /\ \A f \in sync[w].todo : Array(e) <= Array(f)
    /\ ledger' = [ledger EXCEPT ![e.tx] = Applied(e)]
    /\ Become(w, [sync[w] EXCEPT !.todo = @ \ {e}])
    /\ UNCHANGED <<bankVars, saved, accountVars, touched>>

\* Bug to catch: a missing next_cursor overwrites the cursor.
TurnPageBlind(w) ==
    /\ At(w, "apply")
    /\ sync[w].todo = {}
    /\ Become(w, [sync[w] EXCEPT !.cursor = sync[w].next, !.at = "save"])
    /\ UNCHANGED <<bankVars, ledger, saved, accountVars, touched>>

\* The page is done: advance the cursor, and go on if there is more.
TurnPage(w) ==
    LET next == sync[w].next IN
    /\ At(w, "apply")
    /\ sync[w].todo = {}
    /\ Become(w, [sync[w] EXCEPT
                     !.cursor = IF next = None THEN @ ELSE next,
                     !.at = IF next # None /\ sync[w].more THEN "fetch" ELSE "save"])
    /\ UNCHANGED <<bankVars, ledger, saved, accountVars, touched>>

\* Bug to catch: the cursor of the last page fetched, not of the last applied.
SaveAhead(w) ==
    /\ At(w, "save")
    /\ saved' = Len(log)
    /\ Become(w, Idle)
    /\ UNCHANGED <<bankVars, ledger, accountVars, touched>>

Save(w) ==
    /\ At(w, "save")
    /\ saved' = sync[w].cursor
    /\ Become(w, Idle)
    /\ UNCHANGED <<bankVars, ledger, accountVars, touched>>

\* A statement fails or the server stops: the cursor is not saved.
Abort(w) ==
    /\ ~At(w, "idle")
    /\ Become(w, Idle)
    /\ UNCHANGED <<bankVars, ledger, saved, accountVars, touched>>

-----------------------------------------------------------------------------
(* The user and the account *)

UserEdits(p, look) ==
    /\ ledger[p] # None
    /\ ledger' = [ledger EXCEPT ![p] = [look |-> look, mine |-> TRUE]]
    /\ touched' = touched \cup {p}
    /\ UNCHANGED <<bankVars, saved, accountVars, sync>>

UserDeletes(p) ==
    /\ ledger[p] # None
    /\ ledger' = [ledger EXCEPT ![p] = None]
    /\ touched' = touched \cup {p}
    /\ UNCHANGED <<bankVars, saved, accountVars, sync>>

\* ITEM_LOGIN_REQUIRED, guarded by status = 'active'.
LoginRequired ==
    /\ status = "active"
    /\ status' = "consent_expired"
    /\ UNCHANGED <<bankVars, ledger, saved, closed, sync, touched>>

Disconnect ==
    /\ status' = "disconnected"
    /\ UNCHANGED <<bankVars, ledger, saved, closed, sync, touched>>

\* The upsert of complete_link_session on a known account: the cursor stays.
Relink ==
    /\ ~closed
    /\ status' = "active"
    /\ UNCHANGED <<bankVars, ledger, saved, closed, sync, touched>>

CloseBudget ==
    /\ closed' = TRUE
    /\ UNCHANGED <<bankVars, ledger, saved, status, sync, touched>>

-----------------------------------------------------------------------------
Bank ==
    \E p \in Ptx :
       \/ \E look \in Look : BankAdds(p, look) \/ BankModifies(p, look)
       \/ BankRetracts(p)

Syncing(w) ==
    \/ Start(w) \/ FetchFails(w) \/ PagesSpent(w) \/ TurnPage(w) \/ Save(w)
    \/ \E e \in sync[w].todo : Apply(w, e)
    \/ \E n \in Pages(sync[w].cursor), more \in BOOLEAN :
          \E next \in {n, sync[w].cursor, None} : Fetch(w, n, next, more)

User ==
    \E p \in Ptx : UserDeletes(p) \/ \E look \in Look : UserEdits(p, look)

Account == LoginRequired \/ Disconnect \/ Relink \/ CloseBudget

SyncNext == Bank \/ \E w \in Worker : Syncing(w) \/ Abort(w)
Next == SyncNext \/ User \/ Account

Spec == Init /\ [][Next]_vars

\* An account that stays linked, to an open budget.
SyncSpec == Init /\ [][SyncNext]_vars

\* A sync of which nothing fails, against a bank that answers honestly.
Healthy(w) ==
    \/ Start(w) \/ PagesSpent(w) \/ TurnPage(w) \/ Save(w)
    \/ \E e \in sync[w].todo : Apply(w, e)
    \/ \E n \in Pages(sync[w].cursor) :
          /\ n > sync[w].cursor \/ n = Len(log)
          /\ Fetch(w, n, n, n < Len(log))

\* A sync waits for Plaid, over a client that has no timeout.
Calling(w) == At(w, "fetch") /\ sync[w].pages < MaxPages

\* The next step of a sync is the server's own, and not Plaid's or a user's.
InHand(w) == ~At(w, "idle") /\ ~Calling(w)

\* A request keeps running while its next step is the server's own, and may still fail at
\* any statement.  Nothing starts a sync by itself, and a call may hang.
LiveSpec == SyncSpec /\ \A w \in Worker : WF_vars(InHand(w) /\ (Syncing(w) \/ Abort(w)))

-----------------------------------------------------------------------------
(* Properties *)

Mirrored(p) ==
    IF AtBank(p) = None THEN ledger[p] = None
    ELSE ledger[p] # None /\ ledger[p].look = AtBank(p)

\* "Left unhandled, retracted transactions would stay forever", and a stale
\* amount would have "no path to correct it": once the saved cursor is at the
\* bank's end and nothing runs, the untouched rows are what the bank says.
CaughtUp ==
    (saved = Len(log) /\ \A w \in Worker : At(w, "idle")) =>
        \A p \in Ptx \ touched : Mirrored(p)

\* However often a page is redelivered, what the user chose for a row survives,
\* and an `added` entry changes no row that is there.
ChoicesSurvive ==
    [][\A w \in Worker : \A e \in sync[w].todo, p \in Ptx :
          Apply(w, e) /\ ledger[p] # None /\ ledger'[p] # None =>
             /\ ledger'[p].mine = ledger[p].mine
             /\ e.kind = "added" => ledger'[p] = ledger[p]]_vars

\* The saved cursor never passes a change that no sync has applied: a bank
\* transaction behind it is in the ledger, unless it was retracted or a user
\* deleted it.
NothingSkipped ==
    \A p \in Ptx \ touched :
        (/\ \E i \in 1..saved : log[i].tx = p
         /\ AtBank(p) # None)
        => ledger[p] # None

\* A sync ends, whatever the provider answers (MAX_SYNC_PAGES), unless a call hangs.
SyncEnds == \A w \in Worker : []<>(~Calling(w)) => []<>At(w, "idle")

\* Whatever failed before: once no statement and no call fails any more, and as long as
\* webhooks or refreshes start syncs again and again, the ledger catches up with the
\* bank, which changes finitely often here.
EventuallyCaughtUp ==
    /\ <>[][Bank \/ \E w \in Worker : Healthy(w)]_vars
    /\ []<><<\E w \in Worker : Start(w)>>_vars
    => <>[](saved = Len(log) /\ \A p \in Ptx : Mirrored(p))
=============================================================================
