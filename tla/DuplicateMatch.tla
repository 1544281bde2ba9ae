--------------------------- MODULE DuplicateMatch ---------------------------
(***************************************************************************)
(* The duplicate matcher of one budget's transaction ledger: bank imports  *)
(* and rows logged through chat or the API are inserted by concurrent      *)
(* requests, each insert looks for its twin, and the user settles what the *)
(* matcher links (backend/src/duplicate_match.rs, and the transaction      *)
(* handlers of backend/src/budget.rs).                                     *)
(*                                                                         *)
(* No handler opens a database transaction: every SQL statement commits by *)
(* itself, so each statement is an action and the requests interleave      *)
(* between them.  A Worker is one request in flight; what it remembers     *)
(* between two statements is its record req[w].                            *)
(***************************************************************************)
EXTENDS Naturals, FiniteSets

CONSTANTS
    Row,        \* transaction ids (fresh UUIDs: an id is never reused)
    Worker,     \* concurrent requests
    Look,       \* what the matcher compares: amount, currency, date, category type
    Similar,    \* the pairs of looks the matcher's WHERE clause accepts
    None,       \* SQL NULL
    AuditCap    \* bound: settlements recorded on one row

ASSUME SimilarAssumption ==
    /\ Similar \subseteq Look \X Look
    /\ \A a, b \in Look : <<a, b>> \in Similar => <<b, a>> \in Similar
ASSUME NoneAssumption == None \notin Row \cup Look
ASSUME AuditCapAssumption == AuditCap \in Nat

VARIABLES
    born,         \* ids ever inserted
    live,         \* ids of the rows in the transactions table
    row,          \* the columns of each row
    match,        \* transactions.matched_transaction_id
    req,          \* the request each worker is serving
    approvals,    \* APPROVE_TRANSACTION audit rows per transaction
    deletions,    \* DELETE_TRANSACTION audit rows per transaction
    settlements   \* RESOLVE_DUPLICATE audit rows per transaction

audits == <<approvals, deletions, settlements>>
vars == <<born, live, row, match, req, audits>>

\* 'ai' and 'manual' rows are one source to the matcher: logged through Nels.
Source == {"logged", "imported"}
Columns == [source : Source, look : Look \cup {None}, excluded : BOOLEAN,
            review : {"needs_review", "reviewed"}]

Step == {"idle", "loadImport", "findTwin", "linkImport",
         "loadLogged", "findImport", "linkLogged",
         "approve", "delete", "mergeExclude", "mergeReview", "dismiss"}
\* The statement a request runs next, the transaction it is about, and what
\* its last statement returned.
Request == [at : Step, id : Row \cup {None}, got : Row \cup Look \cup {None}]

Idle == [at |-> "idle", id |-> None, got |-> None]

TypeOK ==
    /\ live \subseteq born /\ born \subseteq Row
    /\ row \in [Row -> Columns]
    /\ match \in [Row -> Row \cup {None}]
    /\ req \in [Worker -> Request]
    /\ approvals \in [Row -> Nat]
    /\ deletions \in [Row -> Nat]
    /\ settlements \in [Row -> Nat]

Init ==
    /\ born = {} /\ live = {}
    /\ row = [r \in Row |-> [source |-> "logged", look |-> None,
                            excluded |-> FALSE, review |-> "reviewed"]]
    /\ match = [r \in Row |-> None]
    /\ req = [w \in Worker |-> Idle]
    /\ approvals = [r \in Row |-> 0]
    /\ deletions = [r \in Row |-> 0]
    /\ settlements = [r \in Row |-> 0]

-----------------------------------------------------------------------------
(* What the statements do *)

IsImport(r) == row[r].source = "imported"

\* Bug to catch: no NOT EXISTS clause on the candidates.
NeverClaimed(t) == FALSE
Claimed(t) == \E m \in live : match[m] = t

\* Bug to catch: a status the column's CHECK does not know.
MarkedResolved(r) == [row EXCEPT ![r].review = "resolved"]
MarkedReviewed(r) == [row EXCEPT ![r].review = "reviewed"]

AwaitsReview(r) == r \in live /\ row[r].review = "needs_review"

At(w, step) == req[w].at = step
GoTo(w, step, r, got) ==
    req' = [req EXCEPT ![w] = [at |-> step, id |-> r, got |-> got]]
Begin(w, step, r) == At(w, "idle") /\ GoTo(w, step, r, None)
Finish(w) == req' = [req EXCEPT ![w] = Idle]

\* INSERT INTO transactions: a fresh id with its columns and no link.
Insert(r, cols) ==
    /\ r \notin born
    /\ born' = born \cup {r}
    /\ live' = live \cup {r}
    /\ row' = [row EXCEPT ![r] = cols]
    /\ UNCHANGED match

\* DELETE, with the foreign key's ON DELETE SET NULL on matched_transaction_id.
Remove(r) ==
    /\ live' = live \ {r}
    /\ match' = [m \in Row |-> IF m = r \/ match[m] = r THEN None ELSE match[m]]
    /\ UNCHANGED <<born, row>>

\* find_duplicate_candidate: logged rows that look like the import and that no
\* import claims.  Whether they are excluded is not asked.
TwinCandidates(r, look) ==
    {t \in live \ {r} : /\ ~IsImport(t)
                        /\ <<row[t].look, look>> \in Similar
                        /\ ~Claimed(t)}

\* find_import_duplicate_candidate: unlinked, counted imports.
ImportCandidates(r, look) ==
    {t \in live \ {r} : /\ IsImport(t)
                        /\ match[t] = None
                        /\ ~row[t].excluded
                        /\ <<row[t].look, look>> \in Similar}

\* Bug to catch: the link is put on the logged row.
SetLinkReversed(r, t) ==
    match' = IF r \in live /\ t \in live THEN [match EXCEPT ![t] = r] ELSE match

\* UPDATE .. SET matched_transaction_id = t WHERE id = r.  A row that is gone
\* matches nothing; a target that is gone violates the foreign key, and the
\* error is swallowed.  The link r may have got meanwhile is overwritten.
SetLink(r, t) ==
    match' = IF r \in live /\ t \in live THEN [match EXCEPT ![r] = t] ELSE match

-----------------------------------------------------------------------------
(* The insert of a sync, and link_duplicate_for_import *)

ImportInsert(w, r, look, excluded) ==
    /\ Insert(r, [source |-> "imported", look |-> look, excluded |-> excluded,
                  review |-> "needs_review"])
    /\ Begin(w, "loadImport", r)
    /\ UNCHANGED audits

\* Plaid's `modified` upsert of a transaction not seen before: no matcher runs.
ImportUnmatched(r, look, excluded) ==
    /\ Insert(r, [source |-> "imported", look |-> look, excluded |-> excluded,
                  review |-> "needs_review"])
    /\ UNCHANGED <<req, audits>>

\* SELECT *: the matcher works on this snapshot, and skips an excluded import.
LoadImport(w) ==
    LET r == req[w].id IN
    /\ At(w, "loadImport")
    /\ IF r \in live /\ ~row[r].excluded /\ IsImport(r)
       THEN GoTo(w, "findTwin", r, row[r].look)
       ELSE Finish(w)
    /\ UNCHANGED <<born, live, row, match, audits>>

\* ORDER BY .. LIMIT 1 picks one candidate: any of them here.
FindTwin(w) ==
    LET found == TwinCandidates(req[w].id, req[w].got) IN
    /\ At(w, "findTwin")
    /\ IF found = {} THEN Finish(w)
       ELSE \E t \in found : GoTo(w, "linkImport", req[w].id, t)
    /\ UNCHANGED <<born, live, row, match, audits>>

LinkImport(w) ==
    /\ At(w, "linkImport")
    /\ SetLink(req[w].id, req[w].got)
    /\ Finish(w)
    /\ UNCHANGED <<born, live, row, audits>>

(* create_transaction, insert_transaction_with_embedding, and
   link_duplicate_for_logged *)

LogInsert(w, r, look) ==
    /\ Insert(r, [source |-> "logged", look |-> look, excluded |-> FALSE,
                  review |-> "reviewed"])
    /\ Begin(w, "loadLogged", r)
    /\ UNCHANGED audits

LoadLogged(w) ==
    LET r == req[w].id IN
    /\ At(w, "loadLogged")
    /\ IF r \in live /\ ~row[r].excluded /\ ~IsImport(r)
       THEN GoTo(w, "findImport", r, row[r].look)
       ELSE Finish(w)
    /\ UNCHANGED <<born, live, row, match, audits>>

FindImport(w) ==
    LET found == ImportCandidates(req[w].id, req[w].got) IN
    /\ At(w, "findImport")
    /\ IF found = {} THEN Finish(w)
       ELSE \E t \in found : GoTo(w, "linkLogged", req[w].id, t)
    /\ UNCHANGED <<born, live, row, match, audits>>

\* The link lives on the import: the roles of id and got are swapped.
LinkLogged(w) ==
    /\ At(w, "linkLogged")
    /\ SetLink(req[w].got, req[w].id)
    /\ Finish(w)
    /\ UNCHANGED <<born, live, row, audits>>

-----------------------------------------------------------------------------
(* The user's handlers *)

\* update_transaction, chat_edit_transaction, chat_exclude_transaction and the
\* conflict branch of Plaid's `modified` upsert (which keeps `excluded`).
Edit(r, look, excluded) ==
    /\ r \in live
    /\ row' = [row EXCEPT ![r].look = look, ![r].excluded = excluded]
    /\ UNCHANGED <<born, live, match, req, audits>>

\* The existence check of approve_transaction; its answer is only the 404.
ApproveRead(w, r) ==
    /\ r \in live
    /\ Begin(w, "approve", r)
    /\ UNCHANGED <<born, live, row, match, audits>>

\* UPDATE .. AND review_status = 'needs_review', audited if it matched.
ApproveUpdate(w) ==
    LET r == req[w].id IN
    /\ At(w, "approve")
    /\ IF AwaitsReview(r)
       THEN /\ row' = MarkedReviewed(r)
            /\ approvals' = [approvals EXCEPT ![r] = @ + 1]
       ELSE UNCHANGED <<row, approvals>>
    /\ Finish(w)
    /\ UNCHANGED <<born, live, match, deletions, settlements>>

DeleteRead(w, r) ==
    /\ r \in live
    /\ Begin(w, "delete", r)
    /\ UNCHANGED <<born, live, row, match, audits>>

\* Bug to catch: the audit does not ask how many rows went.
DeleteExecUncounted(w) ==
    LET r == req[w].id IN
    /\ At(w, "delete")
    /\ Remove(r)
    /\ deletions' = [deletions EXCEPT ![r] = @ + 1]
    /\ Finish(w)
    /\ UNCHANGED <<approvals, settlements>>

\* DELETE; only rows_affected() > 0 is audited.
DeleteExec(w) ==
    LET r == req[w].id IN
    /\ At(w, "delete")
    /\ IF r \in live
       THEN Remove(r) /\ deletions' = [deletions EXCEPT ![r] = @ + 1]
       ELSE UNCHANGED <<born, live, row, match, deletions>>
    /\ Finish(w)
    /\ UNCHANGED <<approvals, settlements>>

\* resolve_match reads the link it is about to settle; no link is a no-op.
ResolveRead(w, r, step) ==
    /\ settlements[r] < AuditCap
    /\ r \in live
    /\ match[r] # None
    /\ At(w, "idle")
    /\ GoTo(w, step, r, match[r])
    /\ UNCHANGED <<born, live, row, match, audits>>

\* merge, first statement: take the twin out of the budget.
MergeExclude(w) ==
    LET t == req[w].got
        hit == t \in live /\ ~row[t].excluded IN
    /\ At(w, "mergeExclude")
    /\ row' = IF hit THEN [row EXCEPT ![t].excluded = TRUE] ELSE row
    /\ GoTo(w, "mergeReview", req[w].id, IF hit THEN t ELSE None)
    /\ UNCHANGED <<born, live, match, audits>>

Settled(r, changed) ==
    settlements' = [settlements EXCEPT ![r] = IF changed THEN @ + 1 ELSE @]

\* merge, second statement: the import is the reviewed, kept copy.
MergeReview(w) ==
    LET r == req[w].id
        hit == r \in live /\ row[r].review # "reviewed" IN
    /\ At(w, "mergeReview")
    /\ row' = IF hit THEN MarkedReviewed(r) ELSE row
    /\ Settled(r, hit \/ req[w].got # None)
    /\ Finish(w)
    /\ UNCHANGED <<born, live, match, approvals, deletions>>

\* dismiss: one UPDATE drops the link and marks the import reviewed.
Dismiss(w) ==
    LET r == req[w].id
        hit == r \in live /\ (match[r] # None \/ row[r].review # "reviewed") IN
    /\ At(w, "dismiss")
    /\ row' = IF hit THEN MarkedReviewed(r) ELSE row
    /\ match' = IF hit THEN [match EXCEPT ![r] = None] ELSE match
    /\ Settled(r, hit)
    /\ Finish(w)
    /\ UNCHANGED <<born, live, approvals, deletions>>

\* A sync applies Plaid's `removed` list: one DELETE of the imported row.
BankRemove(r) ==
    /\ r \in live /\ IsImport(r)
    /\ Remove(r)
    /\ UNCHANGED <<req, audits>>

\* The client hangs up or the server restarts: the request stops between two
\* statements, and what it committed stays.
Abort(w) ==
    /\ req[w].at # "idle"
    /\ Finish(w)
    /\ UNCHANGED <<born, live, row, match, audits>>

-----------------------------------------------------------------------------
\* The steps of the two inserting handlers.
Matching(w) ==
    \/ \E r \in Row, look \in Look :
          \/ \E excluded \in BOOLEAN : ImportInsert(w, r, look, excluded)
          \/ LogInsert(w, r, look)
    \/ LoadImport(w) \/ FindTwin(w) \/ LinkImport(w)
    \/ LoadLogged(w) \/ FindImport(w) \/ LinkLogged(w)

Settling(w) ==
    \/ \E r \in Row :
          \/ ApproveRead(w, r)
          \/ DeleteRead(w, r)
          \/ \E step \in {"mergeExclude", "dismiss"} : ResolveRead(w, r, step)
    \/ ApproveUpdate(w) \/ DeleteExec(w)
    \/ MergeExclude(w) \/ MergeReview(w) \/ Dismiss(w)

Ledger ==
    \E r \in Row :
       \/ BankRemove(r)
       \/ \E look \in Look, excluded \in BOOLEAN :
             \/ Edit(r, look, excluded)
             \/ ImportUnmatched(r, look, excluded)

Next ==
    \/ \E w \in Worker : Matching(w) \/ Settling(w) \/ Abort(w)
    \/ Ledger

Spec == Init /\ [][Next]_vars

-----------------------------------------------------------------------------
(* Properties *)

\* A link always runs from a live import to a live logged row: the column is
\* set on the import whichever of the two handlers finds the pair, and the
\* foreign key clears it when the twin goes.
LinkShape ==
    \A i \in Row : match[i] # None =>
        /\ i \in live /\ IsImport(i)
        /\ match[i] \in live /\ ~IsImport(match[i])

\* However approvals, merges and dismissals of one row race, at most one
\* approval is audited (the guard inside approve_transaction's UPDATE).
ApprovedOnce == \A r \in born : approvals[r] <= 1

\* At most one deletion of a row is audited, however many requests and bank
\* retractions race for it, and none is audited for a row still there.
DeletedOnce ==
    \A r \in born : deletions[r] <= 1 /\ (deletions[r] = 1 => r \notin live)

\* What races can never make the audit trail say twice.
AuditedOnce == ApprovedOnce /\ DeletedOnce

\* A merge takes a logged row out of the budget, never an imported one, even
\* when the link it read is stale by the time it writes.
MergeSparesImports ==
    [][\A r \in live, w \in Worker :
          MergeExclude(w) /\ IsImport(r) => row'[r] = row[r]]_vars

\* Two handlers that insert the two copies of one charge cannot both miss it:
\* when nobody interferes and both are done, an import and a logged row that
\* only resemble each other are linked.
UnambiguousPairLinked ==
    \A i, l \in live :
        /\ IsImport(i) /\ ~row[i].excluded /\ ~IsImport(l)
        /\ <<row[i].look, row[l].look>> \in Similar
        /\ \A k \in live \ {i, l} :
              /\ IsImport(k) => <<row[k].look, row[l].look>> \notin Similar
              /\ ~IsImport(k) => <<row[k].look, row[i].look>> \notin Similar
        /\ \A w \in Worker : req[w].id \notin {i, l}
        => match[i] = l

\* The matcher by itself never links an import an ignore rule excluded: a
\* merge of such a link would drop the logged expense.
ExcludedImportsUnlinked ==
    \A i \in live : IsImport(i) /\ row[i].excluded => match[i] = None

\* "The candidate Nels row is not already claimed by another import": no two
\* imports are linked to the same logged row.
OneImportPerTwin ==
    \A i, j \in live : match[i] # None /\ match[i] = match[j] => i = j

\* "re-resolving (or resolving an already-settled / unlinked row) is a 200
\* no-op with no second audit entry": a row is settled in the audit log once.
SettledOnce == \A r \in Row : settlements[r] <= 1
=============================================================================
