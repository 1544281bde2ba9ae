---------------------------- MODULE AutoCategory ----------------------------
(***************************************************************************)
(* Categories that appear and disappear as a side effect of logging: a     *)
(* message that names an unknown category creates it, and the cleanup      *)
(* removes it again when its last transaction leaves                       *)
(* (find_or_create_category and cleanup_orphaned_auto_category of          *)
(* backend/src/budget.rs, with every handler that calls them).             *)
(*                                                                         *)
(* Each SQL statement commits by itself.  One statement is two actions:    *)
(* the cleanup's DELETE .. WHERE NOT EXISTS (..) takes its snapshot first  *)
(* and deletes the row it found afterwards, and under READ COMMITTED a     *)
(* row that was only locked in between (an INSERT's foreign key check) is  *)
(* deleted without asking NOT EXISTS again.                                *)
(***************************************************************************)
EXTENDS FiniteSets

CONSTANTS
    Cat,      \* category ids (fresh UUIDs)
    Tx,       \* transaction ids (fresh UUIDs)
    Worker,   \* concurrent requests
    Name,     \* spellings of category names
    Fold,     \* LOWER(name)
    None      \* SQL NULL, and "not named"

AutoCategoryAssumption ==
    /\ Fold \in [Name -> Name]
    /\ None \notin Cat \cup Tx \cup Name

VARIABLES
    catBorn, cats, cat,    \* ids ever used, rows of categories, their columns
    txBorn, txs, in,       \* ids ever used, rows of transactions, category_id
    req                    \* the request each worker is serving

vars == <<catBorn, cats, cat, txBorn, txs, in, req>>
catVars == <<catBorn, cats, cat>>
txVars == <<txBorn, txs, in>>

Step == {"idle", "select", "insertCat", "reselect", "insertTx", "chatUpdate",
         "restUpdate", "delete", "cleanup", "cleanupDelete"}

\* tx is the transaction edited or deleted (None while logging a new one),
\* name and auto the category asked for, to the one resolved, old the one read.
Request == [at : Step, tx : Tx \cup {None}, name : Name \cup {None},
            auto : BOOLEAN, to : Cat \cup {None}, old : Cat \cup {None}]
Idle == [at |-> "idle", tx |-> None, name |-> None, auto |-> FALSE,
         to |-> None, old |-> None]

NoRow == [name |-> None, auto |-> FALSE]

TypeOK ==
    /\ cats \subseteq catBorn /\ catBorn \subseteq Cat
    /\ cat \in [Cat -> [name : Name \cup {None}, auto : BOOLEAN]]
    /\ txs \subseteq txBorn /\ txBorn \subseteq Tx
    /\ in \in [Tx -> cats \cup {None}]
    /\ req \in [Worker -> Request]

Init ==
    /\ catBorn = {} /\ cats = {}
    /\ cat = [c \in Cat |-> NoRow]
    /\ txBorn = {} /\ txs = {}
    /\ in = [t \in Tx |-> None]
    /\ req = [w \in Worker |-> Idle]

-----------------------------------------------------------------------------
(* Statements *)

At(w, step) == req[w].at = step
Become(w, q) == req' = [req EXCEPT ![w] = q]
Finish(w) == Become(w, Idle)

\* SELECT .. WHERE LOWER(name) = LOWER($2).
Matches(name) == {c \in cats : Fold[cat[c].name] = Fold[name]}

\* UNIQUE (budget_id, name) compares spellings.
Taken(name) == \E c \in cats : cat[c].name = name

InsertCategory(c, name, auto) ==
    /\ c \notin catBorn
    /\ catBorn' = catBorn \cup {c}
    /\ cats' = cats \cup {c}
    /\ cat' = [cat EXCEPT ![c] = [name |-> name, auto |-> auto]]
    /\ UNCHANGED txVars

\* DELETE FROM categories, with ON DELETE SET NULL on transactions.category_id.
DropCategory(c) ==
    /\ cats' = cats \ {c}
    /\ cat' = [cat EXCEPT ![c] = NoRow]
    /\ in' = [t \in Tx |-> IF in[t] = c THEN None ELSE in[t]]
    /\ UNCHANGED <<catBorn, txBorn, txs>>

Empty(c) == \A t \in txs : in[t] # c

\* What the cleanup's DELETE selects.
Orphaned(c) == c \in cats /\ cat[c].auto /\ Empty(c)

-----------------------------------------------------------------------------
(* find_or_create_category, for a new transaction (finalize_transaction and  *)
(* the chat's ADD_TRANSACTION) or for a move (the chat's EDIT_TRANSACTION)   *)

\* An explicitly named category is not flagged as disposable.
BeginLog(w, name, auto) ==
    /\ At(w, "idle")
    /\ Become(w, [Idle EXCEPT !.at = "select", !.name = name, !.auto = auto])
    /\ UNCHANGED <<catVars, txVars>>

\* finalize_transaction with an existing category: only checks that it exists.
BeginLogInto(w, c) ==
    /\ At(w, "idle")
    /\ c \in cats
    /\ Become(w, [Idle EXCEPT !.at = "insertTx", !.to = c])
    /\ UNCHANGED <<catVars, txVars>>

Resolved(q, c) ==
    [q EXCEPT !.to = c, !.at = IF q.tx = None THEN "insertTx" ELSE "chatUpdate"]

Select(w) ==
    LET found == Matches(req[w].name) IN
    /\ At(w, "select")
    /\ IF found = {} THEN Become(w, [req[w] EXCEPT !.at = "insertCat"])
       ELSE \E c \in found : Become(w, Resolved(req[w], c))
    /\ UNCHANGED <<catVars, txVars>>

InsertCat(w) ==
    /\ At(w, "insertCat")
    /\ IF Taken(req[w].name)
       THEN /\ Become(w, [req[w] EXCEPT !.at = "reselect"])
            /\ UNCHANGED <<catVars, txVars>>
       ELSE \E c \in Cat :
              /\ InsertCategory(c, req[w].name, req[w].auto)
              /\ Become(w, Resolved(req[w], c))

\* fetch_one: no row is an error, and the request ends with it.
Reselect(w) ==
    LET found == Matches(req[w].name) IN
    /\ At(w, "reselect")
    /\ IF found = {} THEN Finish(w)
       ELSE \E c \in found : Become(w, Resolved(req[w], c))
    /\ UNCHANGED <<catVars, txVars>>

\* The foreign key refuses a category that is gone; the request then fails.
InsertTx(w) ==
    /\ At(w, "insertTx")
    /\ IF req[w].to \in cats
       THEN \E t \in Tx :
              /\ t \notin txBorn
              /\ txBorn' = txBorn \cup {t}
              /\ txs' = txs \cup {t}
              /\ in' = [in EXCEPT ![t] = req[w].to]
       ELSE UNCHANGED txVars
    /\ Finish(w)
    /\ UNCHANGED catVars

-----------------------------------------------------------------------------
(* Moving and deleting transactions *)

\* chat_edit_transaction: the row is located, and its category remembered.  A
\* name asks for a move; without one some other column changes.
BeginChatEdit(w, t, name) ==
    /\ At(w, "idle")
    /\ t \in txs
    /\ Become(w, [Idle EXCEPT
                     !.at = IF name = None THEN "chatUpdate" ELSE "select",
                     !.tx = t, !.name = name, !.auto = TRUE,
                     !.old = in[t], !.to = in[t]])
    /\ UNCHANGED <<catVars, txVars>>

\* category_changed compares what was read with what is to be written.
Cleaning(w) ==
    Become(w, [req[w] EXCEPT
                  !.at = IF req[w].to # req[w].old THEN "cleanup" ELSE "idle"])

\* Bug to catch: an edit that names no category clears it.
ChatUpdateClearing(w) ==
    /\ At(w, "chatUpdate")
    /\ in' = IF req[w].tx \in txs /\ req[w].name = None
             THEN [in EXCEPT ![req[w].tx] = None] ELSE in
    /\ Cleaning(w)
    /\ UNCHANGED <<catVars, txBorn, txs>>

\* UPDATE .. SET category_id = $1 writes the category even when it is only the
\* one read before.  No row matched is not noticed; a category that is gone is.
ChatUpdate(w) ==
    /\ At(w, "chatUpdate")
    /\ IF req[w].tx \in txs /\ req[w].to \notin cats \cup {None}
       THEN Finish(w) /\ UNCHANGED in
       ELSE /\ in' = IF req[w].tx \in txs
                     THEN [in EXCEPT ![req[w].tx] = req[w].to] ELSE in
            /\ Cleaning(w)
    /\ UNCHANGED <<catVars, txBorn, txs>>

\* update_transaction with a category of the budget.
BeginRestEdit(w, t, c) ==
    /\ At(w, "idle")
    /\ t \in txs /\ c \in cats
    /\ Become(w, [Idle EXCEPT !.at = "restUpdate", !.tx = t, !.to = c,
                              !.old = in[t]])
    /\ UNCHANGED <<catVars, txVars>>

\* UPDATE .. RETURNING with fetch_one: a row or a category that is gone fails.
RestUpdate(w) ==
    /\ At(w, "restUpdate")
    /\ IF req[w].tx \in txs /\ req[w].to \in cats
       THEN in' = [in EXCEPT ![req[w].tx] = req[w].to] /\ Cleaning(w)
       ELSE UNCHANGED in /\ Finish(w)
    /\ UNCHANGED <<catVars, txBorn, txs>>

BeginDelete(w, t) ==
    /\ At(w, "idle")
    /\ t \in txs
    /\ Become(w, [Idle EXCEPT !.at = "delete", !.tx = t, !.old = in[t]])
    /\ UNCHANGED <<catVars, txVars>>

\* Bug to catch: the deletion does not clean up.
DeleteUncleaned(w) ==
    /\ At(w, "delete")
    /\ txs' = txs \ {req[w].tx}
    /\ in' = [in EXCEPT ![req[w].tx] = None]
    /\ Finish(w)
    /\ UNCHANGED <<catVars, txBorn>>

\* Zero rows deleted is a 404, and nothing is cleaned up.
Delete(w) ==
    /\ At(w, "delete")
    /\ IF req[w].tx \in txs
       THEN /\ txs' = txs \ {req[w].tx}
            /\ in' = [in EXCEPT ![req[w].tx] = None]
            /\ Become(w, [req[w] EXCEPT !.at = "cleanup"])
       ELSE UNCHANGED <<txs, in>> /\ Finish(w)
    /\ UNCHANGED <<catVars, txBorn>>

(* cleanup_orphaned_auto_category *)

CleanupScan(w) ==
    /\ At(w, "cleanup")
    /\ IF Orphaned(req[w].old) THEN Become(w, [req[w] EXCEPT !.at = "cleanupDelete"])
       ELSE Finish(w)
    /\ UNCHANGED <<catVars, txVars>>

CleanupDelete(w) ==
    /\ At(w, "cleanupDelete")
    /\ DropCategory(req[w].old)
    /\ Finish(w)

-----------------------------------------------------------------------------
(* Categories by hand, the bank, and requests cut off *)

\* create_category: 409 on a spelling in use.
CreateCategory(w, c, name) ==
    /\ At(w, "idle")
    /\ ~Taken(name)
    /\ InsertCategory(c, name, FALSE)
    /\ UNCHANGED req

\* update_category, which never touches the auto_created flag.
RenameCategory(w, c, name) ==
    /\ At(w, "idle")
    /\ c \in cats /\ ~Taken(name)
    /\ cat' = [cat EXCEPT ![c].name = name]
    /\ UNCHANGED <<catBorn, cats, txVars, req>>

DeleteCategory(w, c) ==
    /\ At(w, "idle")
    /\ c \in cats
    /\ DropCategory(c)
    /\ UNCHANGED req

\* A sync retracts an imported row, and never cleans up after it.
BankRemove(t) ==
    /\ t \in txs
    /\ txs' = txs \ {t}
    /\ in' = [in EXCEPT ![t] = None]
    /\ UNCHANGED <<catVars, txBorn, req>>

Abort(w) ==
    /\ ~At(w, "idle")
    /\ Finish(w)
    /\ UNCHANGED <<catVars, txVars>>

-----------------------------------------------------------------------------
Logging(w) ==
    \/ \E name \in Name, auto \in BOOLEAN : BeginLog(w, name, auto)
    \/ \E c \in Cat : BeginLogInto(w, c)
    \/ Select(w) \/ InsertCat(w) \/ Reselect(w) \/ InsertTx(w)

Moving(w) ==
    \/ \E t \in Tx :
          \/ \E name \in Name \cup {None} : BeginChatEdit(w, t, name)
          \/ \E c \in Cat : BeginRestEdit(w, t, c)
          \/ BeginDelete(w, t)
    \/ ChatUpdate(w) \/ RestUpdate(w) \/ Delete(w)
    \/ CleanupScan(w) \/ CleanupDelete(w)

Managing(w) ==
    \E c \in Cat :
       \/ \E name \in Name : CreateCategory(w, c, name) \/ RenameCategory(w, c, name)
       \/ DeleteCategory(w, c)

\* What the budget's members do, when no request is cut off.
UserNext == \E w \in Worker : Logging(w) \/ Moving(w) \/ Managing(w)

Next ==
    \/ UserNext
    \/ \E w \in Worker : Abort(w)
    \/ \E t \in Tx : BankRemove(t)

Spec == Init /\ [][Next]_vars

-----------------------------------------------------------------------------
(* Properties *)

\* Between requests, every disposable category holds a transaction.
Reclaimed ==
    (\A w \in Worker : At(w, "idle")) =>
        \A c \in cats : cat[c].auto => ~Empty(c)
=============================================================================
