-------------------------- MODULE MCDuplicateMatch --------------------------
(***************************************************************************)
(* DuplicateMatch for TLC.  Two history variables tell what has interfered *)
(* so far, for the promises that hold only while nothing does.             *)
(***************************************************************************)
EXTENDS DuplicateMatch, FiniteSets, TLC

VARIABLES
    overlapped,  \* two requests have been in flight at once
    disturbed    \* something else than an insert and its matcher has happened

MCInit == Init /\ overlapped = FALSE /\ disturbed = FALSE

MCNext ==
    /\ Next
    /\ overlapped' = (overlapped \/ Cardinality({w \in Worker : req'[w].at # "idle"}) > 1)
    /\ disturbed' = (disturbed \/ ~ \E w \in Worker : Matching(w))

MCSpec == MCInit /\ [][MCNext]_<<vars, overlapped, disturbed>>

\* The rows of one budget that all look alike.
AllAlike == Look \X Look

Interchangeable == Permutations(Row) \cup Permutations(Worker)

\* "The candidate Nels row is not already claimed by another import": while
\* requests come one at a time, whatever else the user and the bank do, no two
\* imports are linked to the same logged row.
OneImportPerTwinAlone == overlapped \/ OneImportPerTwin

\* Two handlers that insert the two copies of one charge cannot both miss it,
\* however their statements interleave, as long as nobody edits or deletes.
PairLinkedUndisturbed == disturbed \/ UnambiguousPairLinked

\* The matcher by itself never links an import an ignore rule excluded: a
\* merge of such a link would drop the logged expense.
ExcludedUnlinkedUndisturbed == disturbed \/ ExcludedImportsUnlinked
=============================================================================
