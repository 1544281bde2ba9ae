--------------------------- MODULE MCAutoCategory ---------------------------
(***************************************************************************)
(* AutoCategory for TLC.  Two history variables tell what has interfered   *)
(* so far, for the promises that hold only while nothing does.             *)
(***************************************************************************)
EXTENDS AutoCategory

VARIABLES
    overlapped,  \* a request has done something while another was in flight
    cut          \* a request was cut off, or the bank retracted a transaction

MCInit == Init /\ overlapped = FALSE /\ cut = FALSE

MCNext ==
    /\ Next
    /\ overlapped' = (overlapped \/ \E w \in Worker : ~At(w, "idle") /\ req'[w] = req[w])
    /\ cut' = (cut \/ ~UserNext)

MCSpec == MCInit /\ [][MCNext]_<<vars, overlapped, cut>>

\* "Case-insensitive find-or-create": alone, it never adds a second spelling of
\* a category the budget already has.
NoSecondSpelling ==
    ~overlapped /\ cats' # cats => \A w \in Worker : InsertCat(w)
        => \A c \in cats : Fold[cat[c].name] # Fold[req[w].name]

\* "A category that still holds transactions is left untouched": alone, the
\* cleanup takes the category away from no transaction.
CleanupSparesUsed ==
    ~overlapped /\ in' # in => \A w \in Worker : ~CleanupDelete(w)

\* A chat edit that names no category leaves the transaction where it is, though
\* it writes the category it read before.
EditKeepsCategory ==
    ~overlapped /\ in' # in => \A w \in Worker : ChatUpdate(w) => req[w].name # None

\* What is promised of each step of a request that runs alone.
SparedAlone == NoSecondSpelling /\ CleanupSparesUsed /\ EditKeepsCategory

\* "If the reassignment emptied an auto-created source category, remove it":
\* between requests that come one at a time and are not cut off, every
\* disposable category holds a transaction.
ReclaimedAlone == overlapped \/ cut \/ Reclaimed
=============================================================================
