----------------------------- MODULE MCPlaidSync -----------------------------
(***************************************************************************)
(* PlaidSync for TLC, with a history variable for the promise that holds   *)
(* only while syncs of the account do not overlap.                         *)
(***************************************************************************)
EXTENDS PlaidSync, TLC

VARIABLE overlapped  \* two syncs have been in flight at once

MCInit == Init /\ overlapped = FALSE

Observed ==
    overlapped' = (overlapped \/
        \E v, w \in Worker : v # w /\ sync'[v].at # "idle" /\ sync'[w].at # "idle")

ObservedSpec == MCInit /\ [][Next /\ Observed]_<<vars, overlapped>>

\* Bounds: a budget is closed while its account is active, and the account then stays
\* so, as either is enough to keep a sync from starting; the user touches one row, of
\* an account that stays active.
MCNext ==
    /\ Next /\ Observed
    /\ closed' => status' = "active"
    /\ \E p \in Ptx : touched' \subseteq {p}
    /\ touched' = {} \/ (status' = "active" /\ ~closed')

MCSpec == MCInit /\ [][MCNext]_<<vars, overlapped>>

Interchangeable == Permutations(Ptx) \cup Permutations(Look) \cup Permutations(Worker)

\* "Left unhandled, retracted transactions would stay forever", and a stale
\* amount would have "no path to correct it": as long as syncs do not overlap,
\* once the saved cursor is at the bank's end the untouched rows are what the
\* bank says.
CaughtUpAlone == overlapped \/ CaughtUp
=============================================================================
