----------------------------- MODULE MCBudgets ------------------------------
(***************************************************************************)
(* Budgets for TLC: their tree (BudgetLifecycle, whose names are used as   *)
(* they are), who may write them (SharedBudget) and the subscription that  *)
(* pays for them (Billing).  A behaviour shows one of the three, chosen at *)
(* first: what is a variable of several is the shown one's, and what is of *)
(* the others only is None, or empty, or has its history spoiled.          *)
(***************************************************************************)
EXTENDS BudgetLifecycle, TLC

-----------------------------------------------------------------------------
(* The tree.  past: whether a request ever ran while another was between its *)
(* check and its write, or was cut.  started: the requests of several steps. *)

CONSTANT MaxRequests

VARIABLES past, started

Interchangeable == Permutations(Workers)

InProgress == {w \in Workers : req[w] # Idle}

Overlaps ==
  \/ \E v, w \in Workers : v # w /\ req'[v] # Idle /\ req'[w] # Idle
  \/ InProgress # {} /\ req' = req

MCInit == Init /\ past = "alone" /\ started = 0

After(mark) == past' = IF past = "overlapped" \/ Overlaps THEN "overlapped" ELSE mark

MCNext ==
  \/ AtOnce /\ After(past) /\ UNCHANGED started
  \/ \E w \in Workers :
       \/ /\ started < MaxRequests
          /\ Start(w)
          /\ started' = started + 1
          /\ After(past)
       \/ Step(w) /\ After(past) /\ UNCHANGED started
       \/ Cut(w) /\ After("cut") /\ UNCHANGED started

\* Requests that do not overlap keep rollup one level deep and of one kind.
RollupSoundAlone == past = "overlapped" \/ RollupSound

\* Requests that do not overlap leave no mirror behind without its link,
\* not even one cut half way: the mirror and the link are one transaction.
MirrorsFollowLinksAlone == past = "overlapped" \/ MirrorsFollowLinks

\* Requests that run to their end one after another keep a default.
DefaultKeptAlone == past = "alone" => DefaultKept

-----------------------------------------------------------------------------
(* The three parts *)

CONSTANTS Users, Houses, Projects, MaxTurns, MaxChanges,
          MaxSubs, MaxEvents, MaxSecond, MaxSessions, MaxOwned

VARIABLES part,
          share, lapsed, ledger, goals, could, lent, paid, open, shaken, requests, changes,
          now, subs, sent, acked, sessions, row, owned, gone, informed, exposed

\* One user owns every shared budget, the others are whom it may be shared with.
Sharing == INSTANCE MCSharedBudget
  WITH Budgets <- Houses, Owner <- [b \in Houses |-> CHOOSE u \in Users : TRUE],
       MaxRequests <- MaxTurns
Paying == INSTANCE MCBilling WITH Requests <- Workers

ASSUME BudgetsAssumption ==
  Sharing!SharedBudgetAssumption /\ Paying!BoundsAssumption /\ Paying!NoneAssumption

onlyTree == <<live, born, kind, mirrors, past, started>>
onlySharing == <<share, lapsed, ledger, goals, could, lent, paid, open, shaken, requests, changes>>
onlyPaying == <<now, subs, sent, acked, sessions, row, owned, gone, informed, exposed>>
several == <<closed, parent, default, active, req>>

NoTree ==
  live = {} /\ born = 0 /\ kind = None /\ mirrors = {} /\ past = "overlapped" /\ started = 0
NoSharing ==
  /\ share = None /\ lapsed = None /\ ledger = None /\ goals = None /\ could = None
  /\ lent = None /\ paid = None /\ open = None /\ shaken = None /\ requests = None /\ changes = None
NoPaying ==
  /\ now = None /\ subs = None /\ sent = None /\ acked = None /\ sessions = None
  /\ row = None /\ owned = None /\ gone = None /\ informed = None /\ exposed = None

BudgetsInit ==
  \/ part = "tree" /\ MCInit /\ NoSharing /\ NoPaying
  \/ part = "sharing" /\ NoTree /\ Sharing!MCInit /\ NoPaying
  \/ /\ part = "paying" /\ NoTree /\ NoSharing /\ Paying!MCInit
     /\ closed = {} /\ parent = None /\ default = None /\ active = None

BudgetsNext ==
  /\ UNCHANGED part
  /\ \/ part = "tree" /\ MCNext /\ UNCHANGED <<onlySharing, onlyPaying>>
     \/ part = "sharing" /\ Sharing!MCNext /\ UNCHANGED <<onlyTree, onlyPaying>>
     \/ /\ part = "paying" /\ Paying!MCNext
        /\ UNCHANGED <<onlyTree, onlySharing, closed, parent, default, active>>

BudgetsSpec ==
  BudgetsInit /\ [][BudgetsNext]_<<part, onlyTree, onlySharing, onlyPaying, several>>

BudgetsTypeOK ==
  /\ part = "tree" => TypeOK
  /\ part = "sharing" => Sharing!TypeOK
  /\ part = "paying" => Paying!TypeOK

\* What create, link, unlink, close, delete and repair leave behind when no
\* requests overlap.
TreeSoundAlone == RollupSoundAlone /\ MirrorsFollowLinksAlone /\ DefaultKeptAlone

\* The promises of SharedBudget and Billing, of the behaviours that show them.
SharingHolds ==
  [][part = "sharing" => Sharing!WriteWasAllowed /\ Sharing!FallsBackUnshaken]_<<onlySharing, several>>

RowFollowsStripe == part = "paying" => Paying!RowFollowsStripe
NoSecondTrial == [][part = "paying" => Paying!FirstTrial]_<<onlyPaying, several>>
DeletionCancelsAlone == part = "paying" => Paying!DeletionCancelsAlone
=============================================================================
