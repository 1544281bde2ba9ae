--------------------------- MODULE MCConnections ----------------------------
(***************************************************************************)
(* What a user's plans rest on, for TLC: the retirement profile            *)
(* (RetirementProfile, whose names are used as they are), the projection   *)
(* on what was once read of it (RetirementProjection), the investments it  *)
(* counts (Holdings) and the bank links of a budget (BankLink).  Bank      *)
(* links and investments share the table linked_accounts but never a row   *)
(* of it, so a behaviour shows one of the four, chosen at first; the       *)
(* profile otherwise rests as it begins, and the variables of the others   *)
(* are None, or empty.                                                     *)
(***************************************************************************)
EXTENDS RetirementProfile, TLC

CONSTANTS Session, Acct, Budget, Worker, MaxRow,
          Assets, MaxSnapshot, MaxRequests, BISECTION_ITERATIONS, Asked, Return

VARIABLES part,
          provider, stable, status, budget, covers, live, events, rows, gone, req,
          granted, disturbed, failed,
          serving, items, snapshot, pro, session, account, asset, working,
          overlapped, ragged, relinked, requests,
          asked, year, run, lo, hi, round

\* The inputs that save a profile: at most two fields at a time, out of these values.
\* The birth dates lie in cohorts with different full retirement ages, one by the rule
\* for 1 January; one reaches the target ages during the year that passes, 71 cannot be
\* claimed at, and life expectancy 67 and target age 68 do not go together.
Values ==
  [birth    |-> {[year |-> 1960, md |-> 1], [year |-> 1960, md |-> 200]},
   target   |-> {66, 68},
   life     |-> {67},
   other    |-> Other,
   benefit  |-> {1000},
   quoted   |-> {Fra, 62},
   claiming |-> {Fra, 71}]

Inputs ==
  UNION {{[NothingGiven EXCEPT ![f] = a, ![g] = b] : a \in Values[f], b \in Values[g]} :
             f \in DOMAIN Values, g \in DOMAIN Values}

AtFirst == [year |-> 2025, md |-> 100]

Bank == INSTANCE MCBankLink

\* Budgets and Items share their model values, and so their symmetry.
Investments == INSTANCE MCHoldings
  WITH Accounts <- Acct, Items <- Budget, Sessions <- Session, Workers <- Worker,
       granted <- items, req <- working

Planning == INSTANCE MCRetirementProjection WITH request <- asked, Request <- Asked

\* What that module asks for, which no Request goes into.
Sample == INSTANCE MCRetirementProjection WITH request <- asked, Request <- {}, Return <- {}

Requests == Sample!MCRequest
Returns == Sample!MCReturn

ASSUME ConnectionsAssumption ==
  /\ RetirementProfileAssumption /\ Bank!BankLinkAssumption
  /\ Investments!HoldingsAssumption /\ Planning!RetirementProjectionAssumption
  /\ Planning!SumsAssumption /\ Planning!PowersAssumption

Interchangeable ==
  Permutations(Worker) \union Permutations(Acct) \union Permutations(Budget)
    \union Permutations(Session)

bankVars ==
  <<provider, stable, status, budget, covers, live, events, rows, gone, req,
    granted, disturbed, failed>>
investmentVars ==
  <<serving, items, snapshot, pro, session, account, asset, working,
    overlapped, ragged, relinked, requests>>
planVars == <<asked, year, run, lo, hi, round>>

NoBank ==
  /\ provider = None /\ stable = None /\ status = None /\ budget = None /\ covers = None
  /\ live = {} /\ events = {} /\ rows = <<>> /\ gone = None /\ req = None
  /\ granted = {} /\ disturbed = TRUE /\ failed = None
NoInvestments ==
  /\ serving = None /\ items = None /\ snapshot = None /\ pro = None /\ session = None
  /\ account = None /\ asset = None /\ working = None
  /\ overlapped = None /\ ragged = None /\ relinked = None /\ requests = None
NoPlan ==
  asked = None /\ year = None /\ run = None /\ lo = None /\ hi = None /\ round = None

ConnectionsInit ==
  /\ Init
  /\ \/ part = "profile" /\ NoBank /\ NoInvestments /\ NoPlan
     \/ part = "bank" /\ Bank!MCInit /\ NoInvestments /\ NoPlan
     \/ part = "investments" /\ NoBank /\ Investments!MCInit /\ NoPlan
     \/ part = "plan" /\ NoBank /\ NoInvestments /\ Planning!Init

ConnectionsNext ==
  /\ UNCHANGED part
  /\ \/ part = "profile" /\ Next /\ UNCHANGED <<bankVars, investmentVars, planVars>>
     \/ part = "bank" /\ Bank!MCNext /\ UNCHANGED <<vars, investmentVars, planVars>>
     \/ part = "investments" /\ Investments!MCNext /\ UNCHANGED <<vars, bankVars, planVars>>
     \/ part = "plan" /\ Planning!Next /\ UNCHANGED <<vars, bankVars, investmentVars>>

ConnectionsSpec ==
  ConnectionsInit /\ [][ConnectionsNext]_<<part, vars, bankVars, investmentVars, planVars>>

\* The profile rests as it begins while another part is shown.
ConnectionsTypeOK ==
  /\ IF part = "profile" THEN TypeOK ELSE Init
  /\ part = "bank" => Bank!TypeOK
  /\ part = "investments" => Investments!TypeOK
  /\ part = "plan" => Planning!TypeOK

\* A completion leaves what it linked with a row to disconnect it by, in the
\* budget it was asked for.
HeldHereAlone == Bank!HeldAlone /\ Bank!ReportedHereAlone

\* A disconnected row stays so, and the other rows keep their provider.
DisconnectsHold == Bank!DisconnectSticks /\ Bank!SiblingsSparedAlone

\* The promises of Holdings, of the behaviours that show it.
CountedIsLinked == part = "investments" => Investments!CountedIsLinked
OneSnapshotAlone == part = "investments" => Investments!OneSnapshotAlone

\* The promises of RetirementProjection, of the behaviours that show it.
SolveIsTight == part = "plan" => Planning!SolveIsTight
BooksBalance == [][part = "plan" => Planning!YearBalances]_planVars
=============================================================================
